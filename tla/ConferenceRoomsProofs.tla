------------------------ MODULE ConferenceRoomsProofs ------------------------
(***************************************************************************)
(* The conference rooms for any sockets, users, conferences and bounds.    *)
(*                                                                         *)
(* SeatsInv is the inductive invariant.  The properties of ConferenceRooms *)
(* are not inductive alone: SeatsAgree breaks if two conferences shared an *)
(* object (RoomsAreDistinct) or if a join could hold the live room of      *)
(* another conference (HeldForTarget); EndedStaysEmpty breaks if a join    *)
(* past its last look could still find the room of an ended conference     *)
(* (EndingIsEnded, NoLateSeat); NoGhostSeats needs that a handled close    *)
(* left no seat behind (GoneSitsNowhere).                                  *)
(*                                                                         *)
(* RowsInv and OnlySocketsInv are about the participant rows: what a row   *)
(* says once the writes in line are done, for anyone, and for a user with  *)
(* one connection only.                                                    *)
(***************************************************************************)
EXTENDS ConferenceRooms, SequenceTheorems, TLAPS

(* No two conferences share a room object. *)
RoomsAreDistinct ==
    \A a, b \in Conferences : rooms[a] = rooms[b] /\ rooms[a] # NoObject => a = b

(* The object a join holds is nobody else's live room. *)
HeldForTarget ==
    \A s \in Sockets, r \in Conferences :
        held[s] # NoObject /\ held[s] = rooms[r] => target[s] = r

GoneSitsNowhere ==
    \A s \in Sockets : ready[s] = "gone" => roomOf[s] = NoConference

EndingIsEnded == \A r \in ending \cup cleared : status[r] = "ended"

(* The last check of a join cannot pass in a conference that was cleared.   *)
NoLateSeat ==
    \A s \in Sockets :
        stage[s] = "after" /\ heard[s] = "joinable" /\ target[s] \in cleared
            => ~IsLive(s)

ClearedIsEmpty == \A r \in cleared : PeersIn(r) = {}

SeatsInv ==
    /\ TypeOK
    /\ RoomsAreDistinct
    /\ HeldForTarget
    /\ SeatsAgree
    /\ GoneSitsNowhere
    /\ OneSeatPerUser
    /\ EndingIsEnded
    /\ NoLateSeat
    /\ ClearedIsEmpty
    /\ HeldRoomsStayOpen
-----------------------------------------------------------------------------
(* Queueing and running a write leaves a chain a sequence of writes. *)
LEMMA ChainTyping ==
    ASSUME TypeOK, NEW p \in Pairs
    PROVE  /\ \A w \in Writes : Queue(p, w) \in [Pairs -> Seq(Writes)]
           /\ \A i \in InOrder(p) : Dequeue(p, i) \in [Pairs -> Seq(Writes)]
<1>1. /\ chain \in [Pairs -> Seq(Writes)]
      /\ chain[p] \in Seq(Writes)
  BY DEF TypeOK
<1>2. ASSUME NEW w \in Writes
      PROVE  Queue(p, w) \in [Pairs -> Seq(Writes)]
  <2>1. Append(chain[p], w) \in Seq(Writes)
    BY <1>1
  <2> QED  BY <1>1, <2>1 DEF Queue
<1>3. ASSUME NEW i \in InOrder(p)
      PROVE  Dequeue(p, i) \in [Pairs -> Seq(Writes)]
  <2>1. /\ i = 1
        /\ 1 \in 1 .. Len(chain[p])
        /\ Len(chain[p]) \in Nat
    BY <1>1 DEF InOrder
  <2>2. /\ SubSeq(chain[p], 1, i - 1) \in Seq(Writes)
        /\ SubSeq(chain[p], i + 1, Len(chain[p])) \in Seq(Writes)
    BY <1>1, <2>1
  <2>3. RemoveAt(chain[p], i) \in Seq(Writes)
    BY <2>2 DEF RemoveAt
  <2> QED  BY <1>1, <2>3 DEF Dequeue
<1> QED  BY <1>2, <1>3

(* The writes of a chain. *)
LEMMA WritesTyping ==
    /\ WriteLeave \in Writes
    /\ \A s \in Sockets : WriteJoin(s) \in Writes
  BY DEF Writes

(* What a departure does to the state, with the shape it keeps. *)
LEMMA DepartTyping ==
    ASSUME TypeOK, NEW s \in Sockets, Depart(s)
    PROVE  /\ rooms' \in [Conferences -> Objects \cup {NoObject}]
           /\ peers' \in [Objects -> SUBSET Sockets]
           /\ roomOf' \in [Sockets -> Conferences \cup {NoConference}]
           /\ chain' \in [Pairs -> Seq(Writes)]
           /\ \A t \in Sockets : roomOf'[t] # NoConference => roomOf'[t] = roomOf[t]
           /\ roomOf'[s] = NoConference
<1>1. CASE roomOf[s] = NoConference
  BY <1>1 DEF Depart, TypeOK
<1>2. CASE roomOf[s] # NoConference
  <2>1. roomOf[s] \in Conferences
    BY <1>2 DEF TypeOK
  <2>2. /\ roomOf' = [roomOf EXCEPT ![s] = NoConference]
        /\ chain' = Queue(Pair(s, roomOf[s]), WriteLeave)
    BY <1>2 DEF Depart
  <2>3. Pair(s, roomOf[s]) \in Pairs
    BY <2>1, UsersOfSockets DEF Pair, Pairs
  <2>4. chain' \in [Pairs -> Seq(Writes)]
    BY <2>2, <2>3, ChainTyping, WritesTyping
  <2>5. /\ rooms' \in [Conferences -> Objects \cup {NoObject}]
        /\ peers' \in [Objects -> SUBSET Sockets]
    <3>1. CASE s \in PeersIn(roomOf[s])
      <4>1. /\ peers' = [peers EXCEPT ![rooms[roomOf[s]]] = @ \ {s}]
            /\ \/ rooms' = rooms
               \/ rooms' = [rooms EXCEPT ![roomOf[s]] = NoObject]
        BY <1>2, <3>1 DEF Depart, DropIfEmpty
      <4> QED  BY <4>1 DEF TypeOK
    <3>2. CASE s \notin PeersIn(roomOf[s])
      BY <1>2, <3>2 DEF Depart, TypeOK
    <3> QED  BY <3>1, <3>2
  <2>6. /\ roomOf' \in [Sockets -> Conferences \cup {NoConference}]
        /\ \A t \in Sockets : roomOf'[t] # NoConference => roomOf'[t] = roomOf[t]
        /\ roomOf'[s] = NoConference
    BY <2>2 DEF TypeOK
  <2> QED  BY <2>4, <2>5, <2>6
<1> QED  BY <1>1, <1>2

(* The state keeps its shape. *)
LEMMA RoomsTyping ==
    ASSUME TypeOK, [Next]_vars
    PROVE  TypeOK'
<1>1. ASSUME NEW s \in Sockets, NEW r \in Conferences, Join(s, r)
      PROVE  TypeOK'
  <2>1. Depart(s)
    BY <1>1 DEF Join
  <2> HIDE DEF Depart
  <2> QED  BY <1>1, <2>1, DepartTyping, NoConferenceIsNone DEF Join, TypeOK, Stages
<1>2. ASSUME NEW s \in Sockets, Leave(s)
      PROVE  TypeOK'
  BY <1>2, DepartTyping DEF Leave, TypeOK
<1>3. ASSUME NEW s \in Sockets, CloseSocket(s)
      PROVE  TypeOK'
  BY <1>3 DEF CloseSocket, Closing, TypeOK
<1>4. ASSUME NEW s \in Sockets, Disconnect(s)
      PROVE  TypeOK'
  BY <1>4, DepartTyping DEF Disconnect, TypeOK
<1>5. ASSUME NEW s \in Sockets, ReadStatus(s)
      PROVE  TypeOK'
  BY <1>5 DEF ReadStatus, TypeOK, Answers
<1>6. ASSUME NEW s \in Sockets, RefuseEarly(s)
      PROVE  TypeOK'
  BY <1>6 DEF RefuseEarly, Refuse, TypeOK, Answers, Stages
<1>7. ASSUME NEW s \in Sockets, AskForRow(s)
      PROVE  TypeOK'
  <2>1. target[s] \in Conferences /\ Pair(s, target[s]) \in Pairs
    BY <1>7, UsersOfSockets, NoConferenceIsNone DEF AskForRow, TypeOK, Pair, Pairs
  <2>2. chain' \in [Pairs -> Seq(Writes)]
    BY <1>7, <2>1, ChainTyping, WritesTyping DEF AskForRow
  <2> QED  BY <1>7, <2>2, SMTT(30) DEF AskForRow, TypeOK, Answers, Stages
<1>8. ASSUME NEW s \in Sockets, Seat(s)
      PROVE  TypeOK'
  <2>1. target[s] \in Conferences /\ held[s] \in Objects
    BY <1>8, NoConferenceIsNone DEF Seat, TypeOK
  <2> QED  BY <1>8, <2>1 DEF Seat, TypeOK, Answers, Stages, Closing, Evicted
<1>9. ASSUME NEW s \in Sockets, Undo(s), stage[s] \in {"after", "closed"}
      PROVE  TypeOK'
  <2>1. target[s] \in Conferences /\ Pair(s, target[s]) \in Pairs
    BY <1>9, UsersOfSockets, NoConferenceIsNone DEF TypeOK, Pair, Pairs
  <2>2. chain' \in [Pairs -> Seq(Writes)]
    BY <1>9, <2>1, ChainTyping, WritesTyping DEF Undo, TypeOK
  <2> QED  BY <1>9, <2>1, <2>2 DEF Undo, TypeOK, Answers, Stages, DropIfEmpty
<1>10. ASSUME NEW s \in Sockets, FindRoomClosed(s)
       PROVE  TypeOK'
  BY <1>10 DEF FindRoomClosed, TypeOK, Answers, Stages
<1>11. ASSUME NEW s \in Sockets, RowJoined(s)
       PROVE  TypeOK'
  <2>0. stage[s] = "recording"
    BY <1>11 DEF RowJoined
  <2>1. target[s] \in Conferences /\ Pair(s, target[s]) \in Pairs
    BY <2>0, UsersOfSockets, NoConferenceIsNone DEF TypeOK, Pair, Pairs
  <2>2. chain' \in [Pairs -> Seq(Writes)]
    BY <1>11, <2>1, ChainTyping DEF RowJoined
  <2> QED  BY <1>11, <2>1, <2>2, NoObjectIsNone DEF RowJoined, TypeOK, Stages
<1>12. ASSUME NEW s \in Sockets, RowNotJoined(s)
       PROVE  TypeOK'
  <2>1. Pair(s, target[s]) \in Pairs
    BY <1>12, UsersOfSockets, NoConferenceIsNone DEF RowNotJoined, TypeOK, Pair, Pairs
  <2>2. chain' \in [Pairs -> Seq(Writes)]
    BY <1>12, <2>1, ChainTyping DEF RowNotJoined
  <2> QED  BY <1>12, <2>2 DEF RowNotJoined, Refuse, TypeOK, Stages, Answers
<1>13. ASSUME NEW p \in Pairs, RowLeft(p) \/ RowNotLeft(p)
       PROVE  TypeOK'
  <2>1. chain' \in [Pairs -> Seq(Writes)]
    BY <1>13, ChainTyping DEF RowLeft, RowNotLeft
  <2> QED  BY <1>13, <2>1 DEF RowLeft, RowNotLeft, TypeOK
<1>14. ASSUME NEW r \in Conferences, EndConference(r)
       PROVE  TypeOK'
  BY <1>14 DEF EndConference, TypeOK, Statuses
<1>15. ASSUME NEW r \in Conferences, EndRoom(r)
       PROVE  TypeOK'
  <2>1. chain' \in [Pairs -> Seq(Writes)]
    BY <1>15, WritesTyping DEF EndRoom, TypeOK
  <2> QED  BY <1>15, <2>1 DEF EndRoom, TypeOK, Closing
<1>16. ASSUME NEW r \in Conferences, MarkActive(r)
       PROVE  TypeOK'
  BY <1>16 DEF MarkActive, TypeOK, Statuses
<1>17. ASSUME NEW u \in Users, Revoke(u)
       PROVE  TypeOK'
  BY <1>17 DEF Revoke, Closing, TypeOK
<1>18. CASE UNCHANGED vars
  BY <1>18 DEF vars, TypeOK
<1> QED
  BY <1>1, <1>2, <1>3, <1>4, <1>5, <1>6, <1>7, <1>8, <1>9, <1>10, <1>11,
     <1>12, <1>13, <1>14, <1>15, <1>16, <1>17, <1>18
     DEF Next, SocketStep, JoinStep, ChainStep, AbortJoin, AbortClosed

-----------------------------------------------------------------------------
(* Most steps only let go: a room is dropped when no join holds it, a join  *)
(* is dropped, or moves on without passing the check of a cleared           *)
(* conference.  What holds of rooms and joins survives that.                *)
LEMMA LettingGo ==
    ASSUME SeatsInv, TypeOK',
           \A r \in Conferences :
               \/ rooms'[r] = rooms[r]
               \/ rooms'[r] = NoObject /\ \A t \in Sockets : held'[t] # rooms[r],
           \A t \in Sockets :
               held'[t] # NoObject => held'[t] = held[t] /\ target'[t] = target[t],
           \A t \in Sockets :
               stage'[t] = "after" /\ heard'[t] = "joinable" =>
                   \/ stage[t] = "after" /\ heard[t] = "joinable"
                   \/ target[t] \notin cleared,
           cleared' = cleared,
           \A r \in Conferences : status[r] = "ended" => status'[r] = "ended",
           \A r \in ending' : r \in ending \/ status'[r] = "ended"
    PROVE  /\ RoomsAreDistinct' /\ HeldForTarget' /\ EndingIsEnded'
           /\ NoLateSeat' /\ HeldRoomsStayOpen'
<1>1. RoomsAreDistinct'
  BY DEF SeatsInv, RoomsAreDistinct
<1>2. HeldForTarget'
  BY DEF SeatsInv, HeldForTarget
<1>4. EndingIsEnded'
  BY DEF SeatsInv, EndingIsEnded, TypeOK
<1>5. ASSUME NEW t \in Sockets, held'[t] # NoObject
      PROVE  IsLive(t)' <=> IsLive(t)
  <2>1. stage'[t] \in {"after", "closed"}
    BY <1>5 DEF TypeOK
  <2>2. target'[t] # NoConference
    BY <2>1 DEF TypeOK
  <2>3. target'[t] \in Conferences /\ target'[t] = target[t] /\ held'[t] = held[t]
    BY <1>5, <2>2 DEF TypeOK
  <2> QED  BY <1>5, <2>3 DEF IsLive
<1>6. NoLateSeat'
  <2> SUFFICES ASSUME NEW t \in Sockets, stage'[t] = "after",
                      heard'[t] = "joinable", target'[t] \in cleared'
               PROVE  ~IsLive(t)'
    BY DEF NoLateSeat
  <2>1. held'[t] # NoObject
    BY DEF TypeOK
  <2> QED  BY <2>1, <1>5 DEF SeatsInv, NoLateSeat
<1>8. HeldRoomsStayOpen'
  <2> SUFFICES ASSUME NEW t \in Sockets, held'[t] # NoObject, ~IsLive(t)'
               PROVE  status'[target'[t]] = "ended"
    BY DEF HeldRoomsStayOpen
  <2>1. stage'[t] \in {"after", "closed"}
    BY DEF TypeOK
  <2>2. target'[t] \in Conferences
    BY <2>1 DEF TypeOK
  <2> QED  BY <2>2, <1>5 DEF SeatsInv, HeldRoomsStayOpen
<1> QED  BY <1>1, <1>2, <1>4, <1>6, <1>8

(* So does what holds of seats that are only given up. *)
LEMMA GivingUpSeats ==
    ASSUME SeatsInv, TypeOK', cleared' = cleared,
           \A r \in Conferences : rooms'[r] \in {rooms[r], NoObject},
           \A k \in Objects : peers'[k] \subseteq peers[k]
    PROVE  OneSeatPerUser' /\ ClearedIsEmpty'
<1>1. OneSeatPerUser'
  BY DEF SeatsInv, OneSeatPerUser
<1>2. ClearedIsEmpty'
  BY DEF SeatsInv, ClearedIsEmpty, PeersIn, TypeOK
<1> QED  BY <1>1, <1>2

(* Leaving gives up the one seat the socket has, and its room if that was   *)
(* the last seat and no join holds it.                                      *)
LEMMA DepartSeats ==
    ASSUME SeatsInv, NEW s \in Sockets, Depart(s), TypeOK'
    PROVE  /\ \A r \in Conferences :
                  \/ rooms'[r] = rooms[r]
                  \/ rooms'[r] = NoObject /\ \A t \in Sockets : held[t] # rooms[r]
           /\ \A k \in Objects : peers'[k] \subseteq peers[k]
           /\ \A r \in Conferences : PeersIn(r)' = PeersIn(r) \ {s}
           /\ SeatsAgree'
<1>1. CASE roomOf[s] = NoConference
  <2>1. UNCHANGED <<roomOf, rooms, peers>>
    BY <1>1 DEF Depart
  <2>2. \A r \in Conferences : s \notin PeersIn(r)
    BY <1>1, NoConferenceIsNone DEF SeatsInv, SeatsAgree
  <2>3. \A r \in Conferences : PeersIn(r)' = PeersIn(r)
    BY <2>1 DEF PeersIn
  <2> QED  BY <2>1, <2>2, <2>3 DEF SeatsInv, SeatsAgree
<1>2. CASE roomOf[s] # NoConference
  <2> DEFINE q == roomOf[s]
             k == rooms[q]
  <2>1. q \in Conferences /\ s \in PeersIn(q)
    BY <1>2 DEF SeatsInv, TypeOK, SeatsAgree
  <2>2. k # NoObject /\ k \in Objects /\ s \in peers[k]
    BY <2>1 DEF PeersIn, SeatsInv, TypeOK
  <2>3. /\ roomOf' = [roomOf EXCEPT ![s] = NoConference]
        /\ peers' = [peers EXCEPT ![k] = @ \ {s}]
        /\ \/ rooms' = rooms
           \/ /\ rooms' = [rooms EXCEPT ![q] = NoObject]
              /\ Holding(k) = {}
              /\ peers[k] \ {s} = {}
    BY <1>2, <2>1 DEF Depart, DropIfEmpty
  <2>4. \A r \in Conferences : r # q /\ rooms[r] # NoObject => rooms[r] # k
    BY <2>1, <2>2 DEF SeatsInv, RoomsAreDistinct
  <2>5. \A r \in Conferences : PeersIn(r)' = PeersIn(r) \ {s}
    <3> SUFFICES ASSUME NEW r \in Conferences
                 PROVE  PeersIn(r)' = PeersIn(r) \ {s}
      OBVIOUS
    <3>1. CASE r = q
      BY <2>1, <2>2, <2>3, <3>1 DEF PeersIn, SeatsInv, TypeOK
    <3>2. CASE r # q
      <4>1. s \notin PeersIn(r)
        BY <2>1, <3>2 DEF SeatsInv, SeatsAgree
      <4>2. rooms'[r] = rooms[r]
        BY <2>3, <3>2 DEF SeatsInv, TypeOK
      <4>3. rooms[r] # NoObject => rooms[r] \in Objects /\ peers'[rooms[r]] = peers[rooms[r]]
        BY <2>3, <2>4, <3>2 DEF SeatsInv, TypeOK
      <4> QED  BY <4>1, <4>2, <4>3 DEF PeersIn
    <3> QED  BY <3>1, <3>2
  <2>6. \A t \in Sockets, r \in Conferences :
            roomOf'[t] = r <=> t \in PeersIn(r)'
    BY <2>1, <2>3, <2>5, NoConferenceIsNone DEF SeatsInv, SeatsAgree, TypeOK
  <2>7. \A j \in Objects : peers'[j] # {} => \E r \in Conferences : rooms'[r] = j
    <3> SUFFICES ASSUME NEW j \in Objects, peers'[j] # {}
                 PROVE  \E r \in Conferences : rooms'[r] = j
      OBVIOUS
    <3>0. peers[j] # {}
      BY <2>3 DEF SeatsInv, TypeOK
    <3>1. PICK r \in Conferences : rooms[r] = j
      BY <3>0 DEF SeatsInv, SeatsAgree
    <3>2. rooms'[r] = j
      BY <2>2, <2>3, <3>1 DEF SeatsInv, TypeOK
    <3> QED  BY <3>2
  <2>8. SeatsAgree'
    BY <2>6, <2>7 DEF SeatsAgree
  <2>9. \A j \in Objects : peers'[j] \subseteq peers[j]
    BY <2>3 DEF SeatsInv, TypeOK
  <2>10. \A r \in Conferences :
            \/ rooms'[r] = rooms[r]
            \/ rooms'[r] = NoObject /\ \A t \in Sockets : held[t] # rooms[r]
    BY <2>1, <2>3 DEF Holding, SeatsInv, TypeOK
  <2> QED  BY <2>5, <2>8, <2>9, <2>10
<1> QED  BY <1>1, <1>2

(* A join that passes its three checks takes the user's one seat in a       *)
(* conference that was not cleared.                                         *)
LEMMA SeatKeepsSeats ==
    ASSUME SeatsInv, NEW s \in Sockets, Seat(s), TypeOK'
    PROVE  /\ SeatsInv'
           /\ target[s] \in Conferences \ cleared
           /\ \A q \in Conferences :
                  PeersIn(q)' = IF q = target[s]
                                THEN (PeersIn(q) \ Evicted(s)) \cup {s}
                                ELSE PeersIn(q)
<1> DEFINE r == target[s]
           k == held[s]
           out == Evicted(s)
<1>1. /\ stage[s] = "after" /\ heard[s] = "joinable" /\ ready[s] = "open"
      /\ rooms[r] = k
  BY DEF Seat, Seatable, IsLive
<1>2. /\ r \in Conferences /\ k \in Objects /\ k # NoObject
      /\ roomOf[s] = NoConference
  <2>1. r # NoConference /\ k # NoObject /\ roomOf[s] = NoConference
    BY <1>1 DEF SeatsInv, TypeOK
  <2> QED  BY <2>1 DEF SeatsInv, TypeOK
<1>3. /\ peers' = [peers EXCEPT ![k] = (@ \ out) \cup {s}]
      /\ \A t \in Sockets : roomOf'[t] = IF t = s THEN r
                                        ELSE IF t \in out THEN NoConference
                                        ELSE roomOf[t]
      /\ ready' = Closing(out)
      /\ UNCHANGED <<status, ending, cleared, rooms>>
  BY DEF Seat
<1>4. out \subseteq PeersIn(r) /\ s \notin out
  BY <1>1, <1>2 DEF Evicted, PeersIn
<1>5. r \notin cleared
  BY <1>1 DEF SeatsInv, NoLateSeat, IsLive
<1>6. /\ RoomsAreDistinct' /\ HeldForTarget' /\ EndingIsEnded'
      /\ NoLateSeat' /\ HeldRoomsStayOpen'
  <2>1. /\ \A t \in Sockets :
             held'[t] # NoObject => held'[t] = held[t] /\ target'[t] = target[t]
        /\ \A t \in Sockets :
               stage'[t] = "after" /\ heard'[t] = "joinable" =>
                   stage[t] = "after" /\ heard[t] = "joinable"
    BY DEF Seat, SeatsInv, TypeOK
  <2> QED  BY <1>3, <2>1, LettingGo
<1>7. \A q \in Conferences :
          PeersIn(q)' = IF q = r THEN (PeersIn(q) \ out) \cup {s} ELSE PeersIn(q)
  <2> SUFFICES ASSUME NEW q \in Conferences
               PROVE  PeersIn(q)' = IF q = r THEN (PeersIn(q) \ out) \cup {s}
                                             ELSE PeersIn(q)
    OBVIOUS
  <2>1. CASE q = r
    BY <1>1, <1>2, <1>3, <2>1 DEF PeersIn, SeatsInv, TypeOK
  <2>2. CASE q # r
    <3>1. rooms[q] # k
      BY <1>1, <1>2, <2>2 DEF SeatsInv, RoomsAreDistinct
    <3>2. rooms[q] # NoObject => rooms[q] \in Objects
      BY DEF SeatsInv, TypeOK
    <3> QED  BY <1>2, <1>3, <2>2, <3>1, <3>2 DEF PeersIn, SeatsInv, TypeOK
  <2> QED  BY <2>1, <2>2
<1>8. SeatsAgree'
  <2>1. ASSUME NEW t \in Sockets, NEW q \in Conferences
        PROVE  roomOf'[t] = q <=> t \in PeersIn(q)'
    <3>1. roomOf[t] = q <=> t \in PeersIn(q)
      BY DEF SeatsInv, SeatsAgree
    <3>2. t \in out => roomOf[t] = r
      BY <1>2, <1>4 DEF SeatsInv, SeatsAgree
    <3>3. s \notin PeersIn(q)
      BY <1>2, NoConferenceIsNone DEF SeatsInv, SeatsAgree
    <3> QED  BY <1>2, <1>3, <1>4, <1>7, <3>1, <3>2, <3>3, NoConferenceIsNone
  <2>2. ASSUME NEW j \in Objects, peers'[j] # {}
        PROVE  \E q \in Conferences : rooms'[q] = j
    <3>1. CASE j = k
      BY <1>1, <1>2, <1>3, <3>1
    <3>2. CASE j # k
      <4>1. peers[j] # {}
        BY <1>3, <2>2, <3>2 DEF SeatsInv, TypeOK
      <4> QED  BY <1>3, <4>1 DEF SeatsInv, SeatsAgree
    <3> QED  BY <3>1, <3>2
  <2> QED  BY <2>1, <2>2 DEF SeatsAgree
<1>9. GoneSitsNowhere'
  <2> SUFFICES ASSUME NEW t \in Sockets, ready'[t] = "gone"
               PROVE  roomOf'[t] = NoConference
    BY DEF GoneSitsNowhere
  <2>1. ready[t] = "gone"
    BY <1>3 DEF Closing
  <2> QED  BY <1>1, <1>3, <2>1 DEF SeatsInv, GoneSitsNowhere
<1>10. OneSeatPerUser'
  <2> SUFFICES ASSUME NEW j \in Objects, NEW a \in peers'[j],
                      NEW b \in peers'[j], UserOf[a] = UserOf[b]
               PROVE  a = b
    BY DEF OneSeatPerUser
  <2>1. CASE j # k
    BY <1>3, <2>1 DEF SeatsInv, OneSeatPerUser, TypeOK
  <2>2. CASE j = k
    <3>1. peers'[k] = (peers[k] \ out) \cup {s}
      BY <1>2, <1>3 DEF SeatsInv, TypeOK
    <3> QED  BY <1>2, <2>2, <3>1 DEF SeatsInv, OneSeatPerUser, Evicted
  <2> QED  BY <2>1, <2>2
<1>11. ClearedIsEmpty'
  <2>1. ASSUME NEW q \in cleared
        PROVE  PeersIn(q)' = {}
    <3>1. q \in Conferences /\ q # r
      BY <1>5 DEF SeatsInv, TypeOK
    <3>2. PeersIn(q) = {}
      BY DEF SeatsInv, ClearedIsEmpty
    <3> QED  BY <1>7, <3>1, <3>2
  <2> QED  BY <1>3, <2>1 DEF ClearedIsEmpty
<1>12. SeatsInv'
  BY <1>6, <1>8, <1>9, <1>10, <1>11 DEF SeatsInv
<1> QED  BY <1>2, <1>5, <1>7, <1>12

(* A join that recorded its row shares the live room, or opens one that     *)
(* nobody sits in and nobody else holds.                                    *)
LEMMA RowJoinedKeepsSeats ==
    ASSUME SeatsInv, NEW s \in Sockets, RowJoined(s), TypeOK'
    PROVE  /\ SeatsInv'
           /\ \A q \in Conferences : PeersIn(q)' = PeersIn(q)
<1> DEFINE r == target[s]
<1>1. PICK k \in Objects :
          /\ IF rooms[r] = NoObject THEN IsFresh(k) ELSE k = rooms[r]
          /\ rooms' = [rooms EXCEPT ![r] = k]
          /\ held' = [held EXCEPT ![s] = k]
  BY DEF RowJoined
<1>2. /\ stage[s] = "recording"
      /\ stage' = [stage EXCEPT ![s] = "after"]
      /\ UNCHANGED <<status, ending, cleared, peers, ready, roomOf, target, heard>>
  BY DEF RowJoined
<1>3. /\ r \in Conferences /\ k # NoObject
      /\ heard[s] = "none"
  <2>1. r # NoConference /\ heard[s] = "none"
    BY <1>2 DEF SeatsInv, TypeOK
  <2> QED  BY <1>2, <2>1, NoObjectIsNone DEF SeatsInv, TypeOK
<1>4. /\ rooms'[r] = k
      /\ \A q \in Conferences : q # r => rooms'[q] = rooms[q] /\ rooms[q] # k
  BY <1>1, <1>3 DEF IsFresh, SeatsInv, TypeOK, RoomsAreDistinct
<1>5. /\ held'[s] = k
      /\ \A t \in Sockets : t # s => held'[t] = held[t]
      /\ \A t \in Sockets : t # s /\ held[t] = k => rooms[r] = k
  BY <1>1 DEF IsFresh, Holding, SeatsInv, TypeOK
<1>6. RoomsAreDistinct'
  BY <1>4 DEF SeatsInv, RoomsAreDistinct
<1>7. HeldForTarget'
  <2> SUFFICES ASSUME NEW t \in Sockets, NEW q \in Conferences,
                      held'[t] # NoObject, held'[t] = rooms'[q]
               PROVE  target[t] = q
    BY <1>2 DEF HeldForTarget
  <2>1. CASE t = s
    BY <1>4, <1>5, <2>1
  <2>2. CASE t # s /\ q # r
    BY <1>4, <1>5, <2>2 DEF SeatsInv, HeldForTarget
  <2>3. CASE t # s /\ q = r
    <3>1. held[t] = rooms[r] /\ held[t] # NoObject
      BY <1>4, <1>5, <2>3
    <3> QED  BY <1>3, <2>3, <3>1 DEF SeatsInv, HeldForTarget
  <2> QED  BY <2>1, <2>2, <2>3
<1>8. \A q \in Conferences : PeersIn(q)' = PeersIn(q)
  BY <1>1, <1>2, <1>3, <1>4 DEF PeersIn, IsFresh
<1>9. SeatsAgree'
  <2>1. ASSUME NEW j \in Objects, peers'[j] # {}
        PROVE  \E q \in Conferences : rooms'[q] = j
    <3>1. PICK q \in Conferences : rooms[q] = j
      BY <1>2, <2>1 DEF SeatsInv, SeatsAgree
    <3>2. j # NoObject
      BY NoObjectIsNone
    <3> QED  BY <1>1, <1>4, <3>1, <3>2
  <2> QED  BY <1>2, <1>8, <2>1 DEF SeatsInv, SeatsAgree
<1>10. GoneSitsNowhere' /\ OneSeatPerUser' /\ EndingIsEnded'
  BY <1>2 DEF SeatsInv, GoneSitsNowhere, OneSeatPerUser, EndingIsEnded
<1>11. \A t \in Sockets : t # s /\ held[t] # NoObject => (IsLive(t)' <=> IsLive(t))
  <2> SUFFICES ASSUME NEW t \in Sockets, t # s, held[t] # NoObject
               PROVE  IsLive(t)' <=> IsLive(t)
    OBVIOUS
  <2>1. stage[t] \in {"after", "closed"}
    BY DEF SeatsInv, TypeOK
  <2>2. target[t] \in Conferences
    BY <2>1 DEF SeatsInv, TypeOK
  <2>3. held'[t] = held[t] /\ target'[t] = target[t]
    BY <1>2, <1>5
  <2>4. rooms'[target[t]] = held[t] <=> rooms[target[t]] = held[t]
    BY <1>1, <1>4, <1>5, <2>2
  <2> QED  BY <2>3, <2>4 DEF IsLive
<1>12. NoLateSeat'
  <2> SUFFICES ASSUME NEW t \in Sockets, stage'[t] = "after",
                      heard'[t] = "joinable", target'[t] \in cleared'
               PROVE  ~IsLive(t)'
    BY DEF NoLateSeat
  <2>1. t # s /\ stage[t] = "after"
    BY <1>2, <1>3 DEF SeatsInv, TypeOK
  <2>2. held[t] # NoObject
    BY <2>1 DEF SeatsInv, TypeOK
  <2> QED  BY <1>2, <1>11, <2>1, <2>2 DEF SeatsInv, NoLateSeat
<1>13. HeldRoomsStayOpen'
  <2> SUFFICES ASSUME NEW t \in Sockets, held'[t] # NoObject, ~IsLive(t)'
               PROVE  status'[target'[t]] = "ended"
    BY DEF HeldRoomsStayOpen
  <2>1. IsLive(s)'
    BY <1>2, <1>4, <1>5 DEF IsLive
  <2>2. t # s /\ held[t] # NoObject
    BY <1>5, <2>1
  <2> QED  BY <1>2, <1>11, <2>2 DEF SeatsInv, HeldRoomsStayOpen
<1>14. ClearedIsEmpty'
  BY <1>2, <1>8 DEF SeatsInv, ClearedIsEmpty, TypeOK
<1>15. SeatsInv'
  BY <1>6, <1>7, <1>9, <1>10, <1>12, <1>13, <1>14 DEF SeatsInv
<1> QED  BY <1>8, <1>15

(* Clearing an ended conference empties its room and lets go of it, so that *)
(* no join that holds it finds it live again.                               *)
LEMMA EndRoomKeepsSeats ==
    ASSUME SeatsInv, NEW r \in Conferences, EndRoom(r), TypeOK'
    PROVE  /\ SeatsInv'
           /\ \A q \in Conferences :
                  PeersIn(q)' = IF q = r THEN {} ELSE PeersIn(q)
<1>1. /\ r \in ending
      /\ ending' = ending \ {r}
      /\ cleared' = cleared \cup {r}
      /\ rooms' = [rooms EXCEPT ![r] = NoObject]
      /\ peers' = [k \in Objects |-> IF k = rooms[r] THEN {} ELSE peers[k]]
      /\ roomOf' = [s \in Sockets |-> IF s \in PeersIn(r) THEN NoConference
                                                     ELSE roomOf[s]]
      /\ ready' = Closing(PeersIn(r))
      /\ UNCHANGED <<status, stage, target, heard, held>>
  BY DEF EndRoom
<1>2. status[r] = "ended"
  BY <1>1 DEF SeatsInv, EndingIsEnded
<1>3. /\ rooms'[r] = NoObject
      /\ \A q \in Conferences : q # r => rooms'[q] = rooms[q]
  BY <1>1 DEF SeatsInv, TypeOK
<1>4. RoomsAreDistinct' /\ HeldForTarget'
  BY <1>1, <1>3 DEF SeatsInv, RoomsAreDistinct, HeldForTarget
<1>5. \A q \in Conferences : PeersIn(q)' = IF q = r THEN {} ELSE PeersIn(q)
  <2> SUFFICES ASSUME NEW q \in Conferences, q # r
               PROVE  PeersIn(q)' = PeersIn(q)
    BY <1>3 DEF PeersIn
  <2>1. rooms[q] # NoObject => rooms[q] \in Objects /\ rooms[q] # rooms[r]
    BY DEF SeatsInv, TypeOK, RoomsAreDistinct
  <2> QED  BY <1>1, <1>3, <2>1 DEF PeersIn
<1>6. SeatsAgree'
  <2>1. ASSUME NEW t \in Sockets, NEW q \in Conferences
        PROVE  roomOf'[t] = q <=> t \in PeersIn(q)'
    <3>1. /\ roomOf[t] = q <=> t \in PeersIn(q)
          /\ roomOf[t] = r <=> t \in PeersIn(r)
      BY DEF SeatsInv, SeatsAgree
    <3> QED  BY <1>1, <1>5, <3>1, NoConferenceIsNone
  <2>2. ASSUME NEW j \in Objects, peers'[j] # {}
        PROVE  \E q \in Conferences : rooms'[q] = j
    <3>1. j # rooms[r] /\ peers[j] # {}
      BY <1>1, <2>2
    <3>2. PICK q \in Conferences : rooms[q] = j
      BY <3>1 DEF SeatsInv, SeatsAgree
    <3> QED  BY <1>3, <3>1, <3>2
  <2> QED  BY <2>1, <2>2 DEF SeatsAgree
<1>7. GoneSitsNowhere'
  <2> SUFFICES ASSUME NEW t \in Sockets, ready'[t] = "gone"
               PROVE  roomOf'[t] = NoConference
    BY DEF GoneSitsNowhere
  <2>1. ready[t] = "gone"
    BY <1>1 DEF Closing
  <2> QED  BY <1>1, <2>1 DEF SeatsInv, GoneSitsNowhere
<1>8. OneSeatPerUser'
  BY <1>1 DEF SeatsInv, OneSeatPerUser
<1>9. EndingIsEnded'
  BY <1>1, <1>2 DEF SeatsInv, EndingIsEnded
<1>10. NoLateSeat'
  <2> SUFFICES ASSUME NEW t \in Sockets, stage[t] = "after",
                      heard[t] = "joinable", target[t] \in cleared \cup {r}
               PROVE  rooms'[target[t]] # held[t]
    BY <1>1 DEF NoLateSeat, IsLive
  <2>1. held[t] # NoObject
    BY DEF SeatsInv, TypeOK
  <2>2. target[t] # r => target[t] \in cleared /\ target[t] \in Conferences
    BY DEF SeatsInv, TypeOK
  <2> QED  BY <1>3, <2>1, <2>2 DEF SeatsInv, NoLateSeat, IsLive
<1>11. ClearedIsEmpty'
  BY <1>1, <1>5 DEF SeatsInv, ClearedIsEmpty, TypeOK
<1>12. HeldRoomsStayOpen'
  <2> SUFFICES ASSUME NEW t \in Sockets, held[t] # NoObject,
                      rooms'[target[t]] # held[t]
               PROVE  status[target[t]] = "ended"
    BY <1>1 DEF HeldRoomsStayOpen, IsLive
  <2>1. stage[t] \in {"after", "closed"}
    BY DEF SeatsInv, TypeOK
  <2>2. target[t] \in Conferences
    BY <2>1 DEF SeatsInv, TypeOK
  <2> QED  BY <1>2, <1>3, <2>2 DEF SeatsInv, HeldRoomsStayOpen, IsLive
<1>13. SeatsInv'
  BY <1>4, <1>6, <1>7, <1>8, <1>9, <1>10, <1>11, <1>12 DEF SeatsInv
<1> QED  BY <1>5, <1>13

(* Steps that leave rooms and seats alone, where no socket disappears. *)
LEMMA StandingStill ==
    ASSUME SeatsInv, TypeOK',
           UNCHANGED <<rooms, peers, roomOf, cleared>>,
           \A t \in Sockets : ready'[t] = "gone" => ready[t] = "gone",
           \A t \in Sockets :
               held'[t] # NoObject => held'[t] = held[t] /\ target'[t] = target[t],
           \A t \in Sockets :
               stage'[t] = "after" /\ heard'[t] = "joinable" =>
                   \/ stage[t] = "after" /\ heard[t] = "joinable"
                   \/ target[t] \notin cleared,
           \A r \in Conferences : status[r] = "ended" => status'[r] = "ended",
           \A r \in ending' : r \in ending \/ status'[r] = "ended"
    PROVE  SeatsInv'
<1>1. /\ RoomsAreDistinct' /\ HeldForTarget' /\ EndingIsEnded'
      /\ NoLateSeat' /\ HeldRoomsStayOpen'
  BY LettingGo
<1>2. OneSeatPerUser' /\ ClearedIsEmpty'
  BY DEF SeatsInv, OneSeatPerUser, ClearedIsEmpty, PeersIn
<1>3. SeatsAgree' /\ GoneSitsNowhere'
  BY DEF SeatsInv, SeatsAgree, PeersIn, GoneSitsNowhere
<1> QED  BY <1>1, <1>2, <1>3 DEF SeatsInv

(* Steps of which a departure is all that touches rooms and seats. *)
LEMMA DepartKeepsSeats ==
    ASSUME SeatsInv, TypeOK', NEW s \in Sockets, Depart(s),
           UNCHANGED <<status, ending, cleared, heard, held>>,
           \A t \in Sockets : held[t] # NoObject => target'[t] = target[t],
           \A t \in Sockets : stage'[t] = "after" => stage[t] = "after",
           \A t \in Sockets : ready'[t] = "gone" => ready[t] = "gone" \/ t = s
    PROVE  SeatsInv'
<1>1. /\ \A r \in Conferences :
             \/ rooms'[r] = rooms[r]
             \/ rooms'[r] = NoObject /\ \A t \in Sockets : held[t] # rooms[r]
      /\ \A k \in Objects : peers'[k] \subseteq peers[k]
      /\ SeatsAgree'
  BY DepartSeats
<1>2. /\ RoomsAreDistinct' /\ HeldForTarget' /\ EndingIsEnded'
      /\ NoLateSeat' /\ HeldRoomsStayOpen'
  BY <1>1, LettingGo
<1>3. OneSeatPerUser' /\ ClearedIsEmpty'
  BY <1>1, GivingUpSeats
<1>4. GoneSitsNowhere'
  <2>1. /\ roomOf'[s] = NoConference
        /\ \A t \in Sockets : roomOf'[t] # NoConference => roomOf'[t] = roomOf[t]
    BY DepartTyping DEF SeatsInv
  <2> QED  BY <2>1 DEF SeatsInv, GoneSitsNowhere
<1> QED  BY <1>1, <1>2, <1>3, <1>4 DEF SeatsInv

(* An abandoned join lets its room go if nobody else is in it or joining.   *)
LEMMA UndoKeepsSeats ==
    ASSUME SeatsInv, TypeOK', NEW s \in Sockets, Undo(s),
           stage[s] \in {"after", "closed"}
    PROVE  /\ SeatsInv'
           /\ \A q \in Conferences : PeersIn(q)' = PeersIn(q)
<1> DEFINE r == target[s]
           k == held[s]
<1>1. r \in Conferences /\ k # NoObject /\ k \in Objects
  <2>1. r # NoConference /\ k # NoObject
    BY DEF SeatsInv, TypeOK
  <2> QED  BY <2>1 DEF SeatsInv, TypeOK
<1>2. /\ held' = [held EXCEPT ![s] = NoObject]
      /\ stage' = [stage EXCEPT ![s] = "none"]
      /\ target' = [target EXCEPT ![s] = NoConference]
      /\ heard' = [heard EXCEPT ![s] = "none"]
      /\ UNCHANGED <<status, ending, cleared, peers, ready, roomOf>>
  BY DEF Undo
<1>3. \/ rooms' = rooms
      \/ /\ rooms[r] = k
         /\ rooms' = [rooms EXCEPT ![r] = NoObject]
         /\ peers[k] = {}
         /\ Holding(k) \subseteq {s}
  BY DEF Undo, IsLive, DropIfEmpty
<1>4. /\ \A t \in Sockets :
             held'[t] # NoObject => held'[t] = held[t] /\ target'[t] = target[t]
      /\ \A t \in Sockets :
             stage'[t] = "after" => stage[t] = "after" /\ heard'[t] = heard[t]
  BY <1>2 DEF SeatsInv, TypeOK
<1>5. \A q \in Conferences :
          \/ rooms'[q] = rooms[q]
          \/ rooms'[q] = NoObject /\ \A t \in Sockets : held'[t] # rooms[q]
  <2>1. rooms[r] = k /\ Holding(k) \subseteq {s} =>
            \A t \in Sockets : held'[t] # rooms[r]
    BY <1>1, <1>2 DEF Holding, SeatsInv, TypeOK
  <2> QED  BY <1>1, <1>3, <2>1 DEF SeatsInv, TypeOK
<1>6. /\ RoomsAreDistinct' /\ HeldForTarget' /\ EndingIsEnded'
      /\ NoLateSeat' /\ HeldRoomsStayOpen'
  BY <1>2, <1>4, <1>5, LettingGo
<1>7. OneSeatPerUser' /\ ClearedIsEmpty'
  BY <1>2, <1>5, GivingUpSeats
<1>8. \A q \in Conferences : PeersIn(q)' = PeersIn(q)
  <2>1. CASE rooms' = rooms
    BY <1>2, <2>1 DEF PeersIn
  <2>2. CASE /\ rooms[r] = k /\ peers[k] = {}
             /\ rooms' = [rooms EXCEPT ![r] = NoObject]
    <3>1. /\ rooms'[r] = NoObject
          /\ \A q \in Conferences : q # r => rooms'[q] = rooms[q]
      BY <1>1, <2>2 DEF SeatsInv, TypeOK
    <3>2. ASSUME NEW q \in Conferences
          PROVE  PeersIn(q)' = PeersIn(q)
      <4>1. CASE q = r
        BY <1>2, <2>2, <3>1, <4>1 DEF PeersIn
      <4>2. CASE q # r
        BY <1>2, <3>1, <4>2 DEF PeersIn
      <4> QED  BY <4>1, <4>2
    <3> QED  BY <3>2
  <2> QED  BY <1>3, <2>1, <2>2
<1>9. SeatsAgree'
  <2>1. ASSUME NEW j \in Objects, peers'[j] # {}
        PROVE  \E q \in Conferences : rooms'[q] = j
    <3>1. PICK q \in Conferences : rooms[q] = j
      BY <1>2, <2>1 DEF SeatsInv, SeatsAgree
    <3>2. rooms'[q] = j
      BY <1>1, <1>2, <1>3, <2>1, <3>1 DEF SeatsInv, TypeOK
    <3> QED  BY <3>2
  <2> QED  BY <1>2, <1>8, <2>1 DEF SeatsInv, SeatsAgree
<1>10. GoneSitsNowhere'
  BY <1>2 DEF SeatsInv, GoneSitsNowhere
<1>11. SeatsInv'
  BY <1>6, <1>7, <1>9, <1>10 DEF SeatsInv
<1> QED  BY <1>8, <1>11

(* SeatsInv is inductive. *)
LEMMA StepsKeepSeats ==
    ASSUME SeatsInv, [Next]_vars
    PROVE  SeatsInv'
<1>0. TypeOK'
  BY RoomsTyping DEF SeatsInv
<1>1. ASSUME NEW s \in Sockets, NEW r \in Conferences, Join(s, r)
      PROVE  SeatsInv'
  <2>1. target[s] = NoConference /\ held[s] = NoObject
    BY <1>1 DEF Join, SeatsInv, TypeOK
  <2>2. /\ Depart(s)
        /\ UNCHANGED <<status, ending, cleared, heard, held>>
        /\ \A t \in Sockets : held[t] # NoObject => target'[t] = target[t]
        /\ \A t \in Sockets : stage'[t] = "after" => stage[t] = "after"
        /\ ready' = ready
    BY <1>1, <2>1 DEF Join, SeatsInv, TypeOK
  <2> QED  BY <1>0, <2>2, DepartKeepsSeats
<1>2. ASSUME NEW s \in Sockets, Leave(s)
      PROVE  SeatsInv'
  BY <1>0, <1>2, DepartKeepsSeats DEF Leave
<1>3. ASSUME NEW s \in Sockets, CloseSocket(s)
      PROVE  SeatsInv'
  BY <1>0, <1>3, StandingStill DEF CloseSocket, Closing
<1>4. ASSUME NEW s \in Sockets, Disconnect(s)
      PROVE  SeatsInv'
  <2>1. \A t \in Sockets : ready'[t] = "gone" => ready[t] = "gone" \/ t = s
    BY <1>4 DEF Disconnect, SeatsInv, TypeOK
  <2> QED  BY <1>0, <1>4, <2>1, DepartKeepsSeats DEF Disconnect
<1>5. ASSUME NEW s \in Sockets, ReadStatus(s)
      PROVE  SeatsInv'
  <2>1. target[s] # NoConference
    BY <1>5 DEF ReadStatus, SeatsInv, TypeOK
  <2>2. target[s] \in Conferences
    BY <2>1 DEF SeatsInv, TypeOK
  <2>3. heard'[s] = "joinable" => target[s] \notin cleared
    BY <1>5, <2>2 DEF ReadStatus, SeatsInv, EndingIsEnded, TypeOK
  <2>4. \A t \in Sockets : t # s => heard'[t] = heard[t]
    BY <1>5 DEF ReadStatus, SeatsInv, TypeOK
  <2> QED  BY <1>0, <1>5, <2>3, <2>4, StandingStill DEF ReadStatus
<1>6. ASSUME NEW s \in Sockets, Refuse(s), held[s] = NoObject
      PROVE  SeatsInv'
  <2>1. /\ \A t \in Sockets :
               held'[t] # NoObject => held'[t] = held[t] /\ target'[t] = target[t]
        /\ \A t \in Sockets :
               stage'[t] = "after" => stage[t] = "after" /\ heard'[t] = heard[t]
        /\ UNCHANGED <<rooms, peers, roomOf, cleared, ready, status, ending>>
    BY <1>6 DEF Refuse, SeatsInv, TypeOK
  <2> QED  BY <1>0, <2>1, StandingStill
<1>7. ASSUME NEW s \in Sockets, RefuseEarly(s)
      PROVE  SeatsInv'
  <2>1. held[s] = NoObject /\ Refuse(s)
    BY <1>7 DEF RefuseEarly, SeatsInv, TypeOK
  <2> QED  BY <1>6, <2>1
<1>8. ASSUME NEW s \in Sockets, RowNotJoined(s)
      PROVE  SeatsInv'
  <2>1. stage[s] = "recording" /\ Refuse(s)
    BY <1>8 DEF RowNotJoined
  <2>2. held[s] = NoObject
    BY <2>1 DEF SeatsInv, TypeOK
  <2> QED  BY <1>6, <2>1, <2>2
<1>9. ASSUME NEW s \in Sockets, AskForRow(s)
      PROVE  SeatsInv'
  <2>1. /\ \A t \in Sockets :
               stage'[t] = "after" => stage[t] = "after" /\ heard'[t] = heard[t]
        /\ UNCHANGED <<rooms, peers, roomOf, cleared, ready, status, ending,
                       held, target>>
    BY <1>9 DEF AskForRow, SeatsInv, TypeOK
  <2> QED  BY <1>0, <2>1, StandingStill
<1>10. ASSUME NEW s \in Sockets, FindRoomClosed(s)
       PROVE  SeatsInv'
  <2>1. /\ \A t \in Sockets :
               stage'[t] = "after" => stage[t] = "after" /\ heard'[t] = heard[t]
        /\ UNCHANGED <<rooms, peers, roomOf, cleared, ready, status, ending,
                       held, target>>
    BY <1>10 DEF FindRoomClosed, SeatsInv, TypeOK
  <2> QED  BY <1>0, <2>1, StandingStill
<1>11. ASSUME NEW r \in Conferences, EndConference(r)
       PROVE  SeatsInv'
  <2>1. /\ \A q \in Conferences : status[q] = "ended" => status'[q] = "ended"
        /\ \A q \in ending' : q \in ending \/ status'[q] = "ended"
        /\ UNCHANGED <<rooms, peers, roomOf, cleared, ready, stage, heard,
                       held, target>>
    BY <1>11 DEF EndConference, SeatsInv, TypeOK
  <2> QED  BY <1>0, <2>1, StandingStill
<1>12. ASSUME NEW r \in Conferences, MarkActive(r)
       PROVE  SeatsInv'
  <2>1. /\ \A q \in Conferences : status[q] = "ended" => status'[q] = "ended"
        /\ UNCHANGED <<rooms, peers, roomOf, cleared, ready, stage, heard,
                       held, target, ending>>
    BY <1>12 DEF MarkActive, SeatsInv, TypeOK
  <2> QED  BY <1>0, <2>1, StandingStill
<1>13. ASSUME NEW u \in Users, Revoke(u)
       PROVE  SeatsInv'
  BY <1>0, <1>13, StandingStill DEF Revoke, Closing
<1>14. ASSUME NEW p \in Pairs, RowLeft(p) \/ RowNotLeft(p)
       PROVE  SeatsInv'
  BY <1>0, <1>14, StandingStill DEF RowLeft, RowNotLeft
<1>15. CASE UNCHANGED vars
  BY <1>0, <1>15, StandingStill DEF vars
<1>16. ASSUME NEW s \in Sockets, AbortJoin(s) \/ AbortClosed(s)
       PROVE  SeatsInv'
  BY <1>0, <1>16, UndoKeepsSeats DEF AbortJoin, AbortClosed
<1> QED
  BY <1>0, <1>1, <1>2, <1>3, <1>4, <1>5, <1>7, <1>8, <1>9, <1>10, <1>11,
     <1>12, <1>13, <1>14, <1>15, <1>16, SeatKeepsSeats, RowJoinedKeepsSeats,
     EndRoomKeepsSeats
     DEF Next, SocketStep, JoinStep, ChainStep

(* Seats and rooms agree at all times, whatever joins, leaves, endings,     *)
(* evictions and disconnections interleave.                                 *)
THEOREM RoomsCorrect == Spec => []SeatsInv
<1>1. Init => SeatsInv
  <2> SUFFICES ASSUME Init  PROVE SeatsInv
    OBVIOUS
  <2>1. TypeOK
    BY DEF Init, TypeOK, Statuses, Stages, Answers
  <2>2. \A r \in Conferences : PeersIn(r) = {}
    BY DEF Init, PeersIn
  <2>3. SeatsAgree
    BY <2>2, NoConferenceIsNone DEF Init, SeatsAgree
  <2> QED
    BY <2>1, <2>2, <2>3
       DEF Init, SeatsInv, RoomsAreDistinct, HeldForTarget, GoneSitsNowhere,
           OneSeatPerUser, EndingIsEnded, NoLateSeat, ClearedIsEmpty,
           HeldRoomsStayOpen
<1> QED  BY <1>1, StepsKeepSeats, PTL DEF Spec

(* TypeOK of every reachable state. *)
THEOREM RoomsTypeCorrect == Spec => []TypeOK
<1>1. SeatsInv => TypeOK
  BY DEF SeatsInv
<1> QED  BY <1>1, RoomsCorrect, PTL

(* A socket and the live room agree on whether it is seated. *)
THEOREM SeatsAlwaysAgree == Spec => []SeatsAgree
<1>1. SeatsInv => SeatsAgree
  BY DEF SeatsInv
<1> QED  BY <1>1, RoomsCorrect, PTL

(* A user never has two seats in a conference. *)
THEOREM NeverTwoSeats == Spec => []OneSeatPerUser
<1>1. SeatsInv => OneSeatPerUser
  BY DEF SeatsInv
<1> QED  BY <1>1, RoomsCorrect, PTL

(* A socket that went away while its join awaited is not seated after all.  *)
THEOREM NeverAGhost == Spec => []NoGhostSeats
<1>1. SeatsInv => NoGhostSeats
  <2> SUFFICES ASSUME SeatsInv, NEW k \in Objects, NEW s \in peers[k]
               PROVE  ready[s] # "gone"
    BY DEF NoGhostSeats
  <2>1. PICK r \in Conferences : rooms[r] = k
    BY DEF SeatsInv, SeatsAgree
  <2>2. s \in Sockets /\ s \in PeersIn(r)
    BY <2>1, NoObjectIsNone DEF PeersIn, SeatsInv, TypeOK
  <2>3. roomOf[s] # NoConference
    BY <2>2, NoConferenceIsNone DEF SeatsInv, SeatsAgree
  <2> QED  BY <2>2, <2>3 DEF SeatsInv, GoneSitsNowhere
<1> QED  BY <1>1, RoomsCorrect, PTL

(* A cleared conference stays ended and empty. *)
THEOREM EndedForGood == Spec => []EndedStaysEmpty
<1>1. SeatsInv => EndedStaysEmpty
  BY DEF SeatsInv, EndingIsEnded, ClearedIsEmpty, EndedStaysEmpty
<1> QED  BY <1>1, RoomsCorrect, PTL

(* Only an end takes the room from under a join that holds it. *)
THEOREM HeldRoomsAreSafe == Spec => []HeldRoomsStayOpen
<1>1. SeatsInv => HeldRoomsStayOpen
  BY DEF SeatsInv
<1> QED  BY <1>1, RoomsCorrect, PTL

-----------------------------------------------------------------------------
(* Sockets implement membership. *)
Members == [r \in Conferences |-> PeersIn(r)]

MemberStep == [Membership!MembershipNext]_(Membership!membershipVars)

LEMMA NothingSeen ==
    ASSUME UNCHANGED <<ready, cleared>>,
           \A r \in Conferences : PeersIn(r)' = PeersIn(r)
    PROVE  MemberStep
BY DEF MemberStep, Membership!membershipVars

LEMMA RoomsUntouched ==
    ASSUME UNCHANGED <<ready, cleared, rooms, peers>>
    PROVE  MemberStep
<1>1. \A r \in Conferences : PeersIn(r)' = PeersIn(r)
  BY DEF PeersIn
<1> QED  BY <1>1, NothingSeen

(* Sockets that start to close are seated for as long as they are closing.  *)
LEMMA ClosingIsBreak ==
    ASSUME NEW ss \in SUBSET Sockets, ready' = Closing(ss),
           UNCHANGED <<cleared, rooms, peers>>
    PROVE  MemberStep
<1>1. \A r \in Conferences : PeersIn(r)' = PeersIn(r)
  BY DEF PeersIn
<1>2. Membership!Break(ss)
  BY <1>1 DEF Membership!Break, Membership!Shut, Closing
<1> QED  BY <1>2 DEF MemberStep, Membership!MembershipNext

(* A socket that departs leaves the room it sits in, if any, of itself.     *)
LEMMA DepartIsExit ==
    ASSUME SeatsInv, TypeOK', NEW s \in Sockets, Depart(s), cleared' = cleared,
           ready[s] # "gone", ready' = ready
    PROVE  MemberStep
<1>1. \A r \in Conferences : PeersIn(r)' = PeersIn(r) \ {s}
  BY DepartSeats
<1>2. Membership!Exit(s)
  BY <1>1 DEF Membership!Exit, Membership!WithoutIt
<1> QED  BY <1>2 DEF MemberStep, Membership!MembershipNext

LEMMA DisconnectIsGoAway ==
    ASSUME SeatsInv, TypeOK', NEW s \in Sockets, Disconnect(s)
    PROVE  MemberStep
<1>1. \A r \in Conferences : PeersIn(r)' = PeersIn(r) \ {s}
  BY DepartSeats DEF Disconnect
<1>2. Membership!GoAway(s)
  BY <1>1 DEF Disconnect, Membership!GoAway, Membership!WithoutIt
<1> QED  BY <1>2 DEF MemberStep, Membership!MembershipNext

(* Taking a seat is coming in, and over from the user's other socket.       *)
LEMMA SeatIsEntry ==
    ASSUME SeatsInv, TypeOK', NEW s \in Sockets, Seat(s)
    PROVE  MemberStep
<1>0. PICK r \in Conferences \ cleared : r = target[s]
  BY SeatKeepsSeats
<1>1. \A q \in Conferences :
          PeersIn(q)' = IF q = r THEN (PeersIn(q) \ Evicted(s)) \cup {s}
                                 ELSE PeersIn(q)
  BY <1>0, SeatKeepsSeats
<1>2. Evicted(s) = {t \in PeersIn(r) : UserOf[t] = UserOf[s]} \ {s}
  <2>1. held[s] = rooms[r] /\ held[s] # NoObject
    BY <1>0 DEF Seat, Seatable, IsLive, SeatsInv, TypeOK
  <2> QED  BY <2>1 DEF Evicted, PeersIn
<1>3. \A q \in Conferences : s \notin PeersIn(q)
  <2>1. roomOf[s] = NoConference
    BY DEF Seat, SeatsInv, TypeOK
  <2> QED  BY <2>1, NoConferenceIsNone DEF SeatsInv, SeatsAgree
<1>4. ready[s] = "open" /\ ready' = Closing(Evicted(s)) /\ cleared' = cleared
  BY DEF Seat, Seatable
<1>5. Members' = [Members EXCEPT ![r] = (@ \ Evicted(s)) \cup {s}]
  BY <1>1 DEF Members
<1>6. Membership!Elsewhere(s, r) = Evicted(s)
  BY <1>2 DEF Membership!Elsewhere
<1>7. Membership!Enter(s, r)
  BY <1>0, <1>3, <1>4, <1>5, <1>6
     DEF Membership!Enter, Membership!Shut, Closing, Members
<1> QED  BY <1>7 DEF MemberStep, Membership!MembershipNext

(* Clearing a conference takes everyone at once. *)
LEMMA EndRoomIsClear ==
    ASSUME SeatsInv, TypeOK', NEW r \in Conferences, EndRoom(r)
    PROVE  MemberStep
<1>1. \A q \in Conferences : PeersIn(q)' = IF q = r THEN {} ELSE PeersIn(q)
  BY EndRoomKeepsSeats
<1>2. Members' = [Members EXCEPT ![r] = {}]
  BY <1>1 DEF Members
<1>3. Membership!Clear(r)
  BY <1>2 DEF EndRoom, Membership!Clear, Membership!Shut, Closing, Members
<1> QED  BY <1>3 DEF MemberStep, Membership!MembershipNext

(* Whatever sockets, joins and owners do, people see one another come in    *)
(* on an open connection, be there on a newer one without having been away, *)
(* leave of themselves, or all go at the meeting's end.                     *)
THEOREM RoomsImplementMembership == Spec => KeepsMembership
<1>1. Init => Membership!MembershipInit
  BY DEF Init, PeersIn, Membership!MembershipInit
<1>2. ASSUME SeatsInv, [Next]_vars
      PROVE  MemberStep
  <2>0. TypeOK'
    BY <1>2, RoomsTyping DEF SeatsInv
  <2>1. ASSUME NEW s \in Sockets, SocketStep(s)
        PROVE  MemberStep
    <3>1. CASE CloseSocket(s)
      BY <3>1, ClosingIsBreak DEF CloseSocket
    <3>2. CASE Disconnect(s)
      BY <1>2, <2>0, <3>2, DisconnectIsGoAway
    <3>3. CASE Leave(s) \/ \E r \in Conferences : Join(s, r)
      <4>1. Depart(s) /\ UNCHANGED <<cleared, ready>> /\ ready[s] # "gone"
        BY <3>3 DEF Join, Leave
      <4> QED  BY <1>2, <2>0, <4>1, DepartIsExit
    <3> QED  BY <2>1, <3>1, <3>2, <3>3 DEF SocketStep
  <2>2. ASSUME NEW s \in Sockets, JoinStep(s)
        PROVE  MemberStep
    <3>1. CASE ReadStatus(s) \/ RefuseEarly(s) \/ AskForRow(s) \/ FindRoomClosed(s)
      BY <3>1, RoomsUntouched DEF ReadStatus, RefuseEarly, Refuse, AskForRow, FindRoomClosed
    <3>2. CASE Seat(s)
      BY <1>2, <2>0, <3>2, SeatIsEntry
    <3>3. CASE AbortJoin(s) \/ AbortClosed(s)
      <4>1. Undo(s) /\ stage[s] \in {"after", "closed"}
        BY <3>3 DEF AbortJoin, AbortClosed
      <4>2. UNCHANGED <<ready, cleared>>
        BY <4>1 DEF Undo
      <4> QED  BY <1>2, <2>0, <4>1, <4>2, UndoKeepsSeats, NothingSeen
    <3> QED  BY <2>2, <3>1, <3>2, <3>3 DEF JoinStep
  <2>3. ASSUME NEW p \in Pairs, ChainStep(p)
        PROVE  MemberStep
    <3>1. ASSUME NEW s \in Sockets, RowJoined(s)
          PROVE  MemberStep
      <4>1. UNCHANGED <<ready, cleared>>
        BY <3>1 DEF RowJoined
      <4> QED  BY <1>2, <2>0, <3>1, <4>1, RowJoinedKeepsSeats, NothingSeen
    <3>2. ASSUME NEW s \in Sockets, RowNotJoined(s)
          PROVE  MemberStep
      BY <3>2, RoomsUntouched DEF RowNotJoined, Refuse
    <3>3. CASE RowLeft(p) \/ RowNotLeft(p)
      BY <3>3, RoomsUntouched DEF RowLeft, RowNotLeft
    <3> QED  BY <2>3, <3>1, <3>2, <3>3 DEF ChainStep
  <2>4. ASSUME NEW r \in Conferences, EndConference(r) \/ MarkActive(r)
        PROVE  MemberStep
    BY <2>4, RoomsUntouched DEF EndConference, MarkActive
  <2>5. ASSUME NEW u \in Users, Revoke(u)
        PROVE  MemberStep
    BY <2>5, ClosingIsBreak DEF Revoke
  <2>6. CASE UNCHANGED vars
    BY <2>6, RoomsUntouched DEF vars
  <2> QED
    BY <1>2, <2>0, <2>1, <2>2, <2>3, <2>4, <2>5, <2>6, EndRoomIsClear DEF Next
<1> QED
  BY <1>1, <1>2, RoomsCorrect, PTL
     DEF MemberStep, Spec, KeepsMembership, Membership!MembershipSpec

-----------------------------------------------------------------------------
(* The rows that outlive their seats.  A chain is written first to last:    *)
(* running a write shifts the others up, and asking for one puts it last.   *)
LEMMA ChainsShift ==
    ASSUME TypeOK, NEW p \in Pairs, NEW i \in InOrder(p)
    PROVE  /\ i = 1 /\ Len(chain[p]) \in Nat \ {0}
           /\ \A q \in Pairs : q # p => Dequeue(p, i)[q] = chain[q]
           /\ Dequeue(p, i)[p] \in Seq(Writes)
           /\ Len(Dequeue(p, i)[p]) = Len(chain[p]) - 1
           /\ \A j \in 1 .. Len(chain[p]) - 1 :
                  Dequeue(p, i)[p][j] = chain[p][j + 1]
<1> DEFINE c == chain[p]
<1>1. c \in Seq(Writes) /\ chain \in [Pairs -> Seq(Writes)]
  BY DEF TypeOK
<1>2. i = 1 /\ c # <<>> /\ Len(c) \in Nat \ {0}
  BY <1>1, LenProperties DEF InOrder
<1>3. Dequeue(p, i)[p] = RemoveAt(c, 1) /\ \A q \in Pairs : q # p => Dequeue(p, i)[q] = chain[q]
  BY <1>1, <1>2 DEF Dequeue
<1>4. RemoveAt(c, 1) = Tail(c)
  <2>1. SubSeq(c, 1, 0) = <<>>
    BY SubSeqEmpty
  <2>2. SubSeq(c, 2, Len(c)) = Tail(c) /\ Tail(c) \in Seq(Writes)
    BY <1>1, <1>2, TailIsSubSeq, HeadTailProperties
  <2>3. RemoveAt(c, 1) = SubSeq(c, 1, 0) \o SubSeq(c, 2, Len(c))
    BY DEF RemoveAt
  <2> QED  BY <2>1, <2>2, <2>3, ConcatEmptySeq
<1>5. /\ Tail(c) \in Seq(Writes) /\ Len(Tail(c)) = Len(c) - 1
      /\ \A j \in 1 .. Len(Tail(c)) : Tail(c)[j] = c[j + 1]
  BY <1>1, <1>2, HeadTailProperties
<1> QED  BY <1>2, <1>3, <1>4, <1>5

LEMMA ChainsGrow ==
    ASSUME TypeOK, NEW p \in Pairs, NEW w \in Writes
    PROVE  /\ \A q \in Pairs : q # p => Queue(p, w)[q] = chain[q]
           /\ Len(Queue(p, w)[p]) = Len(chain[p]) + 1
           /\ Queue(p, w)[p][Len(chain[p]) + 1] = w
           /\ \A j \in 1 .. Len(chain[p]) : Queue(p, w)[p][j] = chain[p][j]
           /\ Len(chain[p]) \in Nat
<1>1. chain[p] \in Seq(Writes) /\ chain \in [Pairs -> Seq(Writes)]
  BY DEF TypeOK
<1>2. Queue(p, w)[p] = Append(chain[p], w)
  BY <1>1 DEF Queue
<1> QED  BY <1>1, <1>2 DEF Queue

(* A leave waits to be written. *)
LeaveIn(c, p) == \E i \in 1 .. Len(c[p]) : c[p][i] = WriteLeave

(* It waits until it runs. *)
LEMMA LeavesWait ==
    ASSUME TypeOK, NEW p \in Pairs, NEW q \in Pairs
    PROVE  /\ LeaveIn(Queue(p, WriteLeave), p)
           /\ \A w \in Writes : LeaveIn(chain, q) => LeaveIn(Queue(p, w), q)
           /\ \A i \in InOrder(p) :
                 LeaveIn(chain, q) /\ (p = q => chain[p][i] # WriteLeave)
                    => LeaveIn(Dequeue(p, i), q)
<1>1. LeaveIn(Queue(p, WriteLeave), p)
  <2>1. /\ Len(Queue(p, WriteLeave)[p]) = Len(chain[p]) + 1
        /\ Queue(p, WriteLeave)[p][Len(chain[p]) + 1] = WriteLeave
        /\ Len(chain[p]) + 1 \in 1 .. Len(chain[p]) + 1
    BY ChainsGrow, WritesTyping
  <2> QED  BY <2>1 DEF LeaveIn
<1>2. ASSUME NEW w \in Writes, LeaveIn(chain, q)
      PROVE  LeaveIn(Queue(p, w), q)
  <2>1. CASE p # q
    BY <1>2, <2>1, ChainsGrow DEF LeaveIn
  <2>2. CASE p = q
    <3>1. PICK i \in 1 .. Len(chain[p]) : chain[p][i] = WriteLeave
      BY <1>2, <2>2 DEF LeaveIn
    <3>2. Queue(p, w)[p][i] = WriteLeave /\ i \in 1 .. Len(Queue(p, w)[p])
      BY <3>1, ChainsGrow
    <3> QED  BY <2>2, <3>2 DEF LeaveIn
  <2> QED  BY <2>1, <2>2
<1>3. ASSUME NEW i \in InOrder(p), LeaveIn(chain, q), p = q => chain[p][i] # WriteLeave
      PROVE  LeaveIn(Dequeue(p, i), q)
  <2>1. CASE p # q
    BY <1>3, <2>1, ChainsShift DEF LeaveIn
  <2>2. CASE p = q
    <3>1. PICK j \in 1 .. Len(chain[p]) : chain[p][j] = WriteLeave
      BY <1>3, <2>2 DEF LeaveIn
    <3>2. i = 1 /\ Len(chain[p]) \in Nat
      BY ChainsShift
    <3>3. j - 1 \in 1 .. Len(chain[p]) - 1 /\ (j - 1) + 1 = j
      BY <1>3, <2>2, <3>1, <3>2
    <3>4. Dequeue(p, i)[p][j - 1] = WriteLeave /\ j - 1 \in 1 .. Len(Dequeue(p, i)[p])
      BY <3>1, <3>3, ChainsShift
    <3> QED  BY <2>2, <3>4 DEF LeaveIn
  <2> QED  BY <2>1, <2>2
<1> QED  BY <1>1, <1>2, <1>3

(* Why a row may say joined: its user sits there, or a join of the user has *)
(* not found out yet, or a leave waits to be written or was lost.           *)
Recorded(r, u) ==
    \/ HasSeat(r, u)
    \/ \E s \in Sockets : UserOf[s] = u /\ target[s] = r /\ held[s] # NoObject
    \/ LeaveIn(chain, <<r, u>>)
    \/ <<r, u>> \in lost

RowsInv ==
    \A r \in Conferences, u \in Users :
        row[<<r, u>>] = "joined" => Recorded(r, u)

(* A step that lets go of no seat and no room. *)
LEMMA RecordedStays ==
    ASSUME NEW r \in Conferences, NEW u \in Users, Recorded(r, u),
           HasSeat(r, u) => HasSeat(r, u)' \/ LeaveIn(chain', <<r, u>>),
           LeaveIn(chain, <<r, u>>) => LeaveIn(chain', <<r, u>>),
           \A s \in Sockets :
               held[s] # NoObject => held'[s] = held[s] /\ target'[s] = target[s],
           lost \subseteq lost'
    PROVE  Recorded(r, u)'
BY DEF Recorded, LeaveIn

(* Leaving takes a seat and asks for the leave at once. *)
LEMMA DepartKeepsRows ==
    ASSUME SeatsInv, TypeOK', RowsInv, NEW s \in Sockets, Depart(s),
           UNCHANGED <<held, row, lost>>,
           \A t \in Sockets : held[t] # NoObject => target'[t] = target[t]
    PROVE  RowsInv'
<1> SUFFICES ASSUME NEW r \in Conferences, NEW u \in Users, row[<<r, u>>] = "joined"
             PROVE  Recorded(r, u)'
  BY DEF RowsInv
<1> DEFINE p == <<r, u>>
<1>1. Recorded(r, u) /\ p \in Pairs
  BY DEF RowsInv, Pairs
<1>2. HasSeat(r, u) => HasSeat(r, u)' \/ LeaveIn(chain', p)
  <2> SUFFICES ASSUME NEW t \in PeersIn(r), UserOf[t] = u
               PROVE  HasSeat(r, u)' \/ LeaveIn(chain', p)
    BY DEF HasSeat
  <2>1. PeersIn(r)' = PeersIn(r) \ {s}
    BY DepartSeats
  <2>2. CASE t # s
    BY <2>1, <2>2 DEF HasSeat
  <2>3. CASE t = s
    <3>1. roomOf[s] = r
      BY <2>3 DEF SeatsInv, SeatsAgree
    <3>2. chain' = Queue(p, WriteLeave)
      BY <2>3, <3>1, NoConferenceIsNone DEF Depart, Pair
    <3> QED  BY <1>1, <3>2, LeavesWait DEF SeatsInv
  <2> QED  BY <2>2, <2>3
<1>3. LeaveIn(chain, p) => LeaveIn(chain', p)
  <2>1. CASE chain' = chain
    BY <2>1
  <2>2. CASE roomOf[s] # NoConference
    <3>1. roomOf[s] \in Conferences
      BY <2>2 DEF SeatsInv, TypeOK
    <3>2. Pair(s, roomOf[s]) \in Pairs
      BY <3>1, UsersOfSockets DEF Pair, Pairs
    <3>3. chain' = Queue(Pair(s, roomOf[s]), WriteLeave)
      BY <2>2 DEF Depart
    <3> QED  BY <1>1, <3>2, <3>3, LeavesWait, WritesTyping DEF SeatsInv
  <2> QED  BY <2>1, <2>2 DEF Depart
<1> QED  BY <1>1, <1>2, <1>3, RecordedStays

(* Steps that leave seats and held rooms alone and rows as they are.        *)
LEMMA WaitingKeepsRows ==
    ASSUME SeatsInv, RowsInv, UNCHANGED <<rooms, peers, held, row, lost>>,
           \A t \in Sockets : held[t] # NoObject => target'[t] = target[t],
           \A p \in Pairs : LeaveIn(chain, p) => LeaveIn(chain', p)
    PROVE  RowsInv'
<1> SUFFICES ASSUME NEW r \in Conferences, NEW u \in Users, row[<<r, u>>] = "joined"
             PROVE  Recorded(r, u)'
  BY DEF RowsInv
<1>1. Recorded(r, u) /\ <<r, u>> \in Pairs
  BY DEF RowsInv, Pairs
<1>2. HasSeat(r, u)' <=> HasSeat(r, u)
  BY DEF HasSeat, PeersIn
<1> QED  BY <1>1, <1>2, RecordedStays

(* A seat is the join's room found again, and an eviction is for a seat.    *)
LEMMA SeatKeepsRows ==
    ASSUME SeatsInv, TypeOK', RowsInv, NEW s \in Sockets, Seat(s)
    PROVE  RowsInv'
<1> SUFFICES ASSUME NEW r \in Conferences, NEW u \in Users, row[<<r, u>>] = "joined"
             PROVE  Recorded(r, u)'
  BY DEF RowsInv, Seat
<1>1. Recorded(r, u)
  BY DEF RowsInv
<1>2. /\ UNCHANGED <<chain, lost>> /\ held' = [held EXCEPT ![s] = NoObject]
      /\ target' = [target EXCEPT ![s] = NoConference]
      /\ \A t \in Sockets : t # s => held'[t] = held[t] /\ target'[t] = target[t]
  BY DEF Seat, SeatsInv, TypeOK
<1>3. PeersIn(r)' = IF r = target[s] THEN (PeersIn(r) \ Evicted(s)) \cup {s}
                                     ELSE PeersIn(r)
  BY SeatKeepsSeats
<1>4. r = target[s] /\ u = UserOf[s] => HasSeat(r, u)'
  BY <1>3 DEF HasSeat
<1>5. HasSeat(r, u) => HasSeat(r, u)'
  BY <1>3, <1>4 DEF HasSeat, Evicted
<1> QED  BY <1>1, <1>2, <1>4, <1>5 DEF Recorded, LeaveIn

(* An abandoned join asks for the leave unless its user sits there.         *)
LEMMA UndoKeepsRows ==
    ASSUME SeatsInv, TypeOK', RowsInv, NEW s \in Sockets, Undo(s),
           stage[s] \in {"after", "closed"}
    PROVE  RowsInv'
<1> SUFFICES ASSUME NEW r \in Conferences, NEW u \in Users, row[<<r, u>>] = "joined"
             PROVE  Recorded(r, u)'
  BY DEF RowsInv, Undo
<1>1. Recorded(r, u) /\ <<r, u>> \in Pairs
  BY DEF RowsInv, Pairs
<1>2. /\ lost' = lost
      /\ \A t \in Sockets : t # s => held'[t] = held[t] /\ target'[t] = target[t]
  BY DEF Undo, SeatsInv, TypeOK
<1>3. HasSeat(r, u)' <=> HasSeat(r, u)
  BY UndoKeepsSeats DEF HasSeat
<1>4. target[s] \in Conferences
  <2>1. target[s] # NoConference
    BY DEF SeatsInv, TypeOK
  <2> QED  BY <2>1 DEF SeatsInv, TypeOK
<1>5. Pair(s, target[s]) \in Pairs
  BY <1>4, UsersOfSockets DEF Pair, Pairs
<1>6. chain' = IF HasSeat(target[s], UserOf[s]) THEN chain
               ELSE Queue(Pair(s, target[s]), WriteLeave)
  BY DEF Undo
<1>7. LeaveIn(chain, <<r, u>>) => LeaveIn(chain', <<r, u>>)
  BY <1>1, <1>5, <1>6, LeavesWait, WritesTyping DEF SeatsInv
<1>8. target[s] = r /\ UserOf[s] = u => HasSeat(r, u) \/ LeaveIn(chain', <<r, u>>)
  BY <1>5, <1>6, LeavesWait DEF SeatsInv, Pair
<1> QED  BY <1>1, <1>2, <1>3, <1>7, <1>8 DEF Recorded, LeaveIn

(* The owner's end asks for the leave of everyone it put out.               *)
LEMMA EndRoomKeepsRows ==
    ASSUME SeatsInv, TypeOK', RowsInv, NEW q \in Conferences, EndRoom(q)
    PROVE  RowsInv'
<1> SUFFICES ASSUME NEW r \in Conferences, NEW u \in Users, row[<<r, u>>] = "joined"
             PROVE  Recorded(r, u)'
  BY DEF RowsInv, EndRoom
<1> DEFINE p == <<r, u>>
<1>1. Recorded(r, u) /\ p \in Pairs
  BY DEF RowsInv, Pairs
<1>2. UNCHANGED <<held, target, lost>>
  BY DEF EndRoom
<1>3. PeersIn(r)' = IF r = q THEN {} ELSE PeersIn(r)
  BY EndRoomKeepsSeats
<1>4. chain'[p] = IF p \in {Pair(s, q) : s \in PeersIn(q)}
                  THEN Append(chain[p], WriteLeave) ELSE chain[p]
  BY <1>1 DEF EndRoom
<1>5. Queue(p, WriteLeave)[p] = Append(chain[p], WriteLeave)
  BY <1>1 DEF Queue, SeatsInv, TypeOK
<1>6. LeaveIn(chain, p) => LeaveIn(chain', p)
  BY <1>1, <1>4, <1>5, LeavesWait, WritesTyping DEF LeaveIn, SeatsInv
<1>7. HasSeat(r, u) => HasSeat(r, u)' \/ LeaveIn(chain', p)
  <2> SUFFICES ASSUME NEW t \in PeersIn(r), UserOf[t] = u, r = q
               PROVE  LeaveIn(chain', p)
    BY <1>3 DEF HasSeat
  <2>1. p = Pair(t, q) /\ t \in PeersIn(q)
    BY DEF Pair
  <2>2. chain'[p] = Queue(p, WriteLeave)[p]
    BY <1>4, <1>5, <2>1
  <2>3. LeaveIn(Queue(p, WriteLeave), p)
    BY <1>1, LeavesWait DEF SeatsInv
  <2> QED  BY <2>2, <2>3 DEF LeaveIn
<1> QED  BY <1>1, <1>2, <1>6, <1>7, RecordedStays

(* A row that was written is followed by the join it is for, and a leave    *)
(* that ran left the row.                                                   *)
LEMMA WritesKeepRows ==
    ASSUME SeatsInv, TypeOK', RowsInv, NEW q \in Pairs, ChainStep(q)
    PROVE  RowsInv'
<1> SUFFICES ASSUME NEW r \in Conferences, NEW u \in Users, row'[<<r, u>>] = "joined"
             PROVE  Recorded(r, u)'
  BY DEF RowsInv
<1> DEFINE p == <<r, u>>
<1>0. p \in Pairs /\ row \in [Pairs -> {"none", "joined", "left"}]
  BY DEF Pairs, SeatsInv, TypeOK
<1>1. row[p] = "joined" => Recorded(r, u)
  BY DEF RowsInv
<1>2. ASSUME NEW s \in Sockets, Pair(s, target[s]) = q, RowJoined(s)
      PROVE  Recorded(r, u)'
  <2>1. /\ held[s] = NoObject /\ held'[s] # NoObject /\ UNCHANGED <<target, lost>>
        /\ \A t \in Sockets : t # s => held'[t] = held[t]
    <3>1. PICK k \in Objects : held' = [held EXCEPT ![s] = k]
      BY <1>2 DEF RowJoined
    <3>2. k # NoObject /\ stage[s] = "recording" /\ UNCHANGED <<target, lost>>
      BY <1>2, NoObjectIsNone DEF RowJoined
    <3>3. held[s] = NoObject /\ held \in [Sockets -> Objects \cup {NoObject}]
      BY <3>2 DEF SeatsInv, TypeOK
    <3> QED  BY <3>1, <3>2, <3>3
  <2>2. CASE p = q
    <3>1. target[s] = r /\ UserOf[s] = u
      BY <1>2, <2>2 DEF Pair
    <3> QED  BY <2>1, <3>1 DEF Recorded
  <2>3. CASE p # q
    <3>1. row'[p] = row[p]
      BY <1>0, <1>2, <2>3 DEF RowJoined
    <3>2. HasSeat(r, u)' <=> HasSeat(r, u)
      BY <1>2, RowJoinedKeepsSeats DEF HasSeat
    <3>3. PICK i \in InOrder(q) : chain[q][i] = WriteJoin(s) /\ chain' = Dequeue(q, i)
      BY <1>2 DEF RowJoined
    <3>4. LeaveIn(chain, p) => LeaveIn(chain', p)
      BY <1>0, <2>3, <3>3, LeavesWait DEF SeatsInv
    <3> QED  BY <1>1, <2>1, <3>1, <3>2, <3>4, RecordedStays
  <2> QED  BY <2>2, <2>3
<1>3. ASSUME NEW s \in Sockets, Pair(s, target[s]) = q, RowNotJoined(s)
      PROVE  Recorded(r, u)'
  <2>1. /\ held[s] = NoObject /\ UNCHANGED <<held, rooms, peers, row, lost>>
        /\ \A t \in Sockets : t # s => target'[t] = target[t]
    BY <1>3 DEF RowNotJoined, Refuse, SeatsInv, TypeOK
  <2>2. PICK i \in InOrder(q) : chain[q][i] = WriteJoin(s) /\ chain' = Dequeue(q, i)
    BY <1>3 DEF RowNotJoined
  <2>3. WriteJoin(s) # WriteLeave
    BY DEF WriteJoin, WriteLeave
  <2>4. \A o \in Pairs : LeaveIn(chain, o) => LeaveIn(chain', o)
    BY <2>2, <2>3, LeavesWait DEF SeatsInv
  <2>5. RowsInv'
    BY <2>1, <2>4, WaitingKeepsRows
  <2> QED  BY <2>5 DEF RowsInv
<1>4. CASE RowLeft(q) \/ RowNotLeft(q)
  <2>1. /\ UNCHANGED <<held, target, rooms, peers>> /\ lost \subseteq lost'
    BY <1>4 DEF RowLeft, RowNotLeft
  <2>2. PICK i \in InOrder(q) : chain[q][i] = WriteLeave /\ chain' = Dequeue(q, i)
    BY <1>4 DEF RowLeft, RowNotLeft
  <2>3. HasSeat(r, u)' <=> HasSeat(r, u)
    BY <2>1 DEF HasSeat, PeersIn
  <2>4. CASE p # q
    <3>1. row'[p] = row[p]
      BY <1>0, <1>4, <2>4 DEF RowLeft, RowNotLeft
    <3>2. LeaveIn(chain, p) => LeaveIn(chain', p)
      BY <1>0, <2>2, <2>4, LeavesWait DEF SeatsInv
    <3> QED  BY <1>1, <2>1, <2>3, <3>1, <3>2, RecordedStays
  <2>5. CASE p = q /\ RowNotLeft(q)
    BY <2>5 DEF RowNotLeft, Recorded
  <2>6. CASE p = q /\ RowLeft(q)
    <3>1. row'[p] # "joined"
      BY <1>0, <2>6 DEF RowLeft
    <3> QED  BY <3>1
  <2> QED  BY <1>4, <2>4, <2>5, <2>6
<1> QED  BY <1>2, <1>3, <1>4 DEF ChainStep

(* Every row that says joined keeps its reason. *)
LEMMA StepsKeepRows ==
    ASSUME SeatsInv, RowsInv, [Next]_vars
    PROVE  RowsInv'
<1>0. TypeOK'
  BY RoomsTyping DEF SeatsInv
<1>1. ASSUME NEW s \in Sockets, SocketStep(s)
      PROVE  RowsInv'
  <2>1. CASE CloseSocket(s)
    BY <2>1, WaitingKeepsRows DEF CloseSocket
  <2>2. CASE ~CloseSocket(s)
    <3>1. /\ Depart(s) /\ UNCHANGED <<held, row, lost>>
          /\ \A t \in Sockets : held[t] # NoObject => target'[t] = target[t]
      BY ZenonT(40), <1>1, <2>2 DEF SocketStep, Join, Leave, Disconnect, SeatsInv, TypeOK
    <3> QED  BY <1>0, <3>1, DepartKeepsRows
  <2> QED  BY <2>1, <2>2
<1>2. ASSUME NEW s \in Sockets, JoinStep(s)
      PROVE  RowsInv'
  <2>1. CASE ReadStatus(s) \/ FindRoomClosed(s)
    BY <2>1, WaitingKeepsRows DEF ReadStatus, FindRoomClosed
  <2>2. CASE RefuseEarly(s)
    <3>1. held[s] = NoObject
      BY <2>2 DEF RefuseEarly, SeatsInv, TypeOK
    <3> QED  BY <2>2, <3>1, WaitingKeepsRows DEF RefuseEarly, Refuse, SeatsInv, TypeOK
  <2>3. CASE AskForRow(s)
    <3>1. target[s] # NoConference
      BY <2>3 DEF AskForRow, SeatsInv, TypeOK
    <3>2. target[s] \in Conferences
      BY <3>1 DEF SeatsInv, TypeOK
    <3>3. Pair(s, target[s]) \in Pairs
      BY <3>2, UsersOfSockets DEF Pair, Pairs
    <3>4. chain' = Queue(Pair(s, target[s]), WriteJoin(s))
      BY <2>3 DEF AskForRow
    <3>5. \A p \in Pairs : LeaveIn(chain, p) => LeaveIn(chain', p)
      BY <3>3, <3>4, LeavesWait, WritesTyping DEF SeatsInv
    <3> QED  BY <2>3, <3>5, WaitingKeepsRows DEF AskForRow
  <2>4. CASE AbortJoin(s) \/ AbortClosed(s)
    BY <1>0, <2>4, UndoKeepsRows DEF AbortJoin, AbortClosed
  <2> QED  BY <1>0, <1>2, <2>1, <2>2, <2>3, <2>4, SeatKeepsRows DEF JoinStep
<1>3. ASSUME NEW r \in Conferences, EndConference(r) \/ MarkActive(r)
      PROVE  RowsInv'
  BY <1>3, WaitingKeepsRows DEF EndConference, MarkActive
<1>4. ASSUME NEW u \in Users, Revoke(u)
      PROVE  RowsInv'
  BY <1>4, WaitingKeepsRows DEF Revoke
<1>5. CASE UNCHANGED vars
  BY <1>5, WaitingKeepsRows DEF vars
<1> QED  BY <1>0, <1>1, <1>2, <1>3, <1>4, <1>5, WritesKeepRows, EndRoomKeepsRows DEF Next

(* Once nothing is in flight, a row that says joined is somebody's seat or  *)
(* a leave that was lost: no abandoned join keeps a meeting running.        *)
THEOREM LeftByAllIsAlwaysOver == Spec => []LeftByAllIsOver
<1>1. Init => RowsInv
  BY DEF Init, RowsInv, Pairs
<1>2. SeatsInv /\ RowsInv => LeftByAllIsOver
  <2> SUFFICES ASSUME SeatsInv, RowsInv, NEW r \in Conferences, Settled(r),
                      PeersIn(r) = {}, NEW u \in Users, row[<<r, u>>] = "joined"
               PROVE  <<r, u>> \in lost
    BY DEF LeftByAllIsOver
  <2>1. ~HasSeat(r, u)
    BY DEF HasSeat
  <2>2. ~LeaveIn(chain, <<r, u>>)
    BY DEF Settled, LeaveIn
  <2> QED  BY <2>1, <2>2 DEF RowsInv, Recorded, Settled
<1> QED  BY <1>1, <1>2, StepsKeepRows, RoomsCorrect, PTL DEF Spec

-----------------------------------------------------------------------------
(* NotOverWhileOccupied is false as it stands: the leave of a user's older  *)
(* socket may be written after the join of a newer one.  It holds of users  *)
(* with one connection, whose writes are all asked for by one socket.       *)
OnlySocket(s) == \A b \in Sockets : UserOf[b] = UserOf[s] => b = s

OnlyLeaves(c, p) == \A i \in 1 .. Len(c[p]) : c[p][i] = WriteLeave

JoinIsLast(c, p, s) ==
    /\ Len(c[p]) # 0
    /\ c[p][Len(c[p])] = WriteJoin(s)
    /\ \A i \in 1 .. Len(c[p]) - 1 : c[p][i] = WriteLeave

(* A seat, and a join about to take one, is recorded with nothing left to   *)
(* write; until then the join to be written is the last of the chain.       *)
KeptFor(s, r) ==
    LET p == Pair(s, r)
    IN  /\ s \in PeersIn(r) \/ (target[s] = r /\ held[s] # NoObject)
           => row[p] = "joined" /\ Len(chain[p]) = 0
        /\ target[s] = r /\ stage[s] = "recording" => JoinIsLast(chain, p, s)
        /\ ~(target[s] = r /\ stage[s] = "recording") => OnlyLeaves(chain, p)

OnlySocketsInv ==
    \A s \in Sockets, r \in Conferences : OnlySocket(s) => KeptFor(s, r)

LEMMA LeavesKeepTheLast ==
    ASSUME TypeOK, NEW p \in Pairs, NEW s \in Sockets
    PROVE  /\ OnlyLeaves(chain, p) => OnlyLeaves(Queue(p, WriteLeave), p)
           /\ OnlyLeaves(chain, p) => JoinIsLast(Queue(p, WriteJoin(s)), p, s)
           /\ \A i \in InOrder(p) :
                 /\ OnlyLeaves(chain, p) => OnlyLeaves(Dequeue(p, i), p)
                 /\ JoinIsLast(chain, p, s) /\ chain[p][i] = WriteLeave
                      => JoinIsLast(Dequeue(p, i), p, s)
                 /\ JoinIsLast(chain, p, s) /\ chain[p][i] # WriteLeave
                      => Len(Dequeue(p, i)[p]) = 0
<1> DEFINE n == Len(chain[p])
<1>0. n \in Nat
  BY ChainsGrow, WritesTyping
<1>1. OnlyLeaves(chain, p) => OnlyLeaves(Queue(p, WriteLeave), p)
  <2>1. /\ Len(Queue(p, WriteLeave)[p]) = n + 1
        /\ Queue(p, WriteLeave)[p][n + 1] = WriteLeave
        /\ \A j \in 1 .. n : Queue(p, WriteLeave)[p][j] = chain[p][j]
    BY ChainsGrow, WritesTyping
  <2>2. \A j \in 1 .. n + 1 : j \in 1 .. n \/ j = n + 1
    BY <1>0
  <2> QED  BY <2>1, <2>2 DEF OnlyLeaves
<1>2. OnlyLeaves(chain, p) => JoinIsLast(Queue(p, WriteJoin(s)), p, s)
  <2>1. /\ Len(Queue(p, WriteJoin(s))[p]) = n + 1
        /\ Queue(p, WriteJoin(s))[p][n + 1] = WriteJoin(s)
        /\ \A j \in 1 .. n : Queue(p, WriteJoin(s))[p][j] = chain[p][j]
    BY ChainsGrow, WritesTyping
  <2>2. n + 1 # 0 /\ (n + 1) - 1 = n
    BY <1>0
  <2> QED  BY <2>1, <2>2 DEF OnlyLeaves, JoinIsLast
<1>3. ASSUME NEW i \in InOrder(p)
      PROVE  /\ OnlyLeaves(chain, p) => OnlyLeaves(Dequeue(p, i), p)
             /\ JoinIsLast(chain, p, s) /\ chain[p][i] = WriteLeave
                  => JoinIsLast(Dequeue(p, i), p, s)
             /\ JoinIsLast(chain, p, s) /\ chain[p][i] # WriteLeave
                  => Len(Dequeue(p, i)[p]) = 0
  <2> DEFINE d == Dequeue(p, i)
  <2>1. /\ i = 1 /\ n \in Nat \ {0} /\ Len(d[p]) = n - 1
        /\ \A j \in 1 .. n - 1 : d[p][j] = chain[p][j + 1]
    BY ChainsShift
  <2> HIDE DEF d
  <2>2. OnlyLeaves(chain, p) => OnlyLeaves(d, p)
    <3>1. \A j \in 1 .. n - 1 : j + 1 \in 1 .. n
      BY <2>1
    <3> QED  BY <2>1, <3>1 DEF OnlyLeaves
  <2>3. WriteJoin(s) # WriteLeave
    BY DEF WriteJoin, WriteLeave
  <2>4. JoinIsLast(chain, p, s) /\ chain[p][i] = WriteLeave => JoinIsLast(d, p, s)
    <3> SUFFICES ASSUME JoinIsLast(chain, p, s), chain[p][1] = WriteLeave
                 PROVE  JoinIsLast(d, p, s)
      BY <2>1
    <3>1. n # 1
      BY <2>3 DEF JoinIsLast
    <3>2. n - 1 \in 1 .. n - 1 /\ (n - 1) + 1 = n
      <4> HIDE DEF n
      <4> QED  BY <2>1, <3>1
    <3>3. d[p][n - 1] = WriteJoin(s)
      BY <2>1, <3>2 DEF JoinIsLast
    <3>4. \A j \in 1 .. (n - 1) - 1 : j \in 1 .. n - 1 /\ j + 1 \in 1 .. n - 1
      BY <2>1
    <3> QED  BY SMTT(30), <2>1, <3>2, <3>3, <3>4 DEF JoinIsLast
  <2>5. JoinIsLast(chain, p, s) /\ chain[p][i] # WriteLeave => Len(d[p]) = 0
    <3>1. n # 1 => 1 \in 1 .. n - 1
      <4> HIDE DEF n
      <4> QED  BY <2>1
    <3> QED  BY <2>1, <3>1 DEF JoinIsLast
  <2> QED  BY <2>2, <2>4, <2>5 DEF d
<1> QED  BY <1>1, <1>2, <1>3

(* Steps of other users, and of the same socket elsewhere. *)
LEMMA KeptByOthers ==
    ASSUME NEW s \in Sockets, NEW r \in Conferences, KeptFor(s, r),
           row'[Pair(s, r)] = row[Pair(s, r)], chain'[Pair(s, r)] = chain[Pair(s, r)],
           s \in PeersIn(r)' => s \in PeersIn(r),
           \/ UNCHANGED <<target[s], held[s]>> /\ (stage'[s] = "recording" <=> stage[s] = "recording")
           \/ target[s] # r /\ target'[s] # r
           \/ target[s] # r /\ held'[s] = NoObject /\ stage'[s] # "recording"
           \/ target'[s] # r /\ stage[s] # "recording"
    PROVE  KeptFor(s, r)'
BY DEF KeptFor, OnlyLeaves, JoinIsLast, Pair

(* Who asks for the writes of the only socket of a user. *)
LEMMA OnlySocketsOwnChain ==
    ASSUME NEW s \in Sockets, OnlySocket(s), NEW r \in Conferences,
           NEW t \in Sockets, NEW q, Pair(t, q) = Pair(s, r)
    PROVE  t = s /\ q = r
BY DEF Pair, OnlySocket

(* What is so of every socket and every conference. *)
LEMMA SocketFacts ==
    ASSUME SeatsInv, NEW s \in Sockets, NEW r \in Conferences
    PROVE  /\ Pair(s, r) \in Pairs
           /\ s \in PeersIn(r) <=> roomOf[s] = r
           /\ stage[s] # "none" => roomOf[s] = NoConference
           /\ stage[s] # "none" <=> target[s] # NoConference
           /\ target[s] # NoConference => target[s] \in Conferences
           /\ stage[s] \in {"after", "closed"} <=> held[s] # NoObject
           /\ r # NoConference
           /\ chain \in [Pairs -> Seq(Writes)]
           /\ target \in [Sockets -> Conferences \cup {NoConference}]
           /\ held \in [Sockets -> Objects \cup {NoObject}]
           /\ stage \in [Sockets -> Stages]
           /\ row \in [Pairs -> {"none", "joined", "left"}]
BY UsersOfSockets, NoConferenceIsNone DEF SeatsInv, SeatsAgree, TypeOK, Pair, Pairs

(* Leaving a seat puts its leave alone in the chain. *)
LEMMA DepartKeepsOnly ==
    ASSUME SeatsInv, TypeOK', NEW s \in Sockets, OnlySocket(s), NEW r \in Conferences,
           KeptFor(s, r), NEW t \in Sockets, Depart(t), UNCHANGED <<held, row>>,
           \A a \in Sockets : a # t => UNCHANGED <<target[a], stage[a]>>,
           \/ UNCHANGED <<target[t], stage[t]>>
           \/ stage[t] = "none" /\ stage'[t] = "before"
    PROVE  KeptFor(s, r)'
<1> DEFINE p == Pair(s, r)
<1>1. /\ p \in Pairs /\ (s \in PeersIn(r) <=> roomOf[s] = r)
      /\ (stage[s] # "none" => roomOf[s] = NoConference)
      /\ (stage[s] \in {"after", "closed"} <=> held[s] # NoObject)
      /\ (stage[s] # "none" <=> target[s] # NoConference)
      /\ r # NoConference /\ chain \in [Pairs -> Seq(Writes)]
  BY SocketFacts
<1>2. PeersIn(r)' = PeersIn(r) \ {t}
  BY DepartSeats
<1>3. CASE t = s /\ roomOf[s] = r
  <2>1. chain' = Queue(p, WriteLeave)
    BY <1>1, <1>3 DEF Depart
  <2>2. stage[s] = "none" /\ held'[s] = NoObject /\ stage'[s] \in {"none", "before"}
    BY <1>1, <1>3
  <2>3. OnlyLeaves(chain', p)
    BY <1>1, <2>1, <2>2, LeavesKeepTheLast DEF KeptFor, SeatsInv
  <2> QED  BY <1>2, <1>3, <2>2, <2>3 DEF KeptFor, OnlyLeaves, Pair
<1>4. CASE ~(t = s /\ roomOf[s] = r)
  <2>1. chain'[p] = chain[p]
    <3>1. CASE roomOf[t] = NoConference
      BY <3>1 DEF Depart
    <3>2. CASE roomOf[t] # NoConference
      <4>1. Pair(t, roomOf[t]) # p
        BY <1>4, OnlySocketsOwnChain
      <4>2. chain' = Queue(Pair(t, roomOf[t]), WriteLeave)
        BY <3>2 DEF Depart
      <4> QED  BY <1>1, <4>1, <4>2 DEF Queue
    <3> QED  BY <3>1, <3>2
  <2>2. CASE UNCHANGED <<target[s], stage[s]>>
    BY <1>2, <2>1, <2>2, KeptByOthers
  <2>3. CASE stage[s] = "none" /\ stage'[s] = "before"
    <3>1. target[s] # r /\ held'[s] = NoObject
      BY <1>1, <2>3
    <3> QED  BY <1>2, <2>1, <2>3, <3>1, KeptByOthers
  <2> QED  BY <2>2, <2>3
<1> QED  BY <1>3, <1>4

(* The writes of a chain, run in order. *)
LEMMA WritesKeepOnly ==
    ASSUME SeatsInv, TypeOK', NEW s \in Sockets, OnlySocket(s), NEW r \in Conferences,
           KeptFor(s, r), NEW q \in Pairs, ChainStep(q)
    PROVE  KeptFor(s, r)'
<1> DEFINE p == Pair(s, r)
<1>1. /\ p \in Pairs /\ (stage[s] \in {"after", "closed"} <=> held[s] # NoObject)
      /\ chain \in [Pairs -> Seq(Writes)]
      /\ target \in [Sockets -> Conferences \cup {NoConference}]
      /\ held \in [Sockets -> Objects \cup {NoObject}]
      /\ stage \in [Sockets -> Stages]
      /\ row \in [Pairs -> {"none", "joined", "left"}] /\ r # NoConference
      /\ (stage[s] # "none" => roomOf[s] = NoConference)
      /\ (s \in PeersIn(r) <=> roomOf[s] = r)
  BY SocketFacts
<1>2. ASSUME NEW t \in Sockets, Pair(t, target[t]) = q, RowJoined(t) \/ RowNotJoined(t)
      PROVE  KeptFor(s, r)'
  <2>1. PICK i \in InOrder(q) : chain[q][i] = WriteJoin(t) /\ chain' = Dequeue(q, i)
    BY <1>2 DEF RowJoined, RowNotJoined
  <2>2. PeersIn(r)' = PeersIn(r)
    BY <1>2, RowJoinedKeepsSeats DEF RowNotJoined, Refuse, PeersIn
  <2>3. stage[t] = "recording"
    BY <1>2 DEF RowJoined, RowNotJoined
  <2>4. CASE p # q
    <3>1. chain'[p] = chain[p] /\ row'[p] = row[p]
      BY <1>1, <1>2, <2>1, <2>4, ChainsShift DEF RowJoined, RowNotJoined, Refuse, SeatsInv
    <3>2. t # s => UNCHANGED <<target[s], held[s], stage[s]>>
      BY <1>1, <1>2 DEF RowJoined, RowNotJoined, Refuse
    <3>3. t = s => target[s] # r /\ target'[s] # r
      BY <1>1, <1>2, <2>4 DEF RowJoined, RowNotJoined, Refuse
    <3> QED  BY <2>2, <3>1, <3>2, <3>3, KeptByOthers
  <2>5. CASE p = q
    <3>1. t = s /\ target[s] = r
      BY <1>2, <2>5, OnlySocketsOwnChain
    <3>2. WriteJoin(s) # WriteLeave
      BY DEF WriteJoin, WriteLeave
    <3>3. Len(chain'[p]) = 0
      BY <1>1, <2>1, <2>3, <2>5, <3>1, <3>2, LeavesKeepTheLast DEF KeptFor, SeatsInv
    <3>4. stage'[s] # "recording" /\ s \notin PeersIn(r)'
      BY <1>1, <1>2, <2>2, <2>3, <3>1 DEF RowJoined, RowNotJoined, Refuse
    <3>5. OnlyLeaves(chain', p)
      BY <3>3 DEF OnlyLeaves
    <3>6. CASE RowJoined(s)
      <4>1. row'[p] = "joined"
        BY <1>1, <3>1, <3>6 DEF RowJoined
      <4> QED  BY <3>3, <3>4, <3>5, <4>1 DEF KeptFor, OnlyLeaves, Pair
    <3>7. CASE RowNotJoined(s)
      <4>1. held'[s] = NoObject
        BY <1>1, <2>3, <3>1, <3>7 DEF RowNotJoined, Refuse
      <4> QED  BY <3>4, <3>5, <4>1 DEF KeptFor, OnlyLeaves, Pair
    <3> QED  BY <1>2, <3>1, <3>6, <3>7
  <2> QED  BY <2>4, <2>5
<1>3. CASE RowLeft(q) \/ RowNotLeft(q)
  <2>1. PICK i \in InOrder(q) : chain[q][i] = WriteLeave /\ chain' = Dequeue(q, i)
    BY <1>3 DEF RowLeft, RowNotLeft
  <2>2. UNCHANGED <<target, held, stage>> /\ PeersIn(r)' = PeersIn(r)
    BY <1>3 DEF RowLeft, RowNotLeft, PeersIn
  <2>3. CASE p # q
    <3>1. chain'[p] = chain[p] /\ row'[p] = row[p]
      BY <1>1, <1>3, <2>1, <2>3, ChainsShift DEF RowLeft, RowNotLeft, SeatsInv
    <3> QED  BY <2>2, <3>1, KeptByOthers
  <2>4. CASE p = q
    <3>1. Len(chain[p]) # 0
      BY <2>1, <2>4, ChainsShift DEF SeatsInv
    <3>2. /\ OnlyLeaves(chain, p) => OnlyLeaves(chain', p)
          /\ JoinIsLast(chain, p, s) => JoinIsLast(chain', p, s)
      BY <1>1, <2>1, <2>4, LeavesKeepTheLast DEF SeatsInv
    <3> QED  BY <2>2, <3>1, <3>2 DEF KeptFor, OnlyLeaves, JoinIsLast, Pair
  <2> QED  BY <2>3, <2>4
<1> QED  BY <1>2, <1>3 DEF ChainStep

(* The steps of a join, up to its seat or its undoing. *)
LEMMA JoinsKeepOnly ==
    ASSUME SeatsInv, TypeOK', NEW s \in Sockets, OnlySocket(s), NEW r \in Conferences,
           KeptFor(s, r), NEW t \in Sockets, JoinStep(t)
    PROVE  KeptFor(s, r)'
<1> DEFINE p == Pair(s, r)
<1>1. /\ p \in Pairs /\ (stage[s] \in {"after", "closed"} <=> held[s] # NoObject)
      /\ chain \in [Pairs -> Seq(Writes)]
      /\ target \in [Sockets -> Conferences \cup {NoConference}]
      /\ held \in [Sockets -> Objects \cup {NoObject}]
      /\ stage \in [Sockets -> Stages] /\ r # NoConference
      /\ (stage[s] # "none" => roomOf[s] = NoConference)
      /\ (s \in PeersIn(r) <=> roomOf[s] = r)
  BY SocketFacts
<1>2. CASE ReadStatus(t) \/ FindRoomClosed(t)
  <2>1. /\ UNCHANGED <<target, held, chain, row, rooms, peers>>
        /\ stage'[s] = "recording" <=> stage[s] = "recording"
    BY <1>1, <1>2 DEF ReadStatus, FindRoomClosed
  <2> QED  BY <2>1, KeptByOthers DEF PeersIn
<1>3. CASE RefuseEarly(t)
  <2>1. /\ UNCHANGED <<held, chain, row, rooms, peers>> /\ stage[t] = "before"
        /\ target' = [target EXCEPT ![t] = NoConference]
        /\ stage' = [stage EXCEPT ![t] = "none"]
    BY <1>3 DEF RefuseEarly, Refuse
  <2>2. PeersIn(r)' = PeersIn(r)
    BY <2>1 DEF PeersIn
  <2>3. CASE t # s
    BY <1>1, <2>1, <2>2, <2>3, KeptByOthers
  <2>4. CASE t = s
    BY <1>1, <2>1, <2>2, <2>4, KeptByOthers
  <2> QED  BY <2>3, <2>4
<1>4. CASE AskForRow(t)
  <2>1. /\ UNCHANGED <<held, target, row, rooms, peers>> /\ stage[t] = "before"
        /\ stage' = [stage EXCEPT ![t] = "recording"]
        /\ chain' = Queue(Pair(t, target[t]), WriteJoin(t))
    BY <1>4 DEF AskForRow
  <2>2. PeersIn(r)' = PeersIn(r)
    BY <2>1 DEF PeersIn
  <2>3. CASE t = s /\ target[s] = r
    <3>1. JoinIsLast(chain', p, s)
      BY <1>1, <2>1, <2>3, LeavesKeepTheLast DEF KeptFor, SeatsInv
    <3>2. held[s] = NoObject /\ s \notin PeersIn(r)
      BY <1>1, <2>1, <2>3
    <3> QED  BY <1>1, <2>1, <2>2, <2>3, <3>1, <3>2 DEF KeptFor, JoinIsLast, Pair
  <2>4. CASE ~(t = s /\ target[s] = r)
    <3>1. Pair(t, target[t]) # p
      BY <2>4, OnlySocketsOwnChain
    <3>2. chain'[p] = chain[p]
      BY <1>1, <2>1, <3>1 DEF Queue
    <3>3. target[s] = r => stage'[s] = stage[s]
      BY <1>1, <2>1, <2>4
    <3> QED  BY <2>1, <2>2, <3>2, <3>3, KeptByOthers
  <2> QED  BY <2>3, <2>4
<1>5. CASE Seat(t)
  <2>1. /\ UNCHANGED <<chain, row>> /\ stage[t] = "after"
        /\ target' = [target EXCEPT ![t] = NoConference]
        /\ stage' = [stage EXCEPT ![t] = "none"]
        /\ held' = [held EXCEPT ![t] = NoObject]
    BY <1>5 DEF Seat
  <2>2. PeersIn(r)' = IF r = target[t] THEN (PeersIn(r) \ Evicted(t)) \cup {t}
                                       ELSE PeersIn(r)
    BY <1>5, SeatKeepsSeats
  <2>3. CASE t # s
    BY <1>1, <2>1, <2>2, <2>3, KeptByOthers
  <2>4. CASE t = s /\ target[s] # r
    BY <1>1, <2>1, <2>2, <2>4, KeptByOthers
  <2>5. CASE t = s /\ target[s] = r
    <3>1. row[p] = "joined" /\ Len(chain[p]) = 0
      BY <1>1, <2>1, <2>5 DEF KeptFor
    <3>2. stage'[s] = "none"
      BY <1>1, <2>1, <2>5
    <3> QED  BY <2>1, <3>1, <3>2 DEF KeptFor, OnlyLeaves, Pair
  <2> QED  BY <2>3, <2>4, <2>5
<1>6. CASE AbortJoin(t) \/ AbortClosed(t)
  <2>1. Undo(t) /\ stage[t] \in {"after", "closed"}
    BY <1>6 DEF AbortJoin, AbortClosed
  <2>2. /\ UNCHANGED row /\ PeersIn(r)' = PeersIn(r)
        /\ target' = [target EXCEPT ![t] = NoConference]
        /\ stage' = [stage EXCEPT ![t] = "none"]
        /\ held' = [held EXCEPT ![t] = NoObject]
        /\ chain' = chain \/ chain' = Queue(Pair(t, target[t]), WriteLeave)
    BY <2>1, UndoKeepsSeats DEF Undo
  <2>3. CASE ~(t = s /\ target[s] = r)
    <3>1. Pair(t, target[t]) # p
      BY <2>3, OnlySocketsOwnChain
    <3>2. chain'[p] = chain[p]
      BY <1>1, <2>2, <3>1 DEF Queue
    <3>3. CASE t # s
      BY <1>1, <2>2, <3>2, <3>3, KeptByOthers
    <3>4. CASE t = s
      BY <1>1, <2>2, <2>3, <3>2, <3>4, KeptByOthers
    <3> QED  BY <3>3, <3>4
  <2>4. CASE t = s /\ target[s] = r
    <3>1. OnlyLeaves(chain', p)
      BY <1>1, <2>1, <2>2, <2>4, LeavesKeepTheLast DEF KeptFor, SeatsInv
    <3>2. s \notin PeersIn(r)' /\ held'[s] = NoObject /\ stage'[s] = "none"
      BY <1>1, <2>1, <2>2, <2>4
    <3> QED  BY <3>1, <3>2 DEF KeptFor, OnlyLeaves, Pair
  <2> QED  BY <2>3, <2>4
<1> QED  BY <1>2, <1>3, <1>4, <1>5, <1>6 DEF JoinStep

(* The owner's end. *)
LEMMA EndRoomKeepsOnly ==
    ASSUME SeatsInv, TypeOK', NEW s \in Sockets, OnlySocket(s), NEW r \in Conferences,
           KeptFor(s, r), NEW q \in Conferences, EndRoom(q)
    PROVE  KeptFor(s, r)'
<1> DEFINE p == Pair(s, r)
<1>1. /\ p \in Pairs /\ (stage[s] \in {"after", "closed"} <=> held[s] # NoObject)
      /\ chain \in [Pairs -> Seq(Writes)] /\ r # NoConference
      /\ (stage[s] # "none" => roomOf[s] = NoConference)
      /\ (s \in PeersIn(r) <=> roomOf[s] = r)
  BY SocketFacts
<1>2. UNCHANGED <<target, held, stage, row>>
  BY DEF EndRoom
<1>3. PeersIn(r)' = IF r = q THEN {} ELSE PeersIn(r)
  BY EndRoomKeepsSeats
<1>4. chain'[p] = IF p \in {Pair(t, q) : t \in PeersIn(q)}
                  THEN Append(chain[p], WriteLeave) ELSE chain[p]
  BY <1>1 DEF EndRoom
<1>5. PeersIn(q) \subseteq Sockets
  BY DEF PeersIn, SeatsInv, TypeOK
<1>6. CASE p \in {Pair(t, q) : t \in PeersIn(q)}
  <2>1. r = q /\ s \in PeersIn(r)
    BY <1>5, <1>6, OnlySocketsOwnChain
  <2>2. stage[s] = "none" /\ held[s] = NoObject
    BY <1>1, <2>1
  <2>3. chain'[p] = Queue(p, WriteLeave)[p]
    BY <1>1, <1>4, <1>6 DEF Queue
  <2>4. OnlyLeaves(Queue(p, WriteLeave), p)
    BY <1>1, <2>2, LeavesKeepTheLast DEF KeptFor, SeatsInv
  <2> QED  BY <1>2, <1>3, <2>1, <2>2, <2>3, <2>4 DEF KeptFor, OnlyLeaves, Pair
<1>7. CASE p \notin {Pair(t, q) : t \in PeersIn(q)}
  BY <1>2, <1>3, <1>4, <1>7, KeptByOthers
<1> QED  BY <1>6, <1>7

(* No step leaves an only connection with a seat and no row to show for it. *)
LEMMA StepsKeepOnly ==
    ASSUME SeatsInv, OnlySocketsInv, [Next]_vars
    PROVE  OnlySocketsInv'
<1> SUFFICES ASSUME NEW s \in Sockets, NEW r \in Conferences, OnlySocket(s)
             PROVE  KeptFor(s, r)'
  BY DEF OnlySocketsInv, OnlySocket
<1>0. TypeOK' /\ KeptFor(s, r)
  BY RoomsTyping DEF SeatsInv, OnlySocketsInv
<1>1. ASSUME UNCHANGED <<rooms, peers, target, held, stage, chain, row>>
      PROVE  KeptFor(s, r)'
  BY <1>0, <1>1, KeptByOthers DEF PeersIn
<1>2. ASSUME NEW t \in Sockets, SocketStep(t)
      PROVE  KeptFor(s, r)'
  <2>1. CASE CloseSocket(t)
    BY <1>1, <2>1 DEF CloseSocket
  <2>2. CASE ~CloseSocket(t)
    <3>1. Depart(t) /\ UNCHANGED <<held, row>>
      BY <1>2, <2>2 DEF SocketStep, Join, Leave, Disconnect
    <3>2. /\ \A a \in Sockets : a # t => UNCHANGED <<target[a], stage[a]>>
          /\ \/ UNCHANGED <<target[t], stage[t]>>
             \/ stage[t] = "none" /\ stage'[t] = "before"
      BY <1>2, <2>2 DEF SocketStep, Join, Leave, Disconnect, SeatsInv, TypeOK
    <3> QED  BY <1>0, <3>1, <3>2, DepartKeepsOnly
  <2> QED  BY <2>1, <2>2
<1>3. ASSUME NEW q \in Conferences, EndConference(q) \/ MarkActive(q)
      PROVE  KeptFor(s, r)'
  BY <1>1, <1>3 DEF EndConference, MarkActive
<1>4. ASSUME NEW u \in Users, Revoke(u)
      PROVE  KeptFor(s, r)'
  BY <1>1, <1>4 DEF Revoke
<1>5. CASE UNCHANGED vars
  BY <1>1, <1>5 DEF vars
<1> QED
  BY <1>0, <1>2, <1>3, <1>4, <1>5, JoinsKeepOnly, WritesKeepOnly, EndRoomKeepsOnly
     DEF Next

(* Whoever sits through the only connection it has is recorded there. *)
OnlySeatsAreRecorded ==
    \A r \in Conferences : \A s \in PeersIn(r) :
        OnlySocket(s) => row[Pair(s, r)] = "joined"

(* Whoever sits in a conference through the only connection it ever had has *)
(* a row there that says joined, whatever joins, leaves and writes overlap. *)
THEOREM OnlySeatsAlwaysRecorded == Spec => []OnlySeatsAreRecorded
<1>1. Init => OnlySocketsInv
  <2> SUFFICES ASSUME Init, NEW s \in Sockets, NEW r \in Conferences
               PROVE  KeptFor(s, r)
    BY DEF OnlySocketsInv
  <2>1. Pair(s, r) \in Pairs
    BY UsersOfSockets DEF Pair, Pairs
  <2>2. chain[Pair(s, r)] = <<>> /\ s \notin PeersIn(r) /\ held[s] = NoObject
        /\ stage[s] = "none"
    BY <2>1 DEF Init, PeersIn
  <2> QED  BY <2>2 DEF KeptFor, OnlyLeaves
<1>2. SeatsInv /\ OnlySocketsInv => OnlySeatsAreRecorded
  BY DEF OnlySocketsInv, KeptFor, OnlySeatsAreRecorded, PeersIn, SeatsInv, TypeOK
<1> QED  BY <1>1, <1>2, StepsKeepOnly, RoomsCorrect, PTL DEF Spec

(* Where every user has one connection, no conference somebody is seated in *)
(* reads as over: it takes two overlapping connections of one user.         *)
THEOREM OverlapAloneMakesItOver ==
    ASSUME \A s \in Sockets : OnlySocket(s)
    PROVE  Spec => []NotOverWhileOccupied
<1>1. SeatsInv /\ OnlySeatsAreRecorded => NotOverWhileOccupied
  <2> SUFFICES ASSUME SeatsInv, OnlySeatsAreRecorded, NEW r \in Conferences,
                      NEW s \in PeersIn(r), status[r] # "ended"
               PROVE  ~IsOver(r)
    BY DEF NotOverWhileOccupied
  <2>1. s \in Sockets
    BY DEF PeersIn, SeatsInv, TypeOK
  <2>2. row[<<r, UserOf[s]>>] = "joined" /\ UserOf[s] \in Users
    BY <2>1, UsersOfSockets DEF OnlySeatsAreRecorded, Pair
  <2> QED  BY <2>2 DEF IsOver
<1> QED  BY <1>1, OnlySeatsAlwaysRecorded, RoomsCorrect, PTL
=============================================================================
