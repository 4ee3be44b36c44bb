--------------------------- MODULE ConferenceRooms ---------------------------
(***************************************************************************)
(* Who is in which conference room: ConferencePeerLifecycle over           *)
(* ConferenceRoomRegistry, the owner's end() of ConferenceService and the  *)
(* participant rows of ConferencePersistenceService.                       *)
(*                                                                         *)
(* A room lives in memory while someone is in it or joining it, and has    *)
(* the identity of an object: an ended room and the one a later join opens *)
(* under the same id are different.  A join awaits the conference's        *)
(* status, its participant row, the status again.  A status is read at one *)
(* moment and acted on at a later one, and anything may happen between.    *)
(* Joins and leaves of one user in one conference are written by a chain.  *)
(*                                                                         *)
(* Not here: media, chat and the translation relay of a seated peer, and   *)
(* how a socket is authenticated.  A row write that fails is taken to have *)
(* had no effect.                                                          *)
(***************************************************************************)
EXTENDS Naturals, FiniteSets, SequencesExt

CONSTANTS
    Sockets,        \* connections to /ws/conference, a reconnection a new one
    Users,
    UserOf,         \* who each socket was upgraded for
    Conferences,    \* conferences minted by POST /conference
    NoConference,
    Objects,        \* identities of ConferenceRoom objects in memory
    NoObject,
    MaxJoins        \* bound: conference.join messages a socket sends

ASSUME UsersOfSockets == UserOf \in [Sockets -> Users]
ASSUME NoConferenceIsNone == NoConference \notin Conferences
ASSUME NoObjectIsNone == NoObject \notin Objects
ASSUME MaxJoinsType == MaxJoins \in [Sockets -> Nat]

VARIABLES
    status,     \* Conference.status
    ending,     \* the conferences an end() has written and not yet cleared
    cleared,    \* the conferences endRoom() ran for
    marking,    \* the conferences a markActive() is under way for
    rooms,      \* the live room of each conference
    peers,      \* the sockets seated in each room object
    ready,      \* readyState, "gone" once the close event was handled
    roomOf,     \* _roomId
    stage,      \* what the socket's join() awaits
    target,     \* the conference the join is for
    heard,      \* the status the join read and has not acted on
    held,       \* the room object the join acquired
    joins,      \* the joins the socket asked for
    chain,      \* the row writes waiting, per conference and user
    row,        \* ConferenceParticipant.status
    lost        \* the rows a failed leave was not written to

vars == <<status, ending, cleared, marking, rooms, peers, ready, roomOf, stage,
          target, heard, held, joins, chain, row, lost>>

Statuses == {"waiting", "active", "ended"}
Stages == {"none", "before", "recording", "after", "closed"}
Answers == {"none", "joinable", "room_ended", "failed"}
Pairs == Conferences \X Users

WriteJoin(s) == [write |-> "join", socket |-> s]
WriteLeave == [write |-> "leave"]
Writes == {WriteJoin(s) : s \in Sockets} \cup {WriteLeave}

-----------------------------------------------------------------------------
Pair(s, r) == <<r, UserOf[s]>>

(* getRoom(r)'s peers. *)
PeersIn(r) == IF rooms[r] = NoObject THEN {} ELSE peers[rooms[r]]

(* The joins counted in an object's `joining`. *)
Holding(k) == {s \in Sockets : held[s] = k}

IsLive(s) == rooms[target[s]] = held[s]

(* Counts the joins of the user's other sockets as seats. *)
HasSeatOrJoining(r, u) ==
    \/ \E p \in PeersIn(r) : UserOf[p] = u
    \/ Cardinality({s \in Sockets : UserOf[s] = u /\ target[s] = r}) > 1

HasSeat(r, u) == \E p \in PeersIn(r) : UserOf[p] = u

(* An object nothing refers to: what `new` returns. *)
IsFresh(k) ==
    /\ \A r \in Conferences : rooms[r] # k
    /\ Holding(k) = {} /\ peers[k] = {}

(* Does not ask about joins. *)
DropUnseated(r, seats, joining) ==
    IF seats = {} THEN [rooms EXCEPT ![r] = NoObject] ELSE rooms

(* dropIfEmpty: the registry once r's room has these seats and joins. *)
DropIfEmpty(r, seats, joining) ==
    IF seats = {} /\ joining = {} THEN [rooms EXCEPT ![r] = NoObject] ELSE rooms

Queue(p, write) == [chain EXCEPT ![p] = Append(@, write)]

(* Every write at once. *)
AnyOrder(p) == DOMAIN chain[p]

(* A tail that only a successful write settles. *)
InOrderUntilFailure(p) == IF p \in lost THEN {} ELSE DOMAIN chain[p] \cap {1}

(* serialize(): the writes of a chain that may run, by their place. *)
InOrder(p) == DOMAIN chain[p] \cap {1}

Dequeue(p, i) == [chain EXCEPT ![p] = RemoveAt(@, i)]

(* Trusts a closing socket to leave by itself. *)
EvictedIfOpen(s) ==
    {p \in peers[held[s]] : UserOf[p] = UserOf[s] /\ ready[p] = "open"} \ {s}

(* evictSameUser: the older seats of the joining user. *)
Evicted(s) == {p \in peers[held[s]] : UserOf[p] = UserOf[s]} \ {s}

(* Forgets those it does not seat any more without closing them. *)
NotClosing(ss) == ready

Closing(ss) ==
    [s \in Sockets |-> IF s \in ss /\ ready[s] = "open" THEN "closing"
                                                         ELSE ready[s]]

-----------------------------------------------------------------------------
Init ==
    /\ status = [r \in Conferences |-> "waiting"]
    /\ ending = {} /\ cleared = {} /\ marking = {}
    /\ rooms = [r \in Conferences |-> NoObject]
    /\ peers = [k \in Objects |-> {}]
    /\ ready = [s \in Sockets |-> "open"]
    /\ roomOf = [s \in Sockets |-> NoConference]
    /\ stage = [s \in Sockets |-> "none"]
    /\ target = [s \in Sockets |-> NoConference]
    /\ heard = [s \in Sockets |-> "none"]
    /\ held = [s \in Sockets |-> NoObject]
    /\ joins = [s \in Sockets |-> 0]
    /\ chain = [p \in Pairs |-> <<>>]
    /\ row = [p \in Pairs |-> "none"]
    /\ lost = {}

(* leave(): the seat if the live room has it, and the row either way. *)
Depart(s) ==
    LET r == roomOf[s]
        k == rooms[r]
    IN IF r = NoConference
       THEN UNCHANGED <<roomOf, rooms, peers, chain>>
       ELSE /\ roomOf' = [roomOf EXCEPT ![s] = NoConference]
            /\ chain' = Queue(Pair(s, r), WriteLeave)
            /\ IF s \in PeersIn(r)
               THEN /\ peers' = [peers EXCEPT ![k] = @ \ {s}]
                    /\ rooms' = DropIfEmpty(r, peers[k] \ {s}, Holding(k))
               ELSE UNCHANGED <<peers, rooms>>

(* conference.leave of a seated socket. *)
Leave(s) ==
    /\ ready[s] # "gone"
    /\ roomOf[s] # NoConference
    /\ Depart(s)
    /\ UNCHANGED <<status, ending, cleared, marking, ready, stage, target,
                   heard, held, joins, row, lost>>

(* The client, the network, the heartbeat or a revoked token closes it. *)
CloseSocket(s) ==
    /\ ready[s] = "open"
    /\ ready' = Closing({s})
    /\ UNCHANGED <<status, ending, cleared, marking, rooms, peers, roomOf,
                   stage, target, heard, held, joins, chain, row, lost>>

(* closeSessionsFor(): every socket of an account whose sessions ended. *)
Revoke(u) ==
    /\ ready' = Closing({s \in Sockets : UserOf[s] = u})
    /\ ready' # ready
    /\ UNCHANGED <<status, ending, cleared, marking, rooms, peers, roomOf,
                   stage, target, heard, held, joins, chain, row, lost>>

(* handleDisconnect, at the close event. *)
Disconnect(s) ==
    /\ ready[s] = "closing"
    /\ ready' = [ready EXCEPT ![s] = "gone"]
    /\ Depart(s)
    /\ UNCHANGED <<status, ending, cleared, marking, stage, target, heard,
                   held, joins, row, lost>>

-----------------------------------------------------------------------------
(* Leaves the first room only when the second join is through. *)
JoinWithoutLeaving(s, r) ==
    /\ ready[s] # "gone"
    /\ stage[s] = "none"
    /\ joins[s] < MaxJoins[s]
    /\ joins' = [joins EXCEPT ![s] = @ + 1]
    /\ stage' = [stage EXCEPT ![s] = "before"]
    /\ target' = [target EXCEPT ![s] = r]
    /\ UNCHANGED <<status, ending, cleared, marking, rooms, peers, ready,
                   roomOf, heard, held, chain, row, lost>>

(* conference.join: leaves the room the socket is in, and asks the status.  *)
Join(s, r) ==
    /\ ready[s] # "gone"
    /\ stage[s] = "none"
    /\ joins[s] < MaxJoins[s]
    /\ joins' = [joins EXCEPT ![s] = @ + 1]
    /\ stage' = [stage EXCEPT ![s] = "before"]
    /\ target' = [target EXCEPT ![s] = r]
    /\ Depart(s)
    /\ UNCHANGED <<status, ending, cleared, marking, ready, heard, held, row,
                   lost>>

(* The database answers one of the join's three joinableStatus() calls.     *)
ReadStatus(s) ==
    /\ stage[s] \in {"before", "after", "closed"}
    /\ heard[s] = "none"
    /\ \E answer \in {IF status[target[s]] = "ended" THEN "room_ended"
                                                     ELSE "joinable", "failed"} :
          heard' = [heard EXCEPT ![s] = answer]
    /\ UNCHANGED <<status, ending, cleared, marking, rooms, peers, ready,
                   roomOf, stage, target, held, joins, chain, row, lost>>

(* The join is over; nothing of it was recorded. *)
Refuse(s) ==
    /\ stage' = [stage EXCEPT ![s] = "none"]
    /\ target' = [target EXCEPT ![s] = NoConference]
    /\ heard' = [heard EXCEPT ![s] = "none"]
    /\ UNCHANGED <<status, ending, cleared, marking, rooms, peers, ready,
                   roomOf, held, joins, row, lost>>

RefuseEarly(s) ==
    /\ stage[s] = "before"
    /\ heard[s] \in {"room_ended", "failed"}
    /\ Refuse(s)
    /\ UNCHANGED chain

AskForRow(s) ==
    /\ stage[s] = "before"
    /\ heard[s] = "joinable"
    /\ stage' = [stage EXCEPT ![s] = "recording"]
    /\ heard' = [heard EXCEPT ![s] = "none"]
    /\ chain' = Queue(Pair(s, target[s]), WriteJoin(s))
    /\ UNCHANGED <<status, ending, cleared, marking, rooms, peers, ready,
                   roomOf, target, held, joins, row, lost>>

(* recordJoin() resolves, and the join holds the room it shares or opens.   *)
RowJoined(s) ==
    LET r == target[s]
        p == Pair(s, r)
    IN /\ stage[s] = "recording"
       /\ \E i \in InOrder(p) :
             /\ chain[p][i] = WriteJoin(s)
             /\ chain' = Dequeue(p, i)
       /\ row' = [row EXCEPT ![p] = "joined"]
       /\ stage' = [stage EXCEPT ![s] = "after"]
       /\ \E k \in Objects :
             /\ IF rooms[r] = NoObject THEN IsFresh(k) ELSE k = rooms[r]
             /\ rooms' = [rooms EXCEPT ![r] = k]
             /\ held' = [held EXCEPT ![s] = k]
       /\ UNCHANGED <<status, ending, cleared, marking, peers, ready, roomOf,
                      target, heard, joins, lost>>

RowNotJoined(s) ==
    LET p == Pair(s, target[s])
    IN /\ stage[s] = "recording"
       /\ \E i \in InOrder(p) :
             /\ chain[p][i] = WriteJoin(s)
             /\ chain' = Dequeue(p, i)
       /\ Refuse(s)

(* recordLeave() writes a row that was not already left, or fails and is    *)
(* logged.                                                                  *)
RowLeft(p) ==
    /\ \E i \in InOrder(p) :
          /\ chain[p][i] = WriteLeave
          /\ chain' = Dequeue(p, i)
    /\ row' = [row EXCEPT ![p] = IF @ = "none" THEN @ ELSE "left"]
    /\ UNCHANGED <<status, ending, cleared, marking, rooms, peers, ready,
                   roomOf, stage, target, heard, held, joins, lost>>

RowNotLeft(p) ==
    /\ \E i \in InOrder(p) :
          /\ chain[p][i] = WriteLeave
          /\ chain' = Dequeue(p, i)
    /\ lost' = lost \cup {p}
    /\ UNCHANGED <<status, ending, cleared, marking, rooms, peers, ready,
                   roomOf, stage, target, heard, held, joins, row>>

-----------------------------------------------------------------------------
(* Each of these forgets a check of Seatable. *)
SeatableWhateverTheRoom(s) == heard[s] = "joinable" /\ ready[s] = "open"

SeatableThoughClosed(s) == heard[s] = "joinable" /\ IsLive(s)

(* The three checks between the last answer and the seat. *)
Seatable(s) == heard[s] = "joinable" /\ IsLive(s) /\ ready[s] = "open"

(* addPeer after evicting the user's older seats: the row is the seat's.    *)
Seat(s) ==
    LET k == held[s]
    IN /\ stage[s] = "after"
       /\ Seatable(s)
       /\ peers' = [peers EXCEPT ![k] = (@ \ Evicted(s)) \cup {s}]
       /\ roomOf' = [p \in Sockets |->
                        IF p = s THEN target[s]
                        ELSE IF p \in Evicted(s) THEN NoConference
                        ELSE roomOf[p]]
       /\ ready' = Closing(Evicted(s))
       /\ marking' = marking \cup {target[s]}
       /\ stage' = [stage EXCEPT ![s] = "none"]
       /\ target' = [target EXCEPT ![s] = NoConference]
       /\ heard' = [heard EXCEPT ![s] = "none"]
       /\ held' = [held EXCEPT ![s] = NoObject]
       /\ UNCHANGED <<status, ending, cleared, rooms, joins, chain, row, lost>>

(* The `finally` of a join that recorded its row and was not seated: undoes *)
(* the row unless the user has a seat, and lets go of the room.             *)
Undo(s) ==
    LET r == target[s]
        k == held[s]
    IN /\ chain' = IF HasSeat(r, UserOf[s]) THEN chain
                   ELSE Queue(Pair(s, r), WriteLeave)
       /\ rooms' = IF IsLive(s)
                   THEN DropIfEmpty(r, peers[k], Holding(k) \ {s})
                   ELSE rooms
       /\ held' = [held EXCEPT ![s] = NoObject]
       /\ stage' = [stage EXCEPT ![s] = "none"]
       /\ target' = [target EXCEPT ![s] = NoConference]
       /\ heard' = [heard EXCEPT ![s] = "none"]
       /\ UNCHANGED <<status, ending, cleared, marking, peers, ready, roomOf,
                      joins, row, lost>>

(* The status says no, could not be read, or the socket is not open. *)
AbortJoin(s) ==
    /\ stage[s] = "after"
    /\ \/ heard[s] \in {"room_ended", "failed"}
       \/ heard[s] = "joinable" /\ IsLive(s) /\ ready[s] # "open"
    /\ Undo(s)

(* RoomClosedError: the reply asks for the status once more. *)
FindRoomClosed(s) ==
    /\ stage[s] = "after"
    /\ heard[s] = "joinable"
    /\ ~IsLive(s)
    /\ stage' = [stage EXCEPT ![s] = "closed"]
    /\ heard' = [heard EXCEPT ![s] = "none"]
    /\ UNCHANGED <<status, ending, cleared, marking, rooms, peers, ready,
                   roomOf, target, held, joins, chain, row, lost>>

AbortClosed(s) ==
    /\ stage[s] = "closed"
    /\ heard[s] # "none"
    /\ Undo(s)

-----------------------------------------------------------------------------
(* end(): the status is written once, and the room cleared after it,        *)
(* whether or not the conference had ended before.                          *)
EndConference(r) ==
    /\ r \notin ending
    /\ status' = [status EXCEPT ![r] = "ended"]
    /\ ending' = ending \cup {r}
    /\ UNCHANGED <<cleared, marking, rooms, peers, ready, roomOf, stage,
                   target, heard, held, joins, chain, row, lost>>

(* endRoom() with disconnectRoom(): every peer is told, closed and recorded *)
(* as having left, and its socket forgets the room first.                   *)
EndRoom(r) ==
    LET left == PeersIn(r)
    IN /\ r \in ending
       /\ ending' = ending \ {r}
       /\ cleared' = cleared \cup {r}
       /\ rooms' = [rooms EXCEPT ![r] = NoObject]
       /\ peers' = [k \in Objects |-> IF k = rooms[r] THEN {} ELSE peers[k]]
       /\ roomOf' = [s \in Sockets |-> IF s \in left THEN NoConference
                                                     ELSE roomOf[s]]
       /\ ready' = Closing(left)
       /\ chain' = [p \in Pairs |->
                       IF p \in {Pair(s, r) : s \in left}
                       THEN Append(chain[p], WriteLeave) ELSE chain[p]]
       /\ UNCHANGED <<status, marking, stage, target, heard, held, joins, row,
                      lost>>

(* Updates the conference whatever its status became. *)
MarkEvenEnded(r) ==
    /\ r \in marking
    /\ marking' = marking \ {r}
    /\ \E s \in {status[r], "active"} : status' = [status EXCEPT ![r] = s]
    /\ UNCHANGED <<ending, cleared, rooms, peers, ready, roomOf, stage, target,
                   heard, held, joins, chain, row, lost>>

(* markActive() lands on a waiting conference, or fails. *)
MarkActive(r) ==
    /\ r \in marking
    /\ marking' = marking \ {r}
    /\ \/ /\ status[r] = "waiting"
          /\ status' = [status EXCEPT ![r] = "active"]
       \/ UNCHANGED status
    /\ UNCHANGED <<ending, cleared, rooms, peers, ready, roomOf, stage, target,
                   heard, held, joins, chain, row, lost>>

-----------------------------------------------------------------------------
JoinStep(s) ==
    \/ ReadStatus(s) \/ RefuseEarly(s) \/ AskForRow(s)
    \/ Seat(s) \/ AbortJoin(s) \/ FindRoomClosed(s) \/ AbortClosed(s)

ChainStep(p) ==
    \/ \E s \in Sockets :
          /\ Pair(s, target[s]) = p
          /\ RowJoined(s) \/ RowNotJoined(s)
    \/ RowLeft(p)
    \/ RowNotLeft(p)

SocketStep(s) ==
    \/ \E r \in Conferences : Join(s, r)
    \/ Leave(s) \/ CloseSocket(s) \/ Disconnect(s)

Next ==
    \/ \E s \in Sockets : SocketStep(s) \/ JoinStep(s)
    \/ \E u \in Users : Revoke(u)
    \/ \E p \in Pairs : ChainStep(p)
    \/ \E r \in Conferences : EndConference(r) \/ EndRoom(r) \/ MarkActive(r)

Spec == Init /\ [][Next]_vars

(* Every query to the database is answered, or fails. *)
FairSpec ==
    /\ Spec
    /\ \A s \in Sockets : WF_vars(JoinStep(s))
    /\ \A p \in Pairs : WF_vars(ChainStep(p))

-----------------------------------------------------------------------------
(* The shape of the state: a join holds a room once its row is recorded and *)
(* until it is over, and its socket sits in no room meanwhile.              *)
TypeOK ==
    /\ status \in [Conferences -> Statuses]
    /\ ending \subseteq Conferences
    /\ cleared \subseteq Conferences
    /\ marking \subseteq Conferences
    /\ rooms \in [Conferences -> Objects \cup {NoObject}]
    /\ peers \in [Objects -> SUBSET Sockets]
    /\ ready \in [Sockets -> {"open", "closing", "gone"}]
    /\ roomOf \in [Sockets -> Conferences \cup {NoConference}]
    /\ stage \in [Sockets -> Stages]
    /\ target \in [Sockets -> Conferences \cup {NoConference}]
    /\ heard \in [Sockets -> Answers]
    /\ held \in [Sockets -> Objects \cup {NoObject}]
    /\ joins \in [Sockets -> Nat]
    /\ chain \in [Pairs -> Seq(Writes)]
    /\ row \in [Pairs -> {"none", "joined", "left"}]
    /\ lost \subseteq Pairs
    /\ \A s \in Sockets :
          /\ stage[s] = "none" <=> target[s] = NoConference
          /\ stage[s] \in {"after", "closed"} <=> held[s] # NoObject
          /\ stage[s] # "none" => roomOf[s] = NoConference
          /\ stage[s] \in {"none", "recording"} => heard[s] = "none"

(* A socket believes it is in a conference exactly when the conference's    *)
(* live room has it: nobody is seated where no message reaches them, and    *)
(* nobody is sent a room's messages after leaving it.                       *)
SeatsAgree ==
    /\ \A s \in Sockets, r \in Conferences : roomOf[s] = r <=> s \in PeersIn(r)
    /\ \A k \in Objects : peers[k] # {} => \E r \in Conferences : rooms[r] = k

(* A user has one seat in a conference, however many sockets join at once   *)
(* and however late an older one closes.                                    *)
OneSeatPerUser ==
    \A k \in Objects : \A a, b \in peers[k] : UserOf[a] = UserOf[b] => a = b

(* A socket whose close event was handled sits nowhere, though a join of    *)
(* its own may still have been awaiting then: nothing would ever evict it.  *)
NoGhostSeats == \A k \in Objects : \A s \in peers[k] : ready[s] # "gone"

(* Once the owner's end has cleared a conference it stays ended and empty,  *)
(* whichever joins were in flight across the write and the clearing.        *)
EndedStaysEmpty ==
    \A r \in cleared : status[r] = "ended" /\ PeersIn(r) = {}

(* The room a join holds is taken from under it only by the owner's end,    *)
(* never by others leaving or failing to join: otherwise a join to an open  *)
(* conference would be answered internal_error.                             *)
HeldRoomsStayOpen ==
    \A s \in Sockets :
        held[s] # NoObject /\ ~IsLive(s) => status[target[s]] = "ended"

Settled(r) ==
    /\ \A s \in Sockets : target[s] # r
    /\ \A u \in Users : chain[<<r, u>>] = <<>>

(* conferenceEndedAt(): the end, or the last leave once everybody left.     *)
IsOver(r) ==
    \/ status[r] = "ended"
    \/ /\ \E u \in Users : row[<<r, u>>] # "none"
       /\ \A u \in Users : row[<<r, u>>] # "joined"

(* When nothing is in flight and no write was lost, a conference nobody is  *)
(* in has nobody recorded as in it: joins that were abandoned half way left *)
(* no row behind that would keep the meeting running for ever.              *)
LeftByAllIsOver ==
    \A r \in Conferences :
        Settled(r) /\ PeersIn(r) = {} =>
            \A u \in Users : row[<<r, u>>] = "joined" => <<r, u>> \in lost

(* conferenceEndedAt() is "Null while anyone is still in the room": of a    *)
(* settled conference that somebody is seated in.                           *)
NotOverWhileOccupied ==
    \A r \in Conferences :
        Settled(r) /\ PeersIn(r) # {} /\ status[r] # "ended" => ~IsOver(r)

(* Every join is answered in the end: it is seated or refused, whatever     *)
(* else is written about the same user and whatever fails.                  *)
JoinsReturn == \A s \in Sockets : stage[s] # "none" ~> stage[s] = "none"

(* People's view of a conference, with joins, rooms and rows left out: a    *)
(* reconnection takes the seat over in one step and shuts the older socket, *)
(* which never sits down again, however its joins and its close interleave; *)
(* nobody is put out of a room but by their own socket or the owner's end.  *)
Membership == INSTANCE ConferenceMembership WITH
    Connections <- Sockets,
    PersonOf <- UserOf,
    present <- [r \in Conferences |-> PeersIn(r)],
    link <- ready,
    over <- cleared

KeepsMembership == Membership!MembershipSpec
=============================================================================
