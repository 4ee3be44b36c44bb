---------------------------- MODULE TurnRegistry ----------------------------
(***************************************************************************)
(* Which socket holds which streaming turns, and what it takes to be       *)
(* admitted: SessionRegistry, the four ceilings of turn-concurrency.ts,    *)
(* LidAdmission, and the parts of TranslationSessionService that move      *)
(* turns in and out of them.  What a turn does while it is open is         *)
(* TranslationTurns, which extends this module action by action.           *)
(*                                                                         *)
(* Everything here runs on the event loop without an await, so each        *)
(* operation is one atomic step.  A refusal that changes nothing is a      *)
(* stutter.  A turn is named by its server-assigned session id and an id   *)
(* is never used twice.  recentlyClosed, which only recordClientMetrics    *)
(* reads, is left out.                                                     *)
(***************************************************************************)
EXTENDS Naturals, FiniteSets

CONSTANTS
    Sockets,        \* connections to /ws/translate
    Turns,          \* session ids
    Users,          \* verified accounts
    UserOf,         \* the account a socket was upgraded with, or NoUser
    NoUser,
    PerSocket,      \* MAX_CONCURRENT_TURNS_PER_SOCKET
    PerUser,        \* MAX_CONCURRENT_TURNS_PER_USER
    Global,         \* MAX_CONCURRENT_TURNS_GLOBAL
    MeetingCap,     \* MAX_CONCURRENT_MEETING_TURNS
    LidPerUser,     \* MAX_LID_SOCKETS_PER_USER
    LidTotal,       \* MAX_LID_SOCKETS
    NoOwner         \* the owner of a turn not opened yet, a slot not held

ASSUME SocketsAreFinite == IsFiniteSet(Sockets)
ASSUME TurnsAreFinite == IsFiniteSet(Turns)
ASSUME UserOfType == UserOf \in [Sockets -> Users \cup {NoUser}]
ASSUME NoUserIsNoUser == NoUser \notin Users
ASSUME NoOwnerIsNobody == NoOwner \notin Sockets \cup Users \cup Turns
ASSUME CeilingsType ==
    /\ PerSocket \in Nat /\ PerUser \in Nat /\ Global \in Nat
    /\ MeetingCap \in Nat /\ LidPerUser \in Nat /\ LidTotal \in Nat

VARIABLES
    open,       \* the turns some socket holds: the keys of SessionRegistry.sessions
    owner,      \* the socket each turn was opened on
    meeting,    \* the open turns a meeting's speaker leg opened
    lid,        \* who each socket's identification slot is counted for
    gone        \* the sockets whose disconnect was handled

registryVars == <<open, owner, meeting, lid, gone>>

Modes == {"declared", "two-way", "detect"}

-----------------------------------------------------------------------------
OfSocket(s) == {t \in open : owner[t] = s}

OfUser(u) == {t \in open : UserOf[owner[t]] = u}

OfMeetings == meeting

(* TurnSession.userId: a socket nobody verified is not pooled with others.  *)
(* Its slot is counted for the turn that asked.                             *)
LidOwner(s, t) == IF UserOf[s] = NoUser THEN t ELSE UserOf[s]

LidHolders == {s \in Sockets : lid[s] # NoOwner}

LidHoldersOf(u) == {s \in Sockets : lid[s] = u}

(* LidAdmission.admit: a socket that holds a slot keeps it. *)
MayIdentify(s, t) ==
    \/ lid[s] # NoOwner
    \/ /\ Cardinality(LidHolders) < LidTotal
       /\ Cardinality(LidHoldersOf(LidOwner(s, t))) < LidPerUser

LidAfterAsking(s, t, mode) ==
    IF mode # "declared" /\ MayIdentify(s, t) /\ lid[s] = NoOwner
    THEN [lid EXCEPT ![s] = LidOwner(s, t)]
    ELSE lid

(* Counts the sockets of an account but not the turns each one holds. *)
RoomForSocketOnly(s, meets) ==
    /\ Cardinality(OfSocket(s)) < PerSocket
    /\ Cardinality(open) < Global
    /\ meets => Cardinality(OfMeetings) < MeetingCap

(* The four ceilings, in the order start() asks them. *)
Room(s, meets) ==
    /\ Cardinality(OfSocket(s)) < PerSocket
    /\ UserOf[s] # NoUser => Cardinality(OfUser(UserOf[s])) < PerUser
    /\ Cardinality(open) < Global
    /\ meets => Cardinality(OfMeetings) < MeetingCap

-----------------------------------------------------------------------------
RegistryInit ==
    /\ open = {}
    /\ owner = [t \in Turns |-> NoOwner]
    /\ meeting = {}
    /\ lid = [s \in Sockets |-> NoOwner]
    /\ gone = {}

(* client.session.start, accepted.  A two-way start over the identification *)
(* cap runs as its declared pair; an undeclared one is refused.             *)
Start(s, t, meets, mode) ==
    /\ s \notin gone
    /\ owner[t] = NoOwner
    /\ Room(s, meets)
    /\ mode = "detect" => MayIdentify(s, t)
    /\ lid' = LidAfterAsking(s, t, mode)
    /\ open' = open \cup {t}
    /\ owner' = [owner EXCEPT ![t] = s]
    /\ meeting' = IF meets THEN meeting \cup {t} ELSE meeting
    /\ UNCHANGED gone

(* A start that passed the ceilings and was then refused because no engine  *)
(* serves its languages: the identification slot it took stays with the     *)
(* socket.                                                                  *)
RefuseLanguage(s, t, meets, mode) ==
    /\ s \notin gone
    /\ owner[t] = NoOwner
    /\ Room(s, meets)
    /\ mode = "detect" => MayIdentify(s, t)
    /\ lid' = LidAfterAsking(s, t, mode)
    /\ UNCHANGED <<open, owner, meeting, gone>>

(* Closes the sockets of the closing turns instead of the turns. *)
CloseSocketsOf(closing) ==
    /\ open' = {t \in open : \A u \in closing : owner[t] # owner[u]}
    /\ meeting' = meeting \cap open'
    /\ UNCHANGED <<owner, lid, gone>>

(* SessionRegistry.close for each turn of closing: every way a turn ends by *)
(* itself.  A turn whose socket already left is not there to be dropped.    *)
CloseTurns(closing) ==
    /\ open' = open \ closing
    /\ meeting' = meeting \ closing
    /\ UNCHANGED <<owner, lid, gone>>

(* A disconnect that leaves the socket's turns in the registry. *)
DisconnectKeepingTurns(s) ==
    /\ s \notin gone
    /\ gone' = gone \cup {s}
    /\ lid' = [lid EXCEPT ![s] = NoOwner]
    /\ UNCHANGED <<open, owner, meeting>>

(* disconnect(): the slot, and every turn of the socket at once. *)
Disconnect(s) ==
    /\ s \notin gone
    /\ gone' = gone \cup {s}
    /\ open' = open \ OfSocket(s)
    /\ meeting' = meeting \ OfSocket(s)
    /\ lid' = [lid EXCEPT ![s] = NoOwner]
    /\ UNCHANGED owner

RegistryNext ==
    \/ \E s \in Sockets, t \in Turns, meets \in BOOLEAN, mode \in Modes :
          Start(s, t, meets, mode) \/ RefuseLanguage(s, t, meets, mode)
    \/ \E closing \in SUBSET open : closing # {} /\ CloseTurns(closing)
    \/ \E s \in Sockets : Disconnect(s)

RegistrySpec == RegistryInit /\ [][RegistryNext]_registryVars

-----------------------------------------------------------------------------
(* The shape of the registry: only opened turns are held, and a turn keeps  *)
(* the socket it was opened on.                                             *)
RegistryTypeOK ==
    /\ open \subseteq Turns
    /\ owner \in [Turns -> Sockets \cup {NoOwner}]
    /\ \A t \in open : owner[t] \in Sockets
    /\ meeting \subseteq open
    /\ lid \in [Sockets -> Users \cup Turns \cup {NoOwner}]
    /\ gone \subseteq Sockets

(* No socket, account, meeting pool or process ever holds more turns than   *)
(* its ceiling, whatever sockets an account opens: the sidecars one process *)
(* shares are never asked for more than start() was told they can bear.     *)
CeilingsHold ==
    /\ \A s \in Sockets : Cardinality(OfSocket(s)) <= PerSocket
    /\ \A u \in Users : Cardinality(OfUser(u)) <= PerUser
    /\ Cardinality(open) <= Global
    /\ Cardinality(OfMeetings) <= MeetingCap

(* Identification never takes more sidecar lanes than there are, nor more   *)
(* than one account's share, and refused starts do not leak past either.    *)
LidWithinCap ==
    /\ Cardinality(LidHolders) <= LidTotal
    /\ \A u \in Users : Cardinality(LidHoldersOf(u)) <= LidPerUser

(* A connection that went away leaves nothing that counts against anyone    *)
(* else: no turn in the shared ceilings and no identification slot.         *)
GoneHoldsNothing ==
    \A s \in gone : OfSocket(s) = {} /\ lid[s] = NoOwner

=============================================================================
