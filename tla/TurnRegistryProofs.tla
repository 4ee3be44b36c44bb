------------------------- MODULE TurnRegistryProofs -------------------------
(***************************************************************************)
(* The registry's invariants for any sockets, accounts and ceilings.       *)
(* RegistryTypeOK is inductive by itself, and each of the others is        *)
(* inductive relative to it: a ceiling is asked in the same step that      *)
(* opens the turn, and every other step only shrinks what is counted.      *)
(***************************************************************************)
EXTENDS TurnRegistry, FiniteSetTheorems, TLAPS

(* A set that grows by one element only while it is below a bound stays     *)
(* within it.                                                               *)
LEMMA GrowsWithinBound ==
    ASSUME NEW A, NEW B, NEW x, NEW bound \in Nat, IsFiniteSet(A),
           Cardinality(A) <= bound,
           B \subseteq A \/ (B \subseteq A \cup {x} /\ Cardinality(A) < bound)
    PROVE  IsFiniteSet(B) /\ Cardinality(B) <= bound
<1>1. /\ IsFiniteSet(A \cup {x})
      /\ Cardinality(A \cup {x}) <= Cardinality(A) + 1
      /\ Cardinality(A) \in Nat
  BY FS_AddElement, FS_CardinalityType
<1>2. CASE B \subseteq A
  <2>1. IsFiniteSet(B) /\ Cardinality(B) <= Cardinality(A)
    BY <1>2, FS_Subset
  <2> QED  BY <2>1, <1>1, FS_CardinalityType
<1>3. CASE B \subseteq A \cup {x} /\ Cardinality(A) < bound
  <2>1. IsFiniteSet(B) /\ Cardinality(B) <= Cardinality(A \cup {x})
    BY <1>1, <1>3, FS_Subset
  <2>2. Cardinality(B) \in Nat /\ Cardinality(A \cup {x}) \in Nat
    BY <1>1, <2>1, FS_CardinalityType
  <2> QED  BY <1>1, <1>3, <2>1, <2>2
<1> QED  BY <1>2, <1>3

(* Everything the registry counts is finite. *)
LEMMA CountedSetsAreFinite ==
    ASSUME RegistryTypeOK
    PROVE  /\ IsFiniteSet(open)
           /\ \A s : IsFiniteSet(OfSocket(s))
           /\ \A u : IsFiniteSet(OfUser(u))
           /\ IsFiniteSet(OfMeetings)
           /\ IsFiniteSet(LidHolders)
           /\ \A u : IsFiniteSet(LidHoldersOf(u))
<1>1. IsFiniteSet(open)
  BY FS_Subset, TurnsAreFinite DEF RegistryTypeOK
<1>2. /\ \A s : OfSocket(s) \in SUBSET open
      /\ \A u : OfUser(u) \in SUBSET open
      /\ OfMeetings \in SUBSET open
  BY DEF OfSocket, OfUser, OfMeetings, RegistryTypeOK
<1>3. /\ LidHolders \in SUBSET Sockets
      /\ \A u : LidHoldersOf(u) \in SUBSET Sockets
  BY DEF LidHolders, LidHoldersOf
<1> QED  BY <1>1, <1>2, <1>3, FS_Subset, SocketsAreFinite

-----------------------------------------------------------------------------
(* The registry's state keeps its shape, from the first step on. *)
LEMMA RegistryTyping ==
    ASSUME RegistryTypeOK, [RegistryNext]_registryVars
    PROVE  RegistryTypeOK'
<1> USE DEF RegistryTypeOK
<1>1. ASSUME NEW s \in Sockets, NEW t \in Turns, NEW meets \in BOOLEAN,
             NEW mode \in Modes, Start(s, t, meets, mode)
      PROVE  RegistryTypeOK'
  BY <1>1, UserOfType DEF Start, LidAfterAsking, LidOwner
<1>2. ASSUME NEW s \in Sockets, NEW t \in Turns, NEW meets \in BOOLEAN,
             NEW mode \in Modes, RefuseLanguage(s, t, meets, mode)
      PROVE  RegistryTypeOK'
  BY <1>2, UserOfType DEF RefuseLanguage, LidAfterAsking, LidOwner
<1>3. ASSUME NEW closing \in SUBSET open, CloseTurns(closing)
      PROVE  RegistryTypeOK'
  BY <1>3 DEF CloseTurns
<1>4. ASSUME NEW s \in Sockets, Disconnect(s)
      PROVE  RegistryTypeOK'
  BY <1>4 DEF Disconnect
<1>5. CASE UNCHANGED registryVars
  BY <1>5 DEF registryVars
<1> QED  BY <1>1, <1>2, <1>3, <1>4, <1>5 DEF RegistryNext

(* RegistryTypeOK holds of every reachable registry. *)
THEOREM RegistryTypeCorrect == RegistrySpec => []RegistryTypeOK
<1>1. RegistryInit => RegistryTypeOK
  BY DEF RegistryInit, RegistryTypeOK
<1> QED  BY <1>1, RegistryTyping, PTL DEF RegistrySpec

-----------------------------------------------------------------------------
(* A started turn adds itself to the sets it is counted in, and each of     *)
(* those was asked about first.                                             *)
LEMMA StartKeepsCeilings ==
    ASSUME RegistryTypeOK, CeilingsHold,
           NEW s \in Sockets, NEW t \in Turns, NEW meets \in BOOLEAN,
           NEW mode \in Modes, Start(s, t, meets, mode)
    PROVE  CeilingsHold'
<1>1. /\ open' = open \cup {t}
      /\ owner' = [owner EXCEPT ![t] = s]
      /\ t \notin open
      /\ owner'[t] = s
      /\ \A u \in open : owner'[u] = owner[u]
  BY NoOwnerIsNobody DEF Start, RegistryTypeOK
<1>2. ASSUME NEW r \in Sockets
      PROVE  Cardinality(OfSocket(r)') <= PerSocket
  <2>1. OfSocket(r)' \subseteq OfSocket(r) \cup {t}
    BY <1>1 DEF OfSocket
  <2>2. r # s => OfSocket(r)' \subseteq OfSocket(r)
    BY <1>1 DEF OfSocket
  <2>3. Cardinality(OfSocket(s)) < PerSocket
    BY DEF Start, Room
  <2> QED  BY <2>1, <2>2, <2>3, GrowsWithinBound, CountedSetsAreFinite,
              CeilingsType DEF CeilingsHold
<1>3. ASSUME NEW u \in Users
      PROVE  Cardinality(OfUser(u)') <= PerUser
  <2>1. OfUser(u)' \subseteq OfUser(u) \cup {t}
    BY <1>1 DEF OfUser
  <2>2. UserOf[s] # u => OfUser(u)' \subseteq OfUser(u)
    BY <1>1 DEF OfUser
  <2>3. UserOf[s] = u => Cardinality(OfUser(u)) < PerUser
    BY NoUserIsNoUser DEF Start, Room
  <2> QED  BY <2>1, <2>2, <2>3, GrowsWithinBound, CountedSetsAreFinite,
              CeilingsType DEF CeilingsHold
<1>4. Cardinality(open') <= Global
  BY <1>1, GrowsWithinBound, CountedSetsAreFinite, CeilingsType
     DEF Start, Room, CeilingsHold
<1>5. Cardinality(OfMeetings') <= MeetingCap
  <2>1. OfMeetings' \subseteq OfMeetings \cup {t}
    BY DEF Start, OfMeetings
  <2>2. ~meets => OfMeetings' \subseteq OfMeetings
    BY DEF Start, OfMeetings
  <2>3. meets => Cardinality(OfMeetings) < MeetingCap
    BY DEF Start, Room
  <2> QED  BY <2>1, <2>2, <2>3, GrowsWithinBound, CountedSetsAreFinite,
              CeilingsType DEF CeilingsHold
<1> QED  BY <1>2, <1>3, <1>4, <1>5 DEF CeilingsHold

(* A step that opens nothing and moves no turn cannot break a ceiling. *)
LEMMA ShrinkingKeepsCeilings ==
    ASSUME RegistryTypeOK, CeilingsHold,
           open' \subseteq open, meeting' \subseteq meeting, owner' = owner
    PROVE  CeilingsHold'
<1>1. /\ \A s : OfSocket(s)' \subseteq OfSocket(s)
      /\ \A u : OfUser(u)' \subseteq OfUser(u)
      /\ OfMeetings' \subseteq OfMeetings
  BY DEF OfSocket, OfUser, OfMeetings
<1>2. /\ \A s \in Sockets : Cardinality(OfSocket(s)') <= PerSocket
      /\ \A u \in Users : Cardinality(OfUser(u)') <= PerUser
      /\ Cardinality(open') <= Global
      /\ Cardinality(OfMeetings') <= MeetingCap
  BY <1>1, GrowsWithinBound, CountedSetsAreFinite, CeilingsType
     DEF CeilingsHold
<1> QED  BY <1>2 DEF CeilingsHold

(* CeilingsHold for every number of sockets, accounts and turns: however    *)
(* starts, closes and disconnects interleave, no ceiling of                 *)
(* turn-concurrency.ts is ever exceeded.                                    *)
THEOREM CeilingsAlwaysHold == RegistrySpec => []CeilingsHold
<1>1. RegistryInit => CeilingsHold
  <2> SUFFICES ASSUME RegistryInit PROVE CeilingsHold
    OBVIOUS
  <2>1. /\ \A s : OfSocket(s) = {}
        /\ \A u : OfUser(u) = {}
        /\ open = {} /\ OfMeetings = {}
    BY DEF RegistryInit, OfSocket, OfUser, OfMeetings
  <2> QED  BY <2>1, FS_EmptySet, CeilingsType DEF CeilingsHold
<1>2. ASSUME RegistryTypeOK, CeilingsHold, [RegistryNext]_registryVars
      PROVE  CeilingsHold'
  <2>1. ASSUME NEW s \in Sockets, NEW t \in Turns, NEW meets \in BOOLEAN,
               NEW mode \in Modes, Start(s, t, meets, mode)
        PROVE  CeilingsHold'
    BY <1>2, <2>1, StartKeepsCeilings
  <2>2. CASE open' \subseteq open /\ meeting' \subseteq meeting /\ owner' = owner
    BY <1>2, <2>2, ShrinkingKeepsCeilings
  <2>3. ASSUME NEW s \in Sockets, NEW t \in Turns, NEW meets \in BOOLEAN,
               NEW mode \in Modes, RefuseLanguage(s, t, meets, mode)
        PROVE  CeilingsHold'
    BY <2>2, <2>3 DEF RefuseLanguage
  <2>4. ASSUME NEW closing \in SUBSET open, CloseTurns(closing)
        PROVE  CeilingsHold'
    BY <2>2, <2>4 DEF CloseTurns
  <2>5. ASSUME NEW s \in Sockets, Disconnect(s)
        PROVE  CeilingsHold'
    BY <2>2, <2>5 DEF Disconnect
  <2>6. CASE UNCHANGED registryVars
    BY <2>2, <2>6 DEF registryVars
  <2> QED  BY <1>2, <2>1, <2>3, <2>4, <2>5, <2>6 DEF RegistryNext
<1> QED  BY <1>1, <1>2, RegistryTypeCorrect, PTL DEF RegistrySpec

-----------------------------------------------------------------------------
(* Asking for an identification slot adds at most the socket that asks, and *)
(* only below both caps.                                                    *)
LEMMA AskingKeepsLidCaps ==
    ASSUME RegistryTypeOK, LidWithinCap,
           NEW s \in Sockets, NEW t \in Turns, NEW mode \in Modes,
           lid' = LidAfterAsking(s, t, mode)
    PROVE  LidWithinCap'
<1>1. CASE lid' = lid
  BY <1>1 DEF LidWithinCap, LidHolders, LidHoldersOf
<1>2. CASE lid' # lid
  <2>1. /\ lid' = [lid EXCEPT ![s] = LidOwner(s, t)]
        /\ Cardinality(LidHolders) < LidTotal
        /\ Cardinality(LidHoldersOf(LidOwner(s, t))) < LidPerUser
    BY <1>2 DEF LidAfterAsking, MayIdentify
  <2>2. Cardinality(LidHolders') <= LidTotal
    <3>1. LidHolders' \subseteq LidHolders \cup {s}
      BY <2>1 DEF LidHolders, RegistryTypeOK
    <3> QED  BY <2>1, <3>1, GrowsWithinBound, CountedSetsAreFinite,
                CeilingsType DEF LidWithinCap
  <2>3. ASSUME NEW u \in Users
        PROVE  Cardinality(LidHoldersOf(u)') <= LidPerUser
    <3>1. LidHoldersOf(u)' \subseteq LidHoldersOf(u) \cup {s}
      BY <2>1 DEF LidHoldersOf, RegistryTypeOK
    <3>2. LidOwner(s, t) # u => LidHoldersOf(u)' \subseteq LidHoldersOf(u)
      BY <2>1 DEF LidHoldersOf, RegistryTypeOK
    <3> QED  BY <2>1, <3>1, <3>2, GrowsWithinBound, CountedSetsAreFinite,
                CeilingsType DEF LidWithinCap
  <2> QED  BY <2>2, <2>3 DEF LidWithinCap
<1> QED  BY <1>1, <1>2

(* LidWithinCap for any number of sockets: the sidecar is never asked to    *)
(* identify for more sockets than it has lanes, refused starts included.    *)
THEOREM LidAlwaysWithinCap == RegistrySpec => []LidWithinCap
<1>1. RegistryInit => LidWithinCap
  <2> SUFFICES ASSUME RegistryInit PROVE LidWithinCap
    OBVIOUS
  <2>1. LidHolders = {} /\ \A u \in Users : LidHoldersOf(u) = {}
    BY NoOwnerIsNobody DEF RegistryInit, LidHolders, LidHoldersOf
  <2> QED  BY <2>1, FS_EmptySet, CeilingsType DEF LidWithinCap
<1>2. ASSUME RegistryTypeOK, LidWithinCap, [RegistryNext]_registryVars
      PROVE  LidWithinCap'
  <2>1. ASSUME NEW s \in Sockets, NEW t \in Turns, NEW meets \in BOOLEAN,
               NEW mode \in Modes,
               Start(s, t, meets, mode) \/ RefuseLanguage(s, t, meets, mode)
        PROVE  LidWithinCap'
    BY <1>2, <2>1, AskingKeepsLidCaps DEF Start, RefuseLanguage
  <2>2. CASE lid' = lid
    BY <1>2, <2>2 DEF LidWithinCap, LidHolders, LidHoldersOf
  <2>3. ASSUME NEW closing \in SUBSET open, CloseTurns(closing)
        PROVE  LidWithinCap'
    BY <2>2, <2>3 DEF CloseTurns
  <2>4. ASSUME NEW s \in Sockets, Disconnect(s)
        PROVE  LidWithinCap'
    <3>1. /\ LidHolders' \subseteq LidHolders
          /\ \A u \in Users : LidHoldersOf(u)' \subseteq LidHoldersOf(u)
      BY <1>2, <2>4, NoOwnerIsNobody
         DEF Disconnect, LidHolders, LidHoldersOf, RegistryTypeOK
    <3>2. /\ Cardinality(LidHolders') <= LidTotal
          /\ \A u \in Users : Cardinality(LidHoldersOf(u)') <= LidPerUser
      BY <1>2, <3>1, GrowsWithinBound, CountedSetsAreFinite, CeilingsType
         DEF LidWithinCap
    <3> QED  BY <3>2 DEF LidWithinCap
  <2>5. CASE UNCHANGED registryVars
    BY <2>2, <2>5 DEF registryVars
  <2> QED  BY <1>2, <2>1, <2>3, <2>4, <2>5 DEF RegistryNext
<1> QED  BY <1>1, <1>2, RegistryTypeCorrect, PTL DEF RegistrySpec

(* GoneHoldsNothing for any number of sockets: a disconnect frees every     *)
(* turn and slot of its socket at once, and nothing gives it one again.     *)
THEOREM GoneAlwaysHoldsNothing == RegistrySpec => []GoneHoldsNothing
<1>1. RegistryInit => GoneHoldsNothing
  BY DEF RegistryInit, GoneHoldsNothing
<1>2. ASSUME RegistryTypeOK, GoneHoldsNothing, [RegistryNext]_registryVars
      PROVE  GoneHoldsNothing'
  <2> USE <1>2 DEF GoneHoldsNothing, OfSocket, RegistryTypeOK
  <2>1. ASSUME NEW s \in Sockets, NEW t \in Turns, NEW meets \in BOOLEAN,
               NEW mode \in Modes, Start(s, t, meets, mode)
        PROVE  GoneHoldsNothing'
    BY <2>1 DEF Start, LidAfterAsking
  <2>2. ASSUME NEW s \in Sockets, NEW t \in Turns, NEW meets \in BOOLEAN,
               NEW mode \in Modes, RefuseLanguage(s, t, meets, mode)
        PROVE  GoneHoldsNothing'
    BY <2>2 DEF RefuseLanguage, LidAfterAsking
  <2>3. ASSUME NEW closing \in SUBSET open, CloseTurns(closing)
        PROVE  GoneHoldsNothing'
    BY <2>3 DEF CloseTurns
  <2>4. ASSUME NEW s \in Sockets, Disconnect(s)
        PROVE  GoneHoldsNothing'
    BY <2>4 DEF Disconnect
  <2>5. CASE UNCHANGED registryVars
    BY <2>5 DEF registryVars
  <2> QED  BY <2>1, <2>2, <2>3, <2>4, <2>5 DEF RegistryNext
<1> QED  BY <1>1, <1>2, RegistryTypeCorrect, PTL DEF RegistrySpec
=============================================================================
