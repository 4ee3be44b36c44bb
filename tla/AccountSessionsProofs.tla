------------------------ MODULE AccountSessionsProofs ------------------------
(***************************************************************************)
(* The sessions of an account for any clients, lifetimes and number of     *)
(* requests in flight.  What a password change ends and what it keeps      *)
(* rests on one fact about seconds: no family is ever issued later than    *)
(* both the clock and the stamp, so the next stamp is after all of them.   *)
(* That nobody is taken for a thief rests on whose a family is and on how  *)
(* soon an old pair is out of use once a new one came; that a phone is     *)
(* refused for a reason, on what was lost of each token it may present.    *)
(***************************************************************************)
EXTENDS AccountSessions, TLAPS

StoreOK ==
    /\ now \in Nat
    /\ fams \in Seq(Families)
    /\ toks \in Seq(Leaves)
    /\ \A t \in 1 .. Len(toks) : toks[t].fam \in 1 .. Len(fams)

(* Nothing a family was minted with changes, nor whose token a token is.   *)
StoreGrows ==
    /\ Len(fams') >= Len(fams) /\ Len(toks') >= Len(toks)
    /\ \A f \in 1 .. Len(fams) :
           /\ fams'[f].issuedAt = fams[f].issuedAt
           /\ fams'[f].under = fams[f].under
           /\ fams'[f].by = fams[f].by
    /\ \A t \in 1 .. Len(toks) : toks'[t].fam = toks[t].fam

-----------------------------------------------------------------------------
(* A rotation adds at most a leaf, to the family it was asked of.          *)
LEMMA RotateGrows ==
    ASSUME StoreOK, NEW t \in 1 .. Len(toks), RotateToken(t), now' = now
    PROVE  /\ StoreOK' /\ StoreGrows
           /\ Len(fams') = Len(fams)
           /\ Verdict(t) \in Renewing =>
                  /\ Len(toks') = Len(toks) + 1
                  /\ toks'[Len(toks) + 1].fam = toks[t].fam
           /\ Verdict(t) \notin Renewing => toks' = toks
<1> DEFINE f == toks[t].fam
<1>1. f \in 1 .. Len(fams) /\ toks[t] \in Leaves /\ fams[f] \in Families
  BY DEF StoreOK
<1>2. /\ FamilyAfter(t) \in Seq(Families)
      /\ Len(FamilyAfter(t)) = Len(fams)
      /\ \A g \in 1 .. Len(fams) :
             /\ FamilyAfter(t)[g].issuedAt = fams[g].issuedAt
             /\ FamilyAfter(t)[g].under = fams[g].under
             /\ FamilyAfter(t)[g].by = fams[g].by
  <2>1. \/ FamilyAfter(t) = fams
        \/ FamilyAfter(t) = [fams EXCEPT ![f].lastUsedGen = toks[t].gen]
        \/ FamilyAfter(t) = [fams EXCEPT ![f].epoch = @ + 1]
        \/ FamilyAfter(t) = [fams EXCEPT ![f].revoked = "reuse"]
    BY DEF FamilyAfter
  <2>2. \E family \in Families :
            /\ family.issuedAt = fams[f].issuedAt
            /\ family.under = fams[f].under /\ family.by = fams[f].by
            /\ FamilyAfter(t) = fams \/ FamilyAfter(t) = [fams EXCEPT ![f] = family]
    <3>1. CASE FamilyAfter(t) = fams
      BY <1>1, <3>1
    <3>2. CASE FamilyAfter(t) = [fams EXCEPT ![f].lastUsedGen = toks[t].gen]
      <4> DEFINE family == [fams[f] EXCEPT !.lastUsedGen = toks[t].gen]
      <4>1. /\ family \in Families /\ family.issuedAt = fams[f].issuedAt
            /\ family.under = fams[f].under /\ family.by = fams[f].by
        BY <1>1 DEF Families, Leaves, Reasons
      <4>2. FamilyAfter(t) = [fams EXCEPT ![f] = family]
        BY <1>1, <3>2
      <4> QED  BY <4>1, <4>2
    <3>3. CASE FamilyAfter(t) = [fams EXCEPT ![f].epoch = @ + 1]
      <4> DEFINE family == [fams[f] EXCEPT !.epoch = @ + 1]
      <4>1. /\ family \in Families /\ family.issuedAt = fams[f].issuedAt
            /\ family.under = fams[f].under /\ family.by = fams[f].by
        BY <1>1, SMTT(20) DEF Families, Reasons
      <4>2. FamilyAfter(t) = [fams EXCEPT ![f] = family]
        BY <1>1, <3>3
      <4> QED  BY <4>1, <4>2
    <3>4. CASE FamilyAfter(t) = [fams EXCEPT ![f].revoked = "reuse"]
      <4> DEFINE family == [fams[f] EXCEPT !.revoked = "reuse"]
      <4>1. /\ family \in Families /\ family.issuedAt = fams[f].issuedAt
            /\ family.under = fams[f].under /\ family.by = fams[f].by
        BY <1>1 DEF Families, Leaves, Reasons
      <4>2. FamilyAfter(t) = [fams EXCEPT ![f] = family]
        BY <1>1, <3>4
      <4> QED  BY <4>1, <4>2
    <3> QED  BY <2>1, <3>1, <3>2, <3>3, <3>4
  <2> QED  BY SMTT(30), <1>1, <2>2 DEF StoreOK
<1>3. /\ Spent(t) \in Seq(Leaves)
      /\ Len(Spent(t)) = Len(toks)
      /\ \A u \in 1 .. Len(toks) : Spent(t)[u].fam = toks[u].fam
  <2>1. CASE Spent(t) = toks
    BY <2>1 DEF StoreOK
  <2>2. CASE Spent(t) # toks
    <3> DEFINE leaf == [toks[t] EXCEPT !.status = "spent", !.spentAt = now]
    <3>1. leaf \in Leaves /\ leaf.fam = toks[t].fam
      BY <1>1 DEF Leaves, StoreOK
    <3>2. Spent(t) = [toks EXCEPT ![t] = leaf]
      BY <1>1, <2>2 DEF Spent, StoreOK, Leaves
    <3> HIDE DEF leaf
    <3> QED  BY <3>1, <3>2 DEF StoreOK
  <2> QED  BY <2>1, <2>2
<1>4. Successor(t) \in Leaves /\ Successor(t).fam = f
  <2>1. FamilyAfter(t)[f] \in Families
    BY <1>1, <1>2
  <2> QED  BY SMTT(30), <1>1, <2>1 DEF Successor, NewLeaf, Leaves, Families
<1>5. CASE Verdict(t) \in Renewing
  <2>1. toks' = Append(Spent(t), Successor(t)) /\ fams' = FamilyAfter(t)
    BY <1>5 DEF RotateToken
  <2>2. toks' \in Seq(Leaves) /\ Len(toks') = Len(toks) + 1
    BY <2>1, <1>3, <1>4
  <2>3. /\ \A u \in 1 .. Len(toks) : toks'[u].fam = toks[u].fam
        /\ toks'[Len(toks) + 1].fam = f
    BY <2>1, <1>3, <1>4 DEF StoreOK
  <2>4. \A u \in 1 .. Len(toks') : toks'[u].fam \in 1 .. Len(fams')
    <3> TAKE u \in 1 .. Len(toks')
    <3>1. Len(fams') = Len(fams) /\ Len(toks) \in Nat
      BY <2>1, <1>2 DEF StoreOK
    <3>2. CASE u \in 1 .. Len(toks)
      BY <3>1, <3>2, <2>3 DEF StoreOK
    <3>3. CASE u = Len(toks) + 1
      BY <3>1, <3>3, <2>3, <1>1
    <3> QED  BY <3>1, <3>2, <3>3, <2>2
  <2> QED  BY SMTT(30), <1>5, <2>1, <2>2, <2>3, <2>4, <1>2 DEF StoreOK, StoreGrows
<1>6. CASE Verdict(t) \notin Renewing
  BY <1>6, <1>2 DEF RotateToken, StoreOK, StoreGrows
<1> QED  BY <1>5, <1>6

(* A new family comes with its first leaf, and touches no other.           *)
LEMMA IssueGrows ==
    ASSUME StoreOK, now' = now, NEW at \in Nat, NEW under \in Nat,
           NEW by \in {"login", "change"}, IssueFamily(at, under, by)
    PROVE  /\ StoreOK' /\ StoreGrows
           /\ Len(toks') = Len(toks) + 1 /\ Len(fams') = Len(fams) + 1
           /\ toks'[Len(toks) + 1].fam = Len(fams) + 1
           /\ fams'[Len(fams) + 1].issuedAt = at
           /\ fams'[Len(fams) + 1].under = under
           /\ fams'[Len(fams) + 1].by = by
<1> DEFINE family == [issuedAt |-> at, revoked |-> "no", lastUsedGen |-> 0,
                      epoch |-> 0, under |-> under, by |-> by]
           leaf == NewLeaf(Len(fams) + 1, 1, 0)
<1>1. family \in Families
  BY DEF Families, Reasons
<1>2. leaf \in Leaves /\ leaf.fam = Len(fams) + 1
  BY DEF StoreOK, NewLeaf, Leaves
<1>3. fams' = Append(fams, family) /\ toks' = Append(toks, leaf)
  BY DEF IssueFamily
<1> HIDE DEF leaf
<1>4. /\ fams' \in Seq(Families) /\ Len(fams') = Len(fams) + 1
      /\ \A f \in 1 .. Len(fams) : fams'[f] = fams[f]
      /\ fams'[Len(fams) + 1] = family
  BY <1>1, <1>3 DEF StoreOK
<1>5. /\ toks' \in Seq(Leaves) /\ Len(toks') = Len(toks) + 1
      /\ \A t \in 1 .. Len(toks) : toks'[t] = toks[t]
      /\ toks'[Len(toks) + 1] = leaf
  BY <1>2, <1>3 DEF StoreOK
<1>6. \A t \in 1 .. Len(toks') : toks'[t].fam \in 1 .. Len(fams')
  <2> TAKE t \in 1 .. Len(toks')
  <2>1. Len(fams') = Len(fams) + 1 /\ Len(toks) \in Nat /\ Len(fams) \in Nat
    BY <1>4 DEF StoreOK
  <2>2. CASE t \in 1 .. Len(toks)
    <3>1. toks'[t].fam = toks[t].fam /\ toks[t].fam \in 1 .. Len(fams)
      BY <2>2, <1>5 DEF StoreOK
    <3> QED  BY <3>1, <2>1
  <2>3. CASE t = Len(toks) + 1
    BY <2>1, <2>3, <1>2, <1>5
  <2> QED  BY <2>1, <2>2, <2>3, <1>5
<1> QED  BY <1>2, <1>4, <1>5, <1>6 DEF StoreOK, StoreGrows

(* Revoking a family leaves its other fields, and every other family.      *)
LEMMA RevokeGrows ==
    ASSUME StoreOK, now' = now, toks' = toks, NEW f \in 1 .. Len(fams),
           NEW why \in Reasons, fams' \in {fams, Revoked(f, why)}
    PROVE  StoreOK' /\ StoreGrows /\ Len(fams') = Len(fams)
<1> DEFINE family == [fams[f] EXCEPT !.revoked = why]
<1>1. /\ family \in Families /\ family.issuedAt = fams[f].issuedAt
      /\ family.under = fams[f].under /\ family.by = fams[f].by
  <2>1. fams[f] \in Families
    BY DEF StoreOK
  <2> QED  BY <2>1 DEF Families
<1>2. fams' = fams \/ fams' = [fams EXCEPT ![f] = family]
  BY DEF Revoked
<1> HIDE DEF family
<1>3. /\ fams' \in Seq(Families) /\ Len(fams') = Len(fams)
      /\ \A g \in 1 .. Len(fams) :
             /\ fams'[g].issuedAt = fams[g].issuedAt
             /\ fams'[g].under = fams[g].under
             /\ fams'[g].by = fams[g].by
  BY <1>1, <1>2 DEF StoreOK
<1> QED  BY <1>3 DEF StoreOK, StoreGrows

LEMMA StoreKept ==
    ASSUME StoreOK, now' \in Nat, UNCHANGED <<fams, toks>>
    PROVE  StoreOK' /\ StoreGrows
BY DEF StoreOK, StoreGrows

(* What the clients hold and ask for, apart from the store.                *)
ClientsOK ==
    /\ held \in [Clients -> Pairs]
    /\ \A c \in Clients : SignedIn(c) => Leaf(held[c].tok)
    /\ request \in [Requests -> Asking]
    /\ \A r \in Requests :
           request[r].st # "idle" =>
               /\ request[r].client \in Clients
               /\ Leaf(request[r].old.tok)
               /\ request[r].st \in {"rotated", "renewed"} =>
                      Leaf(request[r].new.tok)

AccountOK ==
    /\ password \in Nat /\ stamp \in Nat /\ pushed \in Nat /\ stale \in Nat
    /\ checking \in [Clients -> Nat]
    /\ resetting \in Resetting
    /\ spared \subseteq Nat
    /\ change \in Changing
    /\ change # NoChange => change.client \in Clients

LEMMA TypeParts ==
    TypeOK <=> /\ bound \in Bounds /\ kindOf \in [Clients -> {"web", "phone"}]
               /\ StoreOK /\ ClientsOK /\ AccountOK
               /\ lost \in Seq(Nat) /\ Len(lost) = Len(toks)
BY DEF TypeOK, StoreOK, ClientsOK, AccountOK

(* A pair that named a token still does.                                   *)
LEMMA ClientsKept ==
    ASSUME StoreOK, ClientsOK, StoreOK', StoreGrows, UNCHANGED <<held, request>>
    PROVE  ClientsOK'
<1>1. \A n : Leaf(n) => Leaf(n)'
  BY DEF Leaf, StoreOK, StoreGrows
<1> QED  BY <1>1 DEF ClientsOK, SignedIn

(* A client may write a pair that names a token, or none.                  *)
LEMMA HeldWritten ==
    ASSUME StoreOK, ClientsOK, StoreOK', StoreGrows, NEW c \in Clients,
           NEW pair \in Pairs, held' = [held EXCEPT ![c] = pair],
           pair.tok # 0 => pair.tok \in 1 .. Len(toks'), request' = request
    PROVE  ClientsOK'
<1>1. \A n : Leaf(n) => n \in 1 .. Len(toks')
  BY DEF Leaf, StoreOK, StoreGrows
<1> QED  BY <1>1 DEF ClientsOK, SignedIn, Leaf

(* A request moves on.                                                     *)
LEMMA RequestWritten ==
    ASSUME StoreOK, ClientsOK, StoreOK', StoreGrows, NEW r \in Requests,
           NEW q \in Asking, request' = [request EXCEPT ![r] = q],
           q.st # "idle" => /\ q.client \in Clients
                            /\ q.old.tok \in 1 .. Len(toks')
                            /\ q.st \in {"rotated", "renewed"} =>
                                   q.new.tok \in 1 .. Len(toks'),
           held' = held
    PROVE  ClientsOK'
<1>1. \A n : Leaf(n) => n \in 1 .. Len(toks')
  BY DEF Leaf, StoreOK, StoreGrows
<1>2. request' \in [Requests -> Asking]
  BY DEF ClientsOK
<1>3. \A x \in Requests :
          request'[x].st # "idle" =>
              /\ request'[x].client \in Clients
              /\ request'[x].old.tok \in 1 .. Len(toks')
              /\ request'[x].st \in {"rotated", "renewed"} =>
                     request'[x].new.tok \in 1 .. Len(toks')
  <2> TAKE x \in Requests
  <2>1. CASE x = r
    BY <2>1 DEF ClientsOK
  <2>2. CASE x # r
    BY <2>2, <1>1 DEF ClientsOK
  <2> QED  BY <2>1, <2>2
<1>4. \A c \in Clients : held'[c].tok # 0 => held'[c].tok \in 1 .. Len(toks')
  BY <1>1 DEF ClientsOK, SignedIn
<1> QED  BY <1>2, <1>3, <1>4 DEF ClientsOK, SignedIn, Leaf

-----------------------------------------------------------------------------
(* Each step keeps the types, and changes nothing of what was minted.      *)
Typed == TypeOK' /\ StoreGrows

LEMMA PartsTyped ==
    ASSUME TypeOK, UNCHANGED fixed, StoreOK', StoreGrows, ClientsOK', AccountOK',
           lost' \in Seq(Nat), Len(lost') = Len(toks')
    PROVE  Typed
BY DEF TypeOK, StoreOK, ClientsOK, AccountOK, Typed, fixed, Leaf, SignedIn

(* A session is minted from an account's facts.                            *)
LEMMA SessionTyped ==
    ASSUME TypeOK, NEW c \in Clients, NEW at \in Nat, NEW under \in Nat,
           NEW by \in {"login", "change"}, SessionFor(c, at, under, by),
           now' = now, request' = request, UNCHANGED fixed, AccountOK'
    PROVE  Typed
<1>1. /\ StoreOK' /\ StoreGrows /\ Len(toks') = Len(toks) + 1
  BY TypeParts, IssueGrows DEF SessionFor
<1>2. Len(toks) \in Nat
  BY DEF TypeOK
<1> DEFINE pair == [tok |-> Len(toks) + 1, iat |-> at]
<1>3. pair \in Pairs /\ pair.tok \in 1 .. Len(toks')
  BY <1>1, <1>2 DEF Pairs
<1>4. held' = [held EXCEPT ![c] = pair]
  BY DEF SessionFor
<1> HIDE DEF pair
<1>5. ClientsOK'
  BY <1>1, <1>3, <1>4, TypeParts, HeldWritten
<1>6. lost \in Seq(Nat) /\ Len(lost) = Len(toks)
  BY DEF TypeOK
<1>7. lost' \in Seq(Nat) /\ Len(lost') = Len(toks')
  BY <1>1, <1>6 DEF SessionFor
<1> QED  BY <1>1, <1>5, <1>7, PartsTyped

LEMMA AccountKept ==
    ASSUME TypeOK, UNCHANGED <<account, pending>>, pushed' \in Nat, stale' \in Nat
    PROVE  AccountOK'
BY TypeParts DEF AccountOK, account, pending, NoChange

(* A login that completes may be one that a write does not end.            *)
LEMMA PassingTyped ==
    ASSUME TypeOK, NEW f \in Nat
    PROVE  /\ Passing(change, f) \in Changing
           /\ Passing(change, f).client = change.client
           /\ Passing(change, f) # NoChange => change # NoChange
           /\ Passing(resetting, f) \in Resetting
<1>1. change \in Changing /\ resetting \in Resetting
  BY DEF TypeOK
<1>2. Passing(change, f) \in Changing /\ Passing(change, f).client = change.client
  BY <1>1 DEF Passing, Changing
<1>3. Passing(resetting, f) \in Resetting
  BY <1>1 DEF Passing, Resetting
<1>4. Passing(change, f) # NoChange => change # NoChange
  BY DEF Passing, NoChange
<1> QED  BY <1>2, <1>3, <1>4

LEMMA LoginTyped ==
    ASSUME TypeOK, NEW c \in Clients, Login(c)
    PROVE  Typed
<1>1. now \in Nat /\ checking[c] \in Nat /\ Len(fams) + 1 \in Nat
  BY DEF TypeOK
<1>2. checking' \in [Clients -> Nat] /\ spared' \subseteq Nat
  BY <1>1 DEF Login, TypeOK
<1>3. change' = Passing(change, Len(fams) + 1)
      /\ resetting' = Passing(resetting, Len(fams) + 1)
  BY DEF Login
<1>4. UNCHANGED <<password, stamp, pushed, stale>>
  BY DEF Login, account
<1>5. /\ change' \in Changing /\ resetting' \in Resetting
      /\ change' # NoChange => change'.client \in Clients
  BY <1>1, <1>3, PassingTyped DEF TypeOK
<1>6. AccountOK'
  BY <1>2, <1>4, <1>5 DEF AccountOK, TypeOK, NoChange
<1> QED  BY <1>1, <1>6, SessionTyped DEF Login

LEMMA MintChangeTyped ==
    ASSUME TypeOK, MintChange
    PROVE  Typed
<1>1. change.client \in Clients /\ change.at \in Nat /\ change.from + 1 \in Nat
  BY DEF MintChange, NoChange, TypeOK, Changing
<1>2. AccountOK'
  BY TypeParts DEF MintChange, AccountOK, account, NoChange, Changing
<1> QED  BY <1>1, <1>2, SessionTyped DEF MintChange

LEMMA SignOutTyped ==
    ASSUME TypeOK, NEW c \in Clients, SignOut(c)
    PROVE  Typed
<1>1. toks[held[c].tok].fam \in 1 .. Len(fams)
  BY DEF TypeOK, SignOut, Leaf
<1>2. StoreOK' /\ StoreGrows
  BY <1>1, TypeParts, RevokeGrows DEF SignOut, Reasons
<1>3. SignedOut \in Pairs
  BY DEF SignedOut, Pairs
<1>4. ClientsOK'
  BY <1>2, <1>3, TypeParts, HeldWritten DEF SignOut, SignedOut
<1>5. AccountOK'
  BY AccountKept DEF SignOut, tallies, TypeOK
<1> QED  BY <1>2, <1>4, <1>5, PartsTyped DEF SignOut, tallies, TypeOK

-----------------------------------------------------------------------------
LEMMA SendTyped ==
    ASSUME TypeOK, NEW r \in Requests, NEW c \in Clients,
           NEW st \in {"asked", "failed"}, Send(r, c, st), SignedIn(c),
           UNCHANGED <<fixed, store, account, pending, held, stale, lost>>,
           pushed' \in Nat
    PROVE  Typed
<1>1. StoreOK' /\ StoreGrows
  BY TypeParts, StoreKept DEF store, StoreOK
<1> DEFINE q == [client |-> c, st |-> st, old |-> held[c], new |-> SignedOut,
                 sentAt |-> now]
<1>2. q \in Asking /\ q.client \in Clients /\ q.old.tok \in 1 .. Len(toks')
  BY DEF TypeOK, Asking, SignedOut, Pairs, Leaf, store
<1>3. q.st \notin {"rotated", "renewed"}
  OBVIOUS
<1>4. request' = [request EXCEPT ![r] = q]
  BY DEF Send
<1> HIDE DEF q
<1>5. ClientsOK'
  BY <1>1, <1>2, <1>3, <1>4, TypeParts, RequestWritten
<1>6. AccountOK'
  BY AccountKept DEF TypeOK
<1> QED  BY <1>1, <1>5, <1>6, PartsTyped DEF TypeOK, store

LEMMA AsksTyped ==
    ASSUME TypeOK, NEW r \in Requests, NEW c \in Clients,
           \/ \E forced \in BOOLEAN : Visit(r, c, forced)
           \/ GetAccessToken(r, c)
    PROVE  Typed
<1>1. ASSUME NEW forced \in BOOLEAN, Visit(r, c, forced)
      PROVE  Typed
  <2>1. pushed' \in Nat
    BY <1>1 DEF Visit, TypeOK
  <2> QED  BY <1>1, <2>1, SendTyped DEF Visit
<1>2. CASE GetAccessToken(r, c)
  BY <1>2, SendTyped DEF GetAccessToken, tallies, TypeOK
<1> QED  BY <1>1, <1>2

(* A request in flight names a token, and its fields have their types.     *)
LEMMA InFlightTyped ==
    ASSUME TypeOK, NEW r \in Requests, request[r].st # "idle"
    PROVE  /\ request[r] \in Asking /\ request[r].client \in Clients
           /\ request[r].old.tok \in 1 .. Len(toks)
           /\ request[r].old \in Pairs /\ request[r].new \in Pairs
           /\ toks[request[r].old.tok].fam \in 1 .. Len(fams)
           /\ request[r].st \in {"rotated", "renewed"} =>
                  /\ request[r].new.tok \in 1 .. Len(toks)
                  /\ toks[request[r].new.tok].fam \in 1 .. Len(fams)
BY DEF TypeOK, Asking, Leaf

(* A request that only moves on, the store and the clients left alone.     *)
LEMMA RequestTyped ==
    ASSUME TypeOK, NEW r \in Requests, NEW q \in Asking,
           request' = [request EXCEPT ![r] = q],
           q.st # "idle" => /\ q.client \in Clients
                            /\ q.old.tok \in 1 .. Len(toks')
                            /\ q.st \in {"rotated", "renewed"} =>
                                   q.new.tok \in 1 .. Len(toks'),
           StoreOK', StoreGrows, UNCHANGED <<fixed, account, pending, held>>,
           pushed' \in Nat, stale' \in Nat, lost' \in Seq(Nat),
           Len(lost') = Len(toks')
    PROVE  Typed
<1>1. ClientsOK'
  BY TypeParts, RequestWritten
<1>2. AccountOK'
  BY AccountKept
<1> QED  BY <1>1, <1>2, PartsTyped

LEMMA RotateTyped ==
    ASSUME TypeOK, NEW r \in Requests, Rotate(r)
    PROVE  Typed
<1> DEFINE t == request[r].old.tok
           renewed == Verdict(t) \in Renewing
           q == [request[r] EXCEPT
                     !.st = IF renewed THEN "rotated" ELSE "refused",
                     !.new = IF renewed THEN [tok |-> Len(toks) + 1, iat |-> 0]
                             ELSE SignedOut]
<1>1. t \in 1 .. Len(toks) /\ request[r] \in Asking /\ request[r].client \in Clients
  BY InFlightTyped DEF Rotate
<1>2. now' = now /\ RotateToken(t)
  BY DEF Rotate
<1>3. /\ StoreOK' /\ StoreGrows
      /\ renewed => Len(toks') = Len(toks) + 1
      /\ ~renewed => toks' = toks
  BY <1>1, <1>2, TypeParts, RotateGrows
<1>4. lost' \in Seq(Nat) /\ Len(lost') = Len(toks')
  BY <1>3 DEF Rotate, TypeOK
<1>5. request' = [request EXCEPT ![r] = q]
  BY DEF Rotate, TypeOK, Asking
<1>6. Len(toks) \in Nat
  BY DEF TypeOK
<1>7. /\ q \in Asking /\ q.client \in Clients
      /\ q.old.tok \in 1 .. Len(toks')
      /\ q.st = "rotated" => renewed
      /\ renewed => q.new.tok = Len(toks) + 1
      /\ q.st # "renewed"
  <2>1. t = request[r].old.tok
    OBVIOUS
  <2> HIDE DEF renewed, t
  <2>2. CASE renewed
    <3> DEFINE pair == [tok |-> Len(toks) + 1, iat |-> 0]
    <3>1. pair \in Pairs /\ pair.tok = Len(toks) + 1
      BY <1>6 DEF Pairs
    <3>2. q = [request[r] EXCEPT !.st = "rotated", !.new = pair]
      BY <2>2
    <3> HIDE DEF q, pair
    <3>3. q \in Asking /\ q.client = request[r].client /\ q.old = request[r].old
          /\ q.st = "rotated" /\ q.new = pair
      BY <1>1, <3>1, <3>2 DEF Asking
    <3>4. Len(toks') = Len(toks) + 1
      BY <1>3, <2>2
    <3> QED  BY <1>1, <1>6, <2>1, <2>2, <3>1, <3>3, <3>4
  <2>3. CASE ~renewed
    <3>1. q = [request[r] EXCEPT !.st = "refused", !.new = SignedOut]
      BY <2>3
    <3> QED  BY <1>1, <1>3, <1>6, <2>1, <2>3, <3>1 DEF Asking, Pairs, SignedOut
  <2> QED  BY <2>2, <2>3
<1>8. pushed' \in Nat /\ stale' \in Nat /\ UNCHANGED <<fixed, account, pending, held>>
  BY DEF Rotate, TypeOK
<1> HIDE DEF q, t, renewed
<1>9. q.st \in {"rotated", "renewed"} => q.new.tok \in 1 .. Len(toks')
  BY <1>3, <1>6, <1>7
<1> QED  BY <1>3, <1>4, <1>5, <1>7, <1>8, <1>9, RequestTyped

LEMMA GateTyped ==
    ASSUME TypeOK, NEW r \in Requests, Gate(r)
    PROVE  Typed
<1> DEFINE f == toks[request[r].new.tok].fam
           refused == IsRevokedByPasswordChange(fams[f].issuedAt)
           q == [request[r] EXCEPT
                     !.st = IF refused THEN "refused" ELSE "renewed",
                     !.new.iat = IssuedAt(f)]
<1>1. /\ request[r] \in Asking /\ request[r].client \in Clients
      /\ request[r].old.tok \in 1 .. Len(toks)
      /\ request[r].new.tok \in 1 .. Len(toks)
      /\ f \in 1 .. Len(fams)
  BY InFlightTyped DEF Gate
<1>2. StoreOK' /\ StoreGrows
  <2>1. now' = now /\ toks' = toks /\ fams' \in {fams, Revoked(f, "password")}
    BY DEF Gate
  <2> QED  BY <1>1, <2>1, TypeParts, RevokeGrows DEF Reasons
<1>3. IssuedAt(f) \in Nat
  <2>1. fams[f] \in Families /\ now \in Nat
    BY <1>1 DEF TypeOK
  <2>2. fams[f].issuedAt \in Nat
    BY <2>1 DEF Families
  <2> QED  BY <2>1, <2>2 DEF IssuedAt
<1>4. q \in Asking /\ q.client \in Clients
  BY <1>1, <1>3 DEF Asking, Pairs
<1>5. q.old = request[r].old /\ q.new.tok = request[r].new.tok
  BY <1>1 DEF Asking, Pairs
<1>6. request' = [request EXCEPT ![r] = q]
  BY <1>1 DEF Gate, TypeOK, Asking, Pairs
<1>7. /\ UNCHANGED <<fixed, account, pending, held, lost>> /\ toks' = toks
      /\ pushed' \in Nat /\ stale' \in Nat
  BY DEF Gate, tallies, TypeOK
<1> HIDE DEF q
<1>8. lost' \in Seq(Nat) /\ Len(lost') = Len(toks')
  BY <1>7 DEF TypeOK
<1> QED  BY <1>1, <1>2, <1>4, <1>5, <1>6, <1>7, <1>8, RequestTyped

LEMMA FailTyped ==
    ASSUME TypeOK, NEW r \in Requests, Fail(r)
    PROVE  Typed
<1> DEFINE q == [request[r] EXCEPT !.st = "failed"]
<1>1. /\ request[r] \in Asking /\ request[r].client \in Clients
      /\ request[r].old.tok \in 1 .. Len(toks)
  BY InFlightTyped DEF Fail
<1>2. StoreOK' /\ StoreGrows /\ toks' = toks
  BY TypeParts, StoreKept DEF store, StoreOK, Fail
<1>3. /\ q \in Asking /\ q.client \in Clients /\ q.old = request[r].old
      /\ q.st = "failed"
  BY <1>1 DEF Asking
<1>4. lost' \in Seq(Nat) /\ Len(lost') = Len(toks')
  BY SMTT(30), <1>1, <1>2 DEF Fail, TypeOK
<1>5. request' = [request EXCEPT ![r] = q]
  BY DEF Fail, TypeOK, Asking
<1>6. UNCHANGED <<fixed, account, pending, held>> /\ pushed' \in Nat /\ stale' \in Nat
  BY DEF Fail, TypeOK
<1> HIDE DEF q
<1> QED  BY <1>1, <1>2, <1>3, <1>4, <1>5, <1>6, RequestTyped

LEMMA IdleTyped == Idle \in Asking
BY DEF Idle, Asking, SignedOut, Pairs

LEMMA LoseCookieTyped ==
    ASSUME TypeOK, NEW r \in Requests, LoseCookie(r)
    PROVE  Typed
<1>1. request[r].old.tok \in 1 .. Len(toks)
  BY InFlightTyped DEF LoseCookie
<1>2. StoreOK' /\ StoreGrows /\ toks' = toks
  BY TypeParts, StoreKept DEF store, StoreOK, LoseCookie
<1>3. lost' \in Seq(Nat) /\ Len(lost') = Len(toks')
  BY <1>1, <1>2 DEF LoseCookie, TypeOK
<1>4. request' = [request EXCEPT ![r] = Idle] /\ Idle.st = "idle"
  BY DEF LoseCookie, Idle
<1>5. UNCHANGED <<fixed, account, pending, held>> /\ pushed' \in Nat /\ stale' \in Nat
  BY DEF LoseCookie, TypeOK
<1> QED  BY <1>2, <1>3, <1>4, <1>5, IdleTyped, RequestTyped

(* What a client writes when its request ends names a token, or none.      *)
LEMMA PairAfterTyped ==
    ASSUME TypeOK, NEW r \in Requests,
           request[r].st \in {"renewed", "refused", "failed"}
    PROVE  /\ PairAfter(r) \in Pairs
           /\ PairAfter(r).tok # 0 => PairAfter(r).tok \in 1 .. Len(toks)
<1>1. /\ request[r].client \in Clients
      /\ request[r].old \in Pairs /\ request[r].new \in Pairs
      /\ request[r].old.tok \in 1 .. Len(toks)
      /\ request[r].st = "renewed" => request[r].new.tok \in 1 .. Len(toks)
  BY InFlightTyped
<1>2. /\ held[request[r].client] \in Pairs
      /\ held[request[r].client].tok # 0 =>
             held[request[r].client].tok \in 1 .. Len(toks)
  BY <1>1 DEF TypeOK, SignedIn, Leaf
<1> QED  BY <1>1, <1>2 DEF PairAfter, SignedOut, Pairs

LEMMA LandTyped ==
    ASSUME TypeOK, NEW r \in Requests, Land(r)
    PROVE  Typed
<1> DEFINE c == request[r].client
           pair == PairAfter(r)
<1>1. c \in Clients
  BY InFlightTyped DEF Land
<1>2. StoreOK' /\ StoreGrows /\ toks' = toks
  BY TypeParts, StoreKept DEF store, StoreOK, Land
<1>3. pair \in Pairs /\ (pair.tok # 0 => pair.tok \in 1 .. Len(toks))
  BY PairAfterTyped DEF Land
<1>4. held' = [held EXCEPT ![c] = pair] /\ request' = [request EXCEPT ![r] = Idle]
  BY DEF Land
<1> HIDE DEF pair, c
<1>5. ClientsOK'
  BY <1>1, <1>2, <1>3, <1>4, IdleTyped
     DEF ClientsOK, SignedIn, Leaf, Idle, TypeOK
<1>6. AccountOK'
  BY AccountKept DEF Land, TypeOK
<1> QED  BY <1>2, <1>5, <1>6, PartsTyped DEF Land, TypeOK

-----------------------------------------------------------------------------
(* Steps that touch neither the store nor the clients.                     *)
LEMMA AccountTyped ==
    ASSUME TypeOK, UNCHANGED <<fixed, fams, toks, lost, held, request>>,
           now' \in Nat, AccountOK'
    PROVE  Typed
<1>1. StoreOK' /\ StoreGrows
  BY TypeParts, StoreKept
<1>2. ClientsOK'
  BY <1>1, TypeParts, ClientsKept
<1> QED  BY <1>1, <1>2, PartsTyped DEF TypeOK

LEMMA StampIsNat ==
    ASSUME TypeOK, NEW at \in Nat
    PROVE  /\ StampToWrite(at) \in Nat
           /\ StampToWrite(at) >= at /\ StampToWrite(at) > stamp
BY DEF TypeOK, StampToWrite

LEMMA StampedTyped ==
    ASSUME NEW at \in Nat
    PROVE  /\ change \in Changing => /\ Stamped(change, at) \in Changing
                                     /\ Stamped(change, at).client = change.client
           /\ resetting \in Resetting => Stamped(resetting, at) \in Resetting
<1>1. change \in Changing => /\ Stamped(change, at) \in Changing
                             /\ Stamped(change, at).client = change.client
  BY DEF Stamped, Changing
<1>2. resetting \in Resetting => Stamped(resetting, at) \in Resetting
  BY DEF Stamped, Resetting
<1> QED  BY <1>1, <1>2

LEMMA ChangesTyped ==
    ASSUME TypeOK,
           \/ \E c \in Clients : BeginLogin(c) \/ FailLogin(c) \/ BeginChange(c)
           \/ StampChange \/ WriteChange \/ FailChange
           \/ BeginReset \/ StampReset \/ WriteReset \/ FailReset
    PROVE  Typed
<1>1. AccountOK /\ now \in Nat
  BY TypeParts DEF TypeOK
<1> USE DEF AccountOK, tallies, account
<1>2. ASSUME NEW c \in Clients, BeginLogin(c) \/ FailLogin(c)  PROVE AccountOK'
  <2>1. checking' = [checking EXCEPT ![c] = password] \/ checking' = [checking EXCEPT ![c] = 0]
    BY <1>2 DEF BeginLogin, FailLogin
  <2>2. checking' \in [Clients -> Nat]
    BY <1>1, <2>1
  <2>3. UNCHANGED <<password, stamp, pushed, stale, change, resetting, spared>>
    BY <1>2 DEF BeginLogin, FailLogin
  <2> QED  BY <1>1, <2>2, <2>3 DEF NoChange
<1>3. ASSUME NEW c \in Clients, BeginChange(c)  PROVE AccountOK'
  BY <1>1, <1>3 DEF BeginChange, NoChange, Changing
<1>4. ASSUME StampChange  PROVE AccountOK'
  <2>1. change.client \in Clients
    BY <1>1, <1>4 DEF StampChange, NoChange
  <2>2. PICK at \in {now, now + 1} : change' = Stamped(change, at)
    BY <1>4 DEF StampChange
  <2>3. change' \in Changing /\ change'.client = change.client
    BY <1>1, <2>2, StampedTyped
  <2> QED  BY <1>1, <1>4, <2>1, <2>3 DEF StampChange
<1>5. ASSUME WriteChange  PROVE AccountOK'
  <2>1. /\ change.client \in Clients /\ change.at \in Nat
        /\ change.spared \subseteq Nat /\ change.st = "stamped"
    BY <1>1, <1>5 DEF WriteChange, NoChange, Changing
  <2>2. CASE password = change.from
    <3>1. change' = [change EXCEPT !.st = "written",
                                   !.at = StampToWrite(change.at), !.spared = {}]
      BY <1>5, <2>2 DEF WriteChange
    <3>2. change' \in Changing /\ change'.client = change.client
      BY <1>1, <2>1, <3>1, StampIsNat DEF Changing
    <3>3. password' \in Nat /\ stamp' \in Nat /\ spared' \subseteq Nat
      BY <1>1, <1>5, <2>1, <2>2, StampIsNat DEF WriteChange, UpdatePasswordHash
    <3> QED  BY <1>1, <1>5, <2>1, <3>2, <3>3 DEF WriteChange
  <2>3. CASE password # change.from
    BY <1>1, <1>5, <2>3 DEF WriteChange, NoChange, Changing
  <2> QED  BY <2>2, <2>3
<1>6. ASSUME FailChange  PROVE AccountOK'
  BY <1>1, <1>6, NoClientIsNone DEF FailChange, NoChange, Changing
<1>7. ASSUME BeginReset \/ FailReset  PROVE AccountOK'
  BY <1>1, <1>7 DEF BeginReset, FailReset, NoReset, Resetting
<1>8. ASSUME StampReset  PROVE AccountOK'
  <2>1. PICK at \in {now, now + 1} : resetting' = Stamped(resetting, at)
    BY <1>8 DEF StampReset
  <2>2. resetting' \in Resetting
    BY <1>1, <2>1, StampedTyped
  <2> QED  BY <1>1, <1>8, <2>2 DEF StampReset
<1>9. ASSUME WriteReset  PROVE AccountOK'
  <2>1. resetting.at \in Nat /\ resetting.spared \subseteq Nat
    BY <1>1 DEF Resetting
  <2>2. password' \in Nat /\ stamp' \in Nat /\ spared' \subseteq Nat
    BY <1>1, <1>9, <2>1, StampIsNat DEF WriteReset, UpdatePasswordHash
  <2>3. resetting' \in Resetting
    BY <1>9 DEF WriteReset, NoReset, Resetting
  <2> QED  BY <1>1, <1>9, <2>2, <2>3 DEF WriteReset
<1>10. AccountOK'
  BY <1>2, <1>3, <1>4, <1>5, <1>6, <1>7, <1>8, <1>9
<1>11. UNCHANGED <<fixed, fams, toks, lost, held, request, now>>
  BY DEF BeginLogin, FailLogin, BeginChange, StampChange, WriteChange, FailChange,
         BeginReset, StampReset, WriteReset, FailReset, store
<1> QED  BY <1>1, <1>10, <1>11, AccountTyped

LEMMA TickTyped ==
    ASSUME TypeOK, Tick
    PROVE  Typed
<1>1. AccountOK'
  BY AccountKept DEF Tick, TypeOK, tallies
<1>2. now' \in Nat
  BY DEF Tick, TypeOK
<1> QED  BY <1>1, <1>2, AccountTyped DEF Tick, tallies

LEMMA StepTyped ==
    ASSUME TypeOK, [Next]_vars
    PROVE  Typed
<1>1. CASE \E c \in Clients :
               BeginLogin(c) \/ Login(c) \/ FailLogin(c) \/ SignOut(c) \/ BeginChange(c)
  BY <1>1, LoginTyped, SignOutTyped, ChangesTyped
<1>2. CASE \E r \in Requests, c \in Clients, forced \in BOOLEAN : Visit(r, c, forced)
  BY <1>2, AsksTyped
<1>3. CASE \E r \in Requests, c \in Clients : GetAccessToken(r, c)
  BY <1>3, AsksTyped
<1>4. CASE \E r \in Requests :
               Rotate(r) \/ Gate(r) \/ Fail(r) \/ Land(r) \/ LoseCookie(r)
  BY <1>4, RotateTyped, GateTyped, FailTyped, LandTyped, LoseCookieTyped
<1>5. CASE \/ StampChange \/ WriteChange \/ FailChange
           \/ BeginReset \/ StampReset \/ WriteReset \/ FailReset
  BY <1>5, ChangesTyped
<1>6. CASE MintChange
  BY <1>6, MintChangeTyped
<1>7. CASE Tick
  BY <1>7, TickTyped
<1>8. CASE UNCHANGED vars
  <2>1. AccountOK'
    BY <1>8, AccountKept DEF vars, tallies, TypeOK
  <2> QED  BY <1>8, <2>1, AccountTyped DEF vars, store, tallies, TypeOK
<1> QED  BY <1>1, <1>2, <1>3, <1>4, <1>5, <1>6, <1>7, <1>8 DEF Next

(* The sessions' state keeps its shape: no pair a client holds or is sent  *)
(* names a token that was never minted, nor a token a family.              *)
THEOREM SessionsTypeCorrect == Spec => []TypeOK
<1>1. Init => TypeOK
  BY DEF Init, TypeOK, NoChange, NoReset, Changing, Resetting, Pairs, SignedOut,
         SignedIn, Idle, Asking
<1>2. TypeOK /\ [Next]_vars => TypeOK'
  BY StepTyped DEF Typed
<1> QED  BY <1>1, <1>2, PTL DEF Spec

-----------------------------------------------------------------------------
(***************************************************************************)
(* What a change of password ends and keeps.                               *)
(***************************************************************************)
(* Every family is of a password no later than the account's.  A login's   *)
(* is no later than the clock, a change's no later than the stamp; one of  *)
(* an earlier password is before the stamp unless the last write spared    *)
(* it; the one the current password came with is not.                      *)
FamilyDated(family, f) ==
    /\ family.under <= password
    /\ family.by = "login" => family.issuedAt <= now
    /\ family.by = "change" => family.issuedAt <= stamp
    /\ family.under < password /\ f \notin spared => family.issuedAt < stamp
    /\ family.by = "change" /\ family.under = password =>
           family.issuedAt >= stamp

FamiliesDated == \A f \in 1 .. Len(fams) : FamilyDated(fams[f], f)

(* The session a change is about to mint is dated as its family will be.   *)
ChangeDated ==
    change.st = "written" =>
        /\ change.at <= stamp
        /\ change.from + 1 <= password
        /\ change.from + 1 < password => change.at < stamp
        /\ change.from + 1 = password => change.at >= stamp

(* A write still to be committed knows the logins it will not end.         *)
WriteDated(write) ==
    write.st = "stamped" =>
        \A f \in 1 .. Len(fams) :
            fams[f].by = "login" /\ fams[f].issuedAt >= write.at => f \in write.spared

(* Nobody is checked against a password that is not there yet.             *)
LoginsDated == \A c \in Clients : checking[c] <= password

AccountDated ==
    /\ FamiliesDated /\ ChangeDated /\ LoginsDated
    /\ WriteDated(change) /\ WriteDated(resetting)

(* No access token is dated before the family that carries it.             *)
PairsDated ==
    /\ \A c \in Clients :
           SignedIn(c) => held[c].iat >= FamilyOf(held[c].tok).issuedAt
    /\ \A r \in Requests :
           request[r].st # "idle" =>
               /\ request[r].old.iat >= FamilyOf(request[r].old.tok).issuedAt
               /\ request[r].st = "renewed" =>
                      request[r].new.iat >= FamilyOf(request[r].new.tok).issuedAt

Dated == AccountDated /\ PairsDated

(* What was minted keeps its dates, and so does what is still to be.       *)
LEMMA FamilyKept ==
    ASSUME TypeOK, StoreGrows, NEW f \in 1 .. Len(fams)
    PROVE  /\ fams'[f].issuedAt = fams[f].issuedAt
           /\ fams'[f].under = fams[f].under /\ fams'[f].by = fams[f].by
           /\ fams[f].issuedAt \in Nat /\ fams[f].under \in Nat
           /\ fams[f].by \in {"login", "change"}
<1>1. fams[f] \in Families
  BY DEF TypeOK
<1> QED  BY <1>1 DEF StoreGrows, Families

LEMMA FamiliesKeepDates ==
    ASSUME TypeOK, FamiliesDated, StoreGrows, Len(fams') = Len(fams),
           now' \in Nat, now' >= now, UNCHANGED <<account, spared>>
    PROVE  FamiliesDated'
<1> SUFFICES ASSUME NEW f \in 1 .. Len(fams')  PROVE FamilyDated(fams[f], f)'
  BY DEF FamiliesDated
<1>1. FamilyDated(fams[f], f) /\ now \in Nat
  BY DEF FamiliesDated, TypeOK
<1> QED  BY <1>1, FamilyKept DEF FamilyDated, account

(* A stamp taken stays good while no session is minted.                    *)
LEMMA WriteKeepsDate ==
    ASSUME TypeOK, StoreGrows, Len(fams') = Len(fams), NEW write,
           WriteDated(write), NEW next, next = write \/ next.st # "stamped"
    PROVE  next.st = "stamped" =>
               \A f \in 1 .. Len(fams') :
                   fams'[f].by = "login" /\ fams'[f].issuedAt >= next.at =>
                       f \in next.spared
BY FamilyKept DEF WriteDated

(* Taken, a stamp is after every login there is.                           *)
LEMMA StampTaken ==
    ASSUME TypeOK, FamiliesDated, NEW at \in {now, now + 1}, Ceil(at),
           NEW f \in 1 .. Len(fams), fams[f].by = "login"
    PROVE  fams[f].issuedAt < at
<1>1. fams[f] \in Families /\ now \in Nat
  BY DEF TypeOK
<1>2. fams[f].issuedAt <= now /\ fams[f].issuedAt \in Nat
  BY <1>1 DEF FamiliesDated, FamilyDated, Families
<1> QED  BY <1>1, <1>2 DEF Ceil

(* A write ends every session there is but those it knows of.              *)
LEMMA StampEndsFamilies ==
    ASSUME TypeOK, FamiliesDated, UNCHANGED <<now, fams>>, NEW write,
           write.at \in Nat, WriteDated(write), write.st = "stamped",
           UpdatePasswordHash(write)
    PROVE  FamiliesDated'
<1>1. /\ stamp' >= write.at /\ stamp' > stamp /\ stamp' \in Nat /\ stamp \in Nat
      /\ password' = password + 1 /\ password \in Nat /\ spared' = write.spared
  BY StampIsNat DEF UpdatePasswordHash, TypeOK
<1> SUFFICES ASSUME NEW f \in 1 .. Len(fams)  PROVE FamilyDated(fams[f], f)'
  BY DEF FamiliesDated
<1>2. fams[f] \in Families /\ FamilyDated(fams[f], f)
  BY DEF TypeOK, FamiliesDated
<1>3. fams[f].issuedAt \in Nat /\ fams[f].by \in {"login", "change"}
      /\ fams[f].under \in Nat
  BY <1>2 DEF Families
<1>4. fams[f].by = "login" /\ f \notin write.spared => fams[f].issuedAt < write.at
  BY <1>3 DEF WriteDated
<1> QED  BY <1>1, <1>2, <1>3, <1>4 DEF FamilyDated

LEMMA WriteStepDated ==
    ASSUME TypeOK, AccountDated, WriteChange \/ WriteReset
    PROVE  AccountDated'
<1> USE DEF AccountDated
<1>1. /\ change \in Changing /\ resetting \in Resetting
      /\ password \in Nat /\ stamp \in Nat /\ checking \in [Clients -> Nat]
  BY DEF TypeOK
<1>2. change.at \in Nat /\ change.from \in Nat /\ resetting.at \in Nat
  BY <1>1 DEF Changing, Resetting
<1>3. UNCHANGED <<now, fams, checking>> /\ password' >= password /\ password' \in Nat
  BY <1>1 DEF WriteChange, WriteReset, UpdatePasswordHash, store, account
<1>4. LoginsDated'
  BY <1>1, <1>3 DEF LoginsDated
<1>5. CASE WriteReset
  <2>1. /\ UpdatePasswordHash(resetting) /\ resetting.st = "stamped"
        /\ change' = change /\ resetting' = NoReset
    BY <1>5 DEF WriteReset
  <2>2. FamiliesDated'
    BY <1>2, <1>3, <2>1, StampEndsFamilies
  <2>3. stamp' > stamp /\ stamp' \in Nat /\ password' = password + 1
    BY <1>2, <2>1, StampIsNat DEF UpdatePasswordHash
  <2>4. ChangeDated'
    BY <1>1, <1>2, <2>1, <2>3 DEF ChangeDated
  <2>5. WriteDated(change)' /\ WriteDated(resetting)'
    BY <1>3, <2>1 DEF WriteDated, NoReset
  <2> QED  BY <1>4, <2>2, <2>4, <2>5
<1>6. CASE WriteChange /\ password = change.from
  <2>1. /\ UpdatePasswordHash(change) /\ change.st = "stamped"
        /\ change' = [change EXCEPT !.st = "written",
                                    !.at = StampToWrite(change.at), !.spared = {}]
        /\ resetting' = resetting
    BY <1>6 DEF WriteChange
  <2>2. FamiliesDated'
    BY <1>2, <1>3, <2>1, StampEndsFamilies
  <2>3. /\ change'.at = StampToWrite(change.at) /\ change'.from = change.from
        /\ change'.st = "written"
    BY <1>1, <2>1 DEF Changing
  <2>4. stamp' = StampToWrite(change.at) /\ password' = password + 1
    BY <2>1 DEF UpdatePasswordHash
  <2>5. ChangeDated'
    BY <1>1, <1>2, <1>6, <2>3, <2>4, StampIsNat DEF ChangeDated
  <2>6. WriteDated(change)' /\ WriteDated(resetting)'
    BY <1>3, <2>1, <2>3 DEF WriteDated
  <2> QED  BY <1>4, <2>2, <2>5, <2>6
<1>7. CASE WriteChange /\ password # change.from
  <2>1. /\ change' = NoChange /\ UNCHANGED <<account, spared, resetting>>
    BY <1>7 DEF WriteChange
  <2>2. FamiliesDated'
    BY <1>3, <2>1 DEF FamiliesDated, FamilyDated, account
  <2>3. WriteDated(change)' /\ WriteDated(resetting)' /\ ChangeDated'
    BY <1>3, <2>1 DEF WriteDated, ChangeDated, NoChange
  <2> QED  BY <1>4, <2>2, <2>3
<1> QED  BY <1>5, <1>6, <1>7

(* A session that is minted brings dates of its own.                       *)
LEMMA FamilyJoins ==
    ASSUME TypeOK, FamiliesDated, NEW c \in Clients, NEW at \in Nat,
           NEW under \in Nat, NEW by \in {"login", "change"},
           SessionFor(c, at, under, by), UNCHANGED <<now, account>>,
           spared \subseteq spared',
           under <= password, by = "login" => at <= now,
           by = "change" => at <= stamp,
           under < password /\ Len(fams) + 1 \notin spared' => at < stamp,
           by = "change" /\ under = password => at >= stamp
    PROVE  FamiliesDated'
<1>1. /\ StoreGrows /\ Len(fams') = Len(fams) + 1
      /\ fams'[Len(fams) + 1].issuedAt = at
      /\ fams'[Len(fams) + 1].under = under
      /\ fams'[Len(fams) + 1].by = by /\ Len(fams) \in Nat
  BY TypeParts, IssueGrows DEF SessionFor, StoreOK
<1> SUFFICES ASSUME NEW f \in 1 .. Len(fams')  PROVE FamilyDated(fams[f], f)'
  BY DEF FamiliesDated
<1>2. CASE f \in 1 .. Len(fams)
  <2>1. FamilyDated(fams[f], f)
    BY <1>2 DEF FamiliesDated
  <2> QED  BY <1>1, <1>2, <2>1, FamilyKept DEF FamilyDated, account
<1>3. CASE f = Len(fams) + 1
  BY <1>1, <1>3 DEF FamilyDated, account
<1> QED  BY <1>1, <1>2, <1>3

(* A login that completes joins the logins a stamp already taken spares.   *)
LEMMA WriteSeesLogin ==
    ASSUME TypeOK, NEW c \in Clients, NEW under \in Nat,
           SessionFor(c, now, under, "login"), now' = now,
           NEW write, WriteDated(write),
           write.at \in Nat, write.spared \subseteq Nat,
           write \in Changing \/ write \in Resetting
    PROVE  LET next == Passing(write, Len(fams) + 1) IN
               next.st = "stamped" =>
                   \A f \in 1 .. Len(fams') :
                       fams'[f].by = "login" /\ fams'[f].issuedAt >= next.at =>
                           f \in next.spared
<1> DEFINE next == Passing(write, Len(fams) + 1)
<1>0. now \in Nat
  BY DEF TypeOK
<1>1. /\ StoreGrows /\ Len(fams') = Len(fams) + 1
      /\ fams'[Len(fams) + 1].issuedAt = now /\ Len(fams) \in Nat
  BY <1>0, TypeParts, IssueGrows DEF SessionFor, StoreOK
<1>2. /\ next.st = write.st /\ next.at = write.at /\ write.spared \subseteq next.spared
      /\ write.st = "stamped" /\ write.at <= now => Len(fams) + 1 \in next.spared
  BY DEF Passing, Changing, Resetting
<1> HIDE DEF next
<1> SUFFICES ASSUME next.st = "stamped", NEW f \in 1 .. Len(fams'),
                    fams'[f].by = "login", fams'[f].issuedAt >= next.at
             PROVE  f \in next.spared
  BY DEF next
<1>3. CASE f \in 1 .. Len(fams)
  BY <1>1, <1>2, <1>3, FamilyKept DEF WriteDated
<1>4. CASE f = Len(fams) + 1
  BY <1>0, <1>1, <1>2, <1>4
<1> QED  BY <1>1, <1>3, <1>4

LEMMA LoginDated ==
    ASSUME TypeOK, AccountDated, NEW c \in Clients, Login(c)
    PROVE  AccountDated'
<1> USE DEF AccountDated
<1> DEFINE under == checking[c]
<1>1. /\ now \in Nat /\ stamp \in Nat /\ password \in Nat /\ under \in Nat
      /\ checking \in [Clients -> Nat]
      /\ change \in Changing /\ resetting \in Resetting
  BY DEF TypeOK
<1>2. /\ SessionFor(c, now, under, "login") /\ UNCHANGED <<now, account>>
      /\ change' = Passing(change, Len(fams) + 1)
      /\ resetting' = Passing(resetting, Len(fams) + 1)
      /\ checking' = [checking EXCEPT ![c] = 0]
  BY DEF Login
<1>3. /\ spared \subseteq spared' /\ under <= password
      /\ under < password /\ stamp <= now => Len(fams) + 1 \in spared'
  BY DEF Login, LoginsDated
<1> HIDE DEF under
<1>4. FamiliesDated'
  BY <1>1, <1>2, <1>3, FamilyJoins
<1>5. /\ change.at \in Nat /\ change.spared \subseteq Nat
      /\ resetting.at \in Nat /\ resetting.spared \subseteq Nat
  BY <1>1 DEF Changing, Resetting
<1>6. WriteDated(change)'
  BY <1>1, <1>2, <1>5, WriteSeesLogin DEF WriteDated
<1>7. WriteDated(resetting)'
  BY <1>1, <1>2, <1>5, WriteSeesLogin DEF WriteDated
<1>8. ChangeDated'
  BY <1>1, <1>2 DEF ChangeDated, Passing, account, Changing
<1>9. LoginsDated'
  BY <1>1, <1>2 DEF LoginsDated, account
<1> QED  BY <1>4, <1>6, <1>7, <1>8, <1>9

LEMMA MintDated ==
    ASSUME TypeOK, AccountDated, MintChange
    PROVE  AccountDated'
<1> USE DEF AccountDated
<1> DEFINE c == change.client
           at == change.at
           under == change.from + 1
<1>1. /\ c \in Clients /\ at \in Nat /\ under \in Nat
      /\ password \in Nat /\ stamp \in Nat /\ resetting \in Resetting
  BY DEF MintChange, NoChange, TypeOK, Changing
<1>2. /\ at <= stamp /\ under <= password
      /\ under < password => at < stamp
      /\ under = password => at >= stamp
  BY DEF MintChange, ChangeDated
<1>3. /\ SessionFor(c, at, under, "change")
      /\ UNCHANGED <<now, account, spared, checking, resetting>>
      /\ change' = NoChange
  BY DEF MintChange
<1> HIDE DEF c, at, under
<1>4. FamiliesDated'
  BY <1>1, <1>2, <1>3, FamilyJoins
<1>5. /\ StoreGrows /\ Len(fams') = Len(fams) + 1
      /\ fams'[Len(fams) + 1].by = "change"
  BY <1>1, <1>3, TypeParts, IssueGrows DEF SessionFor
<1>6. WriteDated(resetting)'
  <2> SUFFICES ASSUME resetting.st = "stamped", NEW f \in 1 .. Len(fams'),
                      fams'[f].by = "login", fams'[f].issuedAt >= resetting.at
               PROVE  f \in resetting.spared
    BY <1>3 DEF WriteDated
  <2>1. f \in 1 .. Len(fams)
    BY <1>5 DEF TypeOK
  <2> QED  BY <1>5, <2>1, FamilyKept DEF WriteDated
<1>7. WriteDated(change)' /\ ChangeDated'
  BY <1>3 DEF WriteDated, ChangeDated, NoChange
<1>8. LoginsDated'
  BY <1>3 DEF LoginsDated, account
<1> QED  BY <1>4, <1>6, <1>7, <1>8

(* The steps that write no password and mint no session.                   *)
LEMMA OthersKeepDates ==
    ASSUME TypeOK, AccountDated, StoreGrows, Len(fams') = Len(fams),
           now' \in Nat, now' >= now, UNCHANGED <<account, spared>>,
           \A c \in Clients : checking'[c] <= password,
           change' = change \/ change'.st \notin {"stamped", "written"},
           resetting' = resetting \/ resetting'.st # "stamped"
    PROVE  AccountDated'
<1> USE DEF AccountDated
<1>1. FamiliesDated'
  BY FamiliesKeepDates
<1>2. ChangeDated' /\ LoginsDated'
  BY DEF ChangeDated, LoginsDated, account
<1>3. WriteDated(change)'
  BY WriteKeepsDate DEF WriteDated
<1>4. WriteDated(resetting)'
  BY WriteKeepsDate DEF WriteDated
<1> QED  BY <1>1, <1>2, <1>3, <1>4

LEMMA StampStepDated ==
    ASSUME TypeOK, AccountDated, StampChange \/ StampReset
    PROVE  AccountDated'
<1> USE DEF AccountDated
<1>1. UNCHANGED <<now, fams, toks, account, spared, checking>>
  BY DEF StampChange, StampReset, store
<1>2. FamiliesDated' /\ LoginsDated'
  BY <1>1 DEF FamiliesDated, FamilyDated, LoginsDated, account
<1>3. change \in Changing /\ resetting \in Resetting
  BY DEF TypeOK
<1>6. now \in Nat /\ \A f \in 1 .. Len(fams) : fams[f].issuedAt \in Nat
  <2>1. \A f \in 1 .. Len(fams) : fams[f] \in Families
    BY DEF TypeOK
  <2> QED  BY <2>1 DEF Families, TypeOK
<1>4. CASE StampChange
  <2>1. PICK at \in {now, now + 1} : Ceil(at) /\ change' = Stamped(change, at)
    BY <1>4 DEF StampChange
  <2>2. change'.at = at /\ change'.st = "stamped" /\ resetting' = resetting
    BY <1>3, <1>4, <2>1 DEF Stamped, Changing, StampChange
  <2>3. \A f \in 1 .. Len(fams) :
            fams[f].by = "login" => ~(fams[f].issuedAt >= at)
    BY <1>6, <2>1, StampTaken
  <2> QED  BY <1>1, <1>2, <2>2, <2>3 DEF WriteDated, ChangeDated
<1>5. CASE StampReset
  <2>1. PICK at \in {now, now + 1} : Ceil(at) /\ resetting' = Stamped(resetting, at)
    BY <1>5 DEF StampReset
  <2>2. resetting'.at = at /\ change' = change
    BY <1>3, <1>5, <2>1 DEF Stamped, Resetting, StampReset
  <2>3. \A f \in 1 .. Len(fams) :
            fams[f].by = "login" => ~(fams[f].issuedAt >= at)
    BY <1>6, <2>1, StampTaken
  <2> QED  BY <1>1, <1>2, <2>2, <2>3 DEF WriteDated, ChangeDated, account
<1> QED  BY <1>4, <1>5

LEMMA AccountStepDated ==
    ASSUME TypeOK, AccountDated, [Next]_vars
    PROVE  AccountDated'
<1>1. StoreGrows /\ now \in Nat /\ now' \in Nat
  BY StepTyped DEF Typed, TypeOK
<1>2. /\ \A c \in Clients : checking[c] <= password
      /\ checking \in [Clients -> Nat] /\ password \in Nat
  BY DEF AccountDated, LoginsDated, TypeOK
<1>3. ASSUME Len(fams') = Len(fams), now' >= now, UNCHANGED <<account, pending>>
      PROVE  AccountDated'
  BY <1>1, <1>2, <1>3, OthersKeepDates DEF pending
<1>4. ASSUME NEW c \in Clients, SignOut(c)
      PROVE  AccountDated'
  <2>1. toks[held[c].tok].fam \in 1 .. Len(fams)
    BY <1>4 DEF TypeOK, SignOut, Leaf
  <2>2. Len(fams') = Len(fams)
    BY <1>4, <2>1, TypeParts, RevokeGrows DEF SignOut, Reasons
  <2> QED  BY <1>1, <1>3, <1>4, <2>2 DEF SignOut
<1>5. ASSUME NEW r \in Requests, Rotate(r)
      PROVE  AccountDated'
  <2>1. request[r].old.tok \in 1 .. Len(toks)
    BY <1>5, InFlightTyped DEF Rotate
  <2>2. Len(fams') = Len(fams)
    BY <1>5, <2>1, TypeParts, RotateGrows DEF Rotate
  <2> QED  BY <1>1, <1>3, <1>5, <2>2 DEF Rotate
<1>6. ASSUME NEW r \in Requests, Gate(r)
      PROVE  AccountDated'
  <2>1. toks[request[r].new.tok].fam \in 1 .. Len(fams)
    BY <1>6, InFlightTyped DEF Gate
  <2>2. Len(fams') = Len(fams)
    BY <1>6, <2>1, TypeParts, RevokeGrows DEF Gate, Reasons
  <2>3. UNCHANGED <<account, pending, now>>
    BY <1>6 DEF Gate
  <2> QED  BY <1>1, <1>3, <2>2, <2>3
<1>7. CASE \/ \E r \in Requests, c \in Clients, forced \in BOOLEAN : Visit(r, c, forced)
           \/ \E r \in Requests, c \in Clients : GetAccessToken(r, c)
           \/ \E r \in Requests : Fail(r) \/ Land(r) \/ LoseCookie(r)
           \/ Tick \/ UNCHANGED vars
  <2>1. fams' = fams /\ now' >= now /\ UNCHANGED <<account, pending>>
    BY <1>1, <1>7
       DEF Visit, GetAccessToken, Fail, Land, LoseCookie, Tick, vars, store
  <2> QED  BY <2>1, <1>3
<1>8. CASE \/ \E c \in Clients : BeginLogin(c) \/ FailLogin(c) \/ BeginChange(c)
           \/ FailChange \/ BeginReset \/ FailReset
  <2>1. fams' = fams /\ now' = now /\ UNCHANGED <<account, spared>>
    BY <1>8 DEF BeginLogin, FailLogin, BeginChange, FailChange, BeginReset,
                FailReset, store
  <2>2. \A c \in Clients : checking'[c] <= password
    <3>1. \/ checking' = checking
          \/ \E c \in Clients : checking' = [checking EXCEPT ![c] = password]
          \/ \E c \in Clients : checking' = [checking EXCEPT ![c] = 0]
      BY <1>8 DEF BeginLogin, FailLogin, BeginChange, FailChange, BeginReset,
                  FailReset
    <3> QED  BY <1>2, <3>1
  <2>3. change' = change \/ change'.st \notin {"stamped", "written"}
    <3>1. NoChange.st = "none" /\ \A c : [NoChange EXCEPT !.client = c, !.st = "hashing",
                                               !.from = password].st = "hashing"
      BY DEF NoChange
    <3>2. change' = change \/ change' = NoChange
          \/ \E c \in Clients : change' = [NoChange EXCEPT !.client = c, !.st = "hashing",
                                                        !.from = password]
      BY <1>8 DEF BeginLogin, FailLogin, BeginChange, FailChange, BeginReset,
                  FailReset
    <3> HIDE DEF NoChange
    <3> QED  BY <3>1, <3>2
  <2>4. resetting' = resetting \/ resetting'.st # "stamped"
    <3>1. NoReset.st = "none" /\ [NoReset EXCEPT !.st = "hashing"].st = "hashing"
      BY DEF NoReset
    <3>2. \/ resetting' = resetting \/ resetting' = NoReset
          \/ resetting' = [NoReset EXCEPT !.st = "hashing"]
      BY <1>8 DEF BeginLogin, FailLogin, BeginChange, FailChange, BeginReset,
                  FailReset
    <3> HIDE DEF NoReset
    <3> QED  BY <3>1, <3>2
  <2> QED  BY <1>1, <2>1, <2>2, <2>3, <2>4, OthersKeepDates
<1> QED  BY <1>4, <1>5, <1>6, <1>7, <1>8, LoginDated, MintDated, StampStepDated,
            WriteStepDated DEF Next

-----------------------------------------------------------------------------
LEMMA FamilyTyped ==
    ASSUME TypeOK, NEW f \in 1 .. Len(fams)
    PROVE  fams[f] \in Families /\ fams[f].issuedAt \in Nat
<1>1. fams[f] \in Families
  BY DEF TypeOK
<1> QED  BY <1>1 DEF Families

(* A pair is dated if its token is a leaf and its family no later.         *)
DatedPair(pair) ==
    pair.tok \in 1 .. Len(toks) /\ pair.iat >= FamilyOf(pair.tok).issuedAt

LEMMA PairsAreDated ==
    ASSUME TypeOK
    PROVE  PairsDated <=>
             /\ \A c \in Clients : held[c].tok # 0 => DatedPair(held[c])
             /\ \A r \in Requests :
                    request[r].st # "idle" =>
                        /\ DatedPair(request[r].old)
                        /\ request[r].st = "renewed" => DatedPair(request[r].new)
BY DEF TypeOK, PairsDated, DatedPair, SignedIn, Leaf

LEMMA StaysDated ==
    ASSUME TypeOK, StoreGrows, NEW pair, DatedPair(pair)
    PROVE  /\ pair.tok \in 1 .. Len(toks')
           /\ pair.iat >= fams'[toks'[pair.tok].fam].issuedAt
BY SMTT(30) DEF TypeOK, StoreGrows, DatedPair, FamilyOf

(* The pairs stay dated when those written are.                            *)
LEMMA WrittenDated ==
    ASSUME TypeOK, TypeOK', StoreGrows, PairsDated,
           \A c \in Clients :
               \/ held'[c].tok = 0 \/ held'[c] = held[c]
               \/ held'[c].iat >= fams'[toks'[held'[c].tok].fam].issuedAt,
           \A r \in Requests :
               request'[r].st # "idle" =>
                   /\ DatedPair(request'[r].old)
                   /\ request'[r].st = "renewed" =>
                          \/ request[r].st = "renewed" /\ request'[r].new = request[r].new
                          \/ DatedPair(request'[r].new)
    PROVE  PairsDated'
<1>1. \A c \in Clients :
          held'[c].tok # 0 => held'[c].iat >= fams'[toks'[held'[c].tok].fam].issuedAt
  BY PairsAreDated, StaysDated
<1>2. \A r \in Requests :
          request'[r].st # "idle" =>
              /\ request'[r].old.iat >= fams'[toks'[request'[r].old.tok].fam].issuedAt
              /\ request'[r].st = "renewed" =>
                     request'[r].new.iat >= fams'[toks'[request'[r].new.tok].fam].issuedAt
  BY PairsAreDated, StaysDated
<1> QED  BY <1>1, <1>2 DEF PairsDated, SignedIn, FamilyOf

(* A step that writes one pair, to a client, and asks for nothing.         *)
LEMMA HeldDated ==
    ASSUME TypeOK, TypeOK', StoreGrows, PairsDated, NEW c \in Clients, NEW pair,
           held' = [held EXCEPT ![c] = pair],
           \/ pair.tok = 0
           \/ pair.iat >= fams'[toks'[pair.tok].fam].issuedAt,
           \A r \in Requests : request'[r] = request[r] \/ request'[r].st = "idle"
    PROVE  PairsDated'
<1>1. \A x \in Clients :
          \/ held'[x].tok = 0 \/ held'[x] = held[x]
          \/ held'[x].iat >= fams'[toks'[held'[x].tok].fam].issuedAt
  BY DEF TypeOK
<1>2. \A r \in Requests :
          request'[r].st # "idle" =>
              /\ DatedPair(request'[r].old)
              /\ request'[r].st = "renewed" =>
                     request[r].st = "renewed" /\ request'[r].new = request[r].new
  BY PairsAreDated
<1> QED  BY <1>1, <1>2, WrittenDated

(* A step that writes one request, and nothing a client holds.             *)
LEMMA RequestDated ==
    ASSUME TypeOK, TypeOK', StoreGrows, PairsDated, NEW r \in Requests, NEW q,
           request' = [request EXCEPT ![r] = q], held' = held,
           q.st # "idle" => DatedPair(q.old) /\ (q.st = "renewed" => DatedPair(q.new))
    PROVE  PairsDated'
<1>1. \A x \in Requests :
          request'[x].st # "idle" =>
              /\ DatedPair(request'[x].old)
              /\ request'[x].st = "renewed" =>
                     \/ request[x].st = "renewed" /\ request'[x].new = request[x].new
                     \/ DatedPair(request'[x].new)
  BY PairsAreDated DEF TypeOK
<1> QED  BY <1>1, WrittenDated

LEMMA SessionDated ==
    ASSUME TypeOK, TypeOK', StoreGrows, PairsDated, NEW c \in Clients,
           NEW at \in Nat, NEW under \in Nat, NEW by \in {"login", "change"},
           SessionFor(c, at, under, by), UNCHANGED <<now, request>>
    PROVE  PairsDated'
<1> DEFINE pair == [tok |-> Len(toks) + 1, iat |-> at]
<1>1. held' = [held EXCEPT ![c] = pair]
  BY DEF SessionFor
<1>2. fams'[toks'[pair.tok].fam].issuedAt = at
  BY TypeParts, IssueGrows DEF SessionFor
<1>3. pair.iat = at /\ at >= at
  OBVIOUS
<1>4. \A r \in Requests : request'[r] = request[r] \/ request'[r].st = "idle"
  OBVIOUS
<1> HIDE DEF pair
<1>5. pair.iat >= fams'[toks'[pair.tok].fam].issuedAt
  BY <1>2, <1>3
<1> QED  BY <1>1, <1>4, <1>5, HeldDated

LEMMA LandDated ==
    ASSUME TypeOK, TypeOK', StoreGrows, PairsDated, NEW r \in Requests, Land(r)
    PROVE  PairsDated'
<1> DEFINE c == request[r].client
           pair == PairAfter(r)
<1>1. c \in Clients /\ request[r].st \in {"renewed", "refused", "failed"}
  BY InFlightTyped DEF Land
<1>2. pair.tok = 0 \/ DatedPair(pair)
  BY <1>1, PairsAreDated DEF PairAfter, SignedOut
<1>3. held' = [held EXCEPT ![c] = pair]
  BY DEF Land
<1>4. \A x \in Requests : request'[x] = request[x] \/ request'[x].st = "idle"
  BY DEF Land, Idle, TypeOK
<1> HIDE DEF c, pair
<1>5. pair.tok = 0 \/ pair.iat >= fams'[toks'[pair.tok].fam].issuedAt
  BY <1>2, StaysDated
<1> QED  BY <1>1, <1>3, <1>4, <1>5, HeldDated

LEMMA RequestStepDated ==
    ASSUME TypeOK, TypeOK', StoreGrows, PairsDated, NEW r \in Requests,
           Rotate(r) \/ Gate(r) \/ Fail(r) \/ LoseCookie(r)
    PROVE  PairsDated'
<1>1. request[r].st # "idle" /\ DatedPair(request[r].old) /\ request[r] \in Asking
  <2>1. request[r].st # "idle"
    BY DEF Rotate, Gate, Fail, LoseCookie
  <2> QED  BY <2>1, PairsAreDated, InFlightTyped
<1>2. CASE Gate(r)
  <2> DEFINE q == request'[r]
             f == toks[request[r].new.tok].fam
  <2>1. /\ q.old = request[r].old /\ q.new.tok = request[r].new.tok
        /\ q.new.iat = IssuedAt(f)
        /\ held' = held /\ request' = [request EXCEPT ![r] = q]
    BY <1>1, <1>2 DEF Gate, TypeOK, Asking, Pairs
  <2>2. /\ request[r].new.tok \in 1 .. Len(toks) /\ f \in 1 .. Len(fams)
    BY <1>2, InFlightTyped DEF Gate
  <2>3. fams[f].issuedAt \in Nat /\ now \in Nat
    BY <2>2, FamilyTyped DEF TypeOK
  <2>5. IssuedAt(f) >= fams[f].issuedAt
    BY <2>3 DEF IssuedAt
  <2>6. DatedPair(q.new) /\ DatedPair(q.old)
    BY <1>1, <2>1, <2>2, <2>5 DEF DatedPair, FamilyOf
  <2> HIDE DEF q
  <2> QED  BY <2>1, <2>6, RequestDated
<1>3. CASE Rotate(r) \/ Fail(r) \/ LoseCookie(r)
  <2> DEFINE q == request'[r]
  <2>1. held' = held /\ request' = [request EXCEPT ![r] = q]
    BY <1>3 DEF Rotate, Fail, LoseCookie, TypeOK
  <2>2. q.st = "idle" \/ (q.st # "renewed" /\ q.old = request[r].old)
    <3>1. CASE Rotate(r)
      BY <1>1, <3>1 DEF Rotate, TypeOK, Asking
    <3>2. CASE Fail(r)
      BY <1>1, <3>2 DEF Fail, TypeOK, Asking
    <3>3. CASE LoseCookie(r)
      <4>1. request \in [Requests -> Asking]
        BY DEF TypeOK
      <4>2. request'[r] = Idle
        BY <3>3, <4>1 DEF LoseCookie
      <4> QED  BY <4>2 DEF Idle
    <3> QED  BY <1>3, <3>1, <3>2, <3>3
  <2> HIDE DEF q
  <2> QED  BY <1>1, <2>1, <2>2, RequestDated
<1> QED  BY <1>2, <1>3

LEMMA PairsStepDated ==
    ASSUME TypeOK, PairsDated, [Next]_vars
    PROVE  PairsDated'
<1>1. TypeOK' /\ StoreGrows
  BY StepTyped DEF Typed
<1>2. ASSUME NEW c \in Clients, Login(c)  PROVE PairsDated'
  <2>1. now \in Nat /\ checking[c] \in Nat
    BY DEF TypeOK
  <2> QED  BY <1>1, <1>2, <2>1, SessionDated DEF Login
<1>3. ASSUME MintChange  PROVE PairsDated'
  <2>1. change.client \in Clients /\ change.at \in Nat /\ change.from + 1 \in Nat
    BY <1>3 DEF MintChange, NoChange, TypeOK, Changing
  <2> QED  BY <1>1, <1>3, <2>1, SessionDated DEF MintChange
<1>4. ASSUME NEW c \in Clients, SignOut(c)  PROVE PairsDated'
  <2>1. held' = [held EXCEPT ![c] = SignedOut] /\ request' = request
    BY <1>4 DEF SignOut
  <2> QED  BY <1>1, <2>1, HeldDated DEF SignedOut
<1>5. ASSUME NEW r \in Requests, NEW c \in Clients,
             \/ \E forced \in BOOLEAN : Visit(r, c, forced)
             \/ GetAccessToken(r, c)
      PROVE  PairsDated'
  <2> DEFINE q == request'[r]
  <2>1. /\ SignedIn(c) /\ held' = held /\ request' = [request EXCEPT ![r] = q]
        /\ q.st # "renewed" /\ q.old = held[c]
    BY <1>5 DEF Visit, GetAccessToken, Send, TypeOK
  <2>2. DatedPair(q.old)
    BY <2>1, PairsAreDated DEF SignedIn
  <2> HIDE DEF q
  <2> QED  BY <1>1, <2>1, <2>2, RequestDated
<1>6. ASSUME NEW r \in Requests, Land(r)  PROVE PairsDated'
  BY <1>1, <1>6, LandDated
<1>7. ASSUME NEW r \in Requests, Rotate(r) \/ Gate(r) \/ Fail(r) \/ LoseCookie(r)
      PROVE  PairsDated'
  BY <1>1, <1>7, RequestStepDated
<1>8. ASSUME held' = held, request' = request  PROVE PairsDated'
  BY <1>1, <1>8, PairsAreDated, WrittenDated
<1>9. CASE \/ \E c \in Clients : BeginLogin(c) \/ FailLogin(c) \/ BeginChange(c)
           \/ StampChange \/ WriteChange \/ FailChange
           \/ BeginReset \/ StampReset \/ WriteReset \/ FailReset
           \/ Tick \/ UNCHANGED vars
  <2>1. held' = held /\ request' = request
    BY <1>9 DEF BeginLogin, FailLogin, BeginChange, StampChange, WriteChange,
                FailChange, BeginReset, StampReset, WriteReset, FailReset, Tick, vars
  <2> QED  BY <2>1, <1>8
<1> QED  BY <1>2, <1>3, <1>4, <1>5, <1>6, <1>7, <1>9 DEF Next

-----------------------------------------------------------------------------
(* Dated is inductive relative to the types.                               *)
THEOREM SessionsDated == Spec => [](TypeOK /\ Dated)
<1>1. Init => TypeOK /\ Dated
  BY DEF Init, TypeOK, NoChange, NoReset, Changing, Resetting, Pairs, SignedOut,
         SignedIn, Idle, Asking, Dated, AccountDated, FamiliesDated, ChangeDated,
         LoginsDated, WriteDated, PairsDated
<1>2. TypeOK /\ Dated /\ [Next]_vars => TypeOK' /\ Dated'
  <2> SUFFICES ASSUME TypeOK, Dated, [Next]_vars  PROVE TypeOK' /\ Dated'
    OBVIOUS
  <2>1. TypeOK'
    BY StepTyped DEF Typed
  <2>2. AccountDated'
    BY AccountStepDated DEF Dated
  <2>3. PairsDated'
    BY PairsStepDated DEF Dated
  <2> QED  BY <2>1, <2>2, <2>3 DEF Dated
<1> QED  BY <1>1, <1>2, PTL DEF Spec

(* A password change ends every session of an earlier password but the     *)
(* logins that crossed with it, for any number of clients, changes and     *)
(* resets, hashed, stamped and committed in whatever order.                *)
THEOREM ChangeEndsSessions == Spec => []ChangeEndsEarlierSessions
<1>1. TypeOK /\ Dated => ChangeEndsEarlierSessions
  BY DEF Dated, AccountDated, FamiliesDated, FamilyDated, ChangeEndsEarlierSessions,
         IsRevokedByPasswordChange
<1> QED  BY <1>1, SessionsDated, PTL

(* The browser that changed the password keeps its session, and no session *)
(* that passes the gate is handed an access token that does not.           *)
THEOREM ChangerKeepsSession == Spec => []ChangerStaysSignedIn
<1>1. ASSUME TypeOK, Dated
      PROVE  ChangerStaysSignedIn
  <2> USE <1>1
  <2>1. ASSUME NEW f \in 1 .. Len(fams), fams[f].by = "change",
               fams[f].under = password
        PROVE  ~IsRevokedByPasswordChange(fams[f].issuedAt)
    <3>1. fams[f].issuedAt >= stamp
      BY <2>1 DEF Dated, AccountDated, FamiliesDated, FamilyDated
    <3>2. fams[f].issuedAt \in Nat /\ stamp \in Nat
      BY <2>1, FamilyTyped DEF TypeOK
    <3> QED  BY <3>1, <3>2 DEF IsRevokedByPasswordChange
  <2>2. ASSUME NEW c \in Clients, SignedIn(c),
               ~IsRevokedByPasswordChange(FamilyOf(held[c].tok).issuedAt)
        PROVE  ~IsRevokedByPasswordChange(held[c].iat)
    <3>1. held[c].iat >= FamilyOf(held[c].tok).issuedAt /\ held[c].iat \in Nat
      BY <2>2 DEF Dated, PairsDated, TypeOK, Pairs
    <3>2. toks[held[c].tok].fam \in 1 .. Len(fams)
      BY <2>2 DEF TypeOK, Leaf
    <3>3. FamilyOf(held[c].tok).issuedAt \in Nat
      BY <3>2, FamilyTyped DEF FamilyOf
    <3> QED  BY <2>2, <3>1, <3>3 DEF IsRevokedByPasswordChange, TypeOK
  <2> QED  BY <2>1, <2>2 DEF ChangerStaysSignedIn
<1> QED  BY <1>1, SessionsDated, PTL

-----------------------------------------------------------------------------
(***************************************************************************)
(* What a step does, as a client and as the store see it.                  *)
(***************************************************************************)
Asks(c) == {r \in Requests : request[r].st # "idle" /\ request[r].client = c}

(* A session minted for c, by a login or by a change.                      *)
Minted(c) ==
    /\ \E at \in Nat, under \in Nat, by \in {"login", "change"} :
           SessionFor(c, at, under, by)
    /\ UNCHANGED <<fixed, now, stamp, request, pushed, stale>>

(* A request that c starts with the pair it holds.                         *)
Sent(r, c) ==
    /\ request[r] = Idle /\ SignedIn(c)
    /\ kindOf[c] = "phone" => Asks(c) = {}
    /\ \E st \in {"asked", "failed"} :
           /\ Send(r, c, st)
           /\ st = "asked" /\ pushed' = 0 => Due(c)
    /\ pushed' \in Nat /\ pushed' >= pushed
    /\ UNCHANGED <<fixed, store, stamp, held, stale, lost>>

(* Time or the password moves, nothing else that a request depends on.     *)
Quiet ==
    /\ UNCHANGED <<fixed, fams, toks, held, request, tallies>>
    /\ now' \in Nat /\ stamp' \in Nat /\ now' >= now /\ stamp' >= stamp
    /\ \A r \in Requests :
           request[r].st # "idle" => now' = now \/ now' <= request[r].sentAt + Abort

LEMMA StepKinds ==
    ASSUME TypeOK, [Next]_vars
    PROVE  \/ \E c \in Clients : Minted(c) \/ SignOut(c)
           \/ \E r \in Requests, c \in Clients : Sent(r, c)
           \/ \E r \in Requests :
                  Rotate(r) \/ Gate(r) \/ Fail(r) \/ Land(r) \/ LoseCookie(r)
           \/ Quiet
<1>1. ASSUME NEW c \in Clients, Login(c)  PROVE Minted(c)
  <2>1. now \in Nat /\ checking[c] \in Nat
    BY DEF TypeOK
  <2> QED  BY <1>1, <2>1 DEF Login, Minted, account
<1>2. ASSUME MintChange  PROVE \E c \in Clients : Minted(c)
  <2>1. change.client \in Clients /\ change.at \in Nat /\ change.from + 1 \in Nat
    BY <1>2 DEF MintChange, NoChange, TypeOK, Changing
  <2> QED  BY <1>2, <2>1 DEF MintChange, Minted, account
<1>3. ASSUME NEW r \in Requests, NEW c \in Clients, NEW forced \in BOOLEAN,
             Visit(r, c, forced)
      PROVE  Sent(r, c)
  <2>1. pushed \in Nat /\ pushed' \in Nat /\ pushed' >= pushed
        /\ (forced => pushed' # 0)
    BY <1>3 DEF Visit, TypeOK
  <2>2. kindOf[c] # "phone"
    BY <1>3 DEF Visit
  <2>3. /\ request[r] = Idle /\ SignedIn(c)
        /\ UNCHANGED <<fixed, store, stamp, held, stale, lost>>
    BY <1>3 DEF Visit, account
  <2>4. CASE forced \/ Due(c)
    BY <1>3, <2>1, <2>2, <2>3, <2>4 DEF Visit, Sent
  <2>5. CASE ~(forced \/ Due(c))
    BY <1>3, <2>1, <2>2, <2>3, <2>5 DEF Visit, Sent
  <2> QED  BY <2>4, <2>5
<1>4. ASSUME NEW r \in Requests, NEW c \in Clients, GetAccessToken(r, c)
      PROVE  Sent(r, c)
  <2>1. Asks(c) = {}
    BY <1>4 DEF GetAccessToken, Asks, InFlight
  <2> QED  BY <1>4, <2>1 DEF GetAccessToken, Sent, account, tallies, TypeOK
<1>5. CASE \/ \E c \in Clients : BeginLogin(c) \/ FailLogin(c) \/ BeginChange(c)
           \/ StampChange \/ WriteChange \/ FailChange
           \/ BeginReset \/ StampReset \/ WriteReset \/ FailReset
  <2>1. UNCHANGED <<fixed, fams, toks, held, request, tallies, now>>
    BY <1>5 DEF BeginLogin, FailLogin, BeginChange, StampChange, WriteChange,
                FailChange, BeginReset, StampReset, WriteReset, FailReset, store
  <2>2. \/ stamp' = stamp \/ stamp' = StampToWrite(change.at)
        \/ stamp' = StampToWrite(resetting.at)
    BY <1>5 DEF BeginLogin, FailLogin, BeginChange, StampChange, WriteChange,
                FailChange, BeginReset, StampReset, WriteReset, FailReset,
                account, UpdatePasswordHash
  <2>3. change.at \in Nat /\ resetting.at \in Nat /\ stamp \in Nat
    BY DEF TypeOK, Changing, Resetting
  <2>4. stamp' \in Nat /\ stamp' >= stamp
    BY <2>2, <2>3, StampIsNat
  <2> QED  BY <2>1, <2>4 DEF Quiet, TypeOK
<1>6. CASE Tick
  <2>1. \A r \in Requests :
            request[r].st # "idle" => now' <= request[r].sentAt + Abort
    <3> TAKE r \in Requests
    <3> HAVE request[r].st # "idle"
    <3>1. request[r] # Idle /\ request[r].sentAt \in Nat
      BY InFlightTyped DEF Idle, Asking
    <3>2. now < request[r].sentAt + Abort /\ now' = now + 1
      BY <1>6, <3>1 DEF Tick
    <3> QED  BY <3>1, <3>2, AbortIsNat DEF TypeOK
  <2> QED  BY <1>6, <2>1 DEF Tick, Quiet, account, TypeOK
<1>7. CASE UNCHANGED vars
  BY <1>7 DEF vars, Quiet, store, account, TypeOK
<1> QED  BY <1>1, <1>2, <1>3, <1>4, <1>5, <1>6, <1>7 DEF Next

(* A new session is its client's alone, and touches nothing there was.     *)
LEMMA MintedFacts ==
    ASSUME TypeOK, NEW c \in Clients, Minted(c)
    PROVE  /\ Len(toks') = Len(toks) + 1 /\ Len(fams') = Len(fams) + 1
           /\ \A n \in 1 .. Len(toks) : toks'[n] = toks[n] /\ lost'[n] = lost[n]
           /\ \A f \in 1 .. Len(fams) : fams'[f] = fams[f]
           /\ toks'[Len(toks) + 1] = NewLeaf(Len(fams) + 1, 1, 0)
           /\ fams'[Len(fams) + 1].revoked = "no"
           /\ fams'[Len(fams) + 1].lastUsedGen = 0
           /\ fams'[Len(fams) + 1].epoch = 0
           /\ held'[c].tok = Len(toks) + 1
           /\ \A d \in Clients : d # c => held'[d] = held[d]
<1> PICK at \in Nat, under \in Nat, by \in {"login", "change"} :
        SessionFor(c, at, under, by)
  BY DEF Minted
<1> DEFINE family == [issuedAt |-> at, revoked |-> "no", lastUsedGen |-> 0,
                      epoch |-> 0, under |-> under, by |-> by]
           leaf == NewLeaf(Len(fams) + 1, 1, 0)
<1>1. family \in Families
  BY DEF Families, Reasons
<1>2. leaf \in Leaves
  BY DEF TypeOK, NewLeaf, Leaves
<1>3. /\ fams' = Append(fams, family) /\ toks' = Append(toks, leaf)
      /\ lost' = Append(lost, 0)
      /\ held' = [held EXCEPT ![c] = [tok |-> Len(toks) + 1, iat |-> at]]
  BY DEF SessionFor, IssueFamily
<1>4. /\ family.revoked = "no" /\ family.lastUsedGen = 0 /\ family.epoch = 0
  OBVIOUS
<1> HIDE DEF leaf, family
<1>5. /\ Len(fams') = Len(fams) + 1
      /\ \A f \in 1 .. Len(fams) : fams'[f] = fams[f]
      /\ fams'[Len(fams) + 1] = family
  BY <1>1, <1>3 DEF TypeOK
<1>6. /\ Len(toks') = Len(toks) + 1
      /\ \A n \in 1 .. Len(toks) : toks'[n] = toks[n]
      /\ toks'[Len(toks) + 1] = leaf
  BY <1>2, <1>3 DEF TypeOK
<1>7. \A n \in 1 .. Len(toks) : lost'[n] = lost[n]
  BY <1>3 DEF TypeOK
<1>8. /\ held'[c].tok = Len(toks) + 1
      /\ \A d \in Clients : d # c => held'[d] = held[d]
  BY <1>3 DEF TypeOK
<1> QED  BY <1>4, <1>5, <1>6, <1>7, <1>8 DEF leaf

(* The store where no session is minted and no token rotated.              *)
StoreStill ==
    /\ toks' = toks /\ Len(fams') = Len(fams)
    /\ \A f \in 1 .. Len(fams) :
           /\ fams'[f].issuedAt = fams[f].issuedAt
           /\ fams'[f].lastUsedGen = fams[f].lastUsedGen
           /\ fams'[f].epoch = fams[f].epoch
           /\ \/ fams'[f].revoked = fams[f].revoked
              \/ fams'[f].revoked \in {"signout", "password"}

LEMMA RevokedStill ==
    ASSUME TypeOK, toks' = toks, NEW f \in 1 .. Len(fams),
           NEW why \in {"signout", "password"}, fams' \in {fams, Revoked(f, why)}
    PROVE  StoreStill
<1>1. fams' = fams \/ fams' = [fams EXCEPT ![f].revoked = why]
  BY DEF Revoked
<1>2. CASE fams' = fams
  BY <1>2 DEF StoreStill
<1>3. CASE fams' = [fams EXCEPT ![f].revoked = why]
  <2>1. fams[f] \in Families /\ fams \in Seq(Families)
    BY DEF TypeOK
  <2>2. /\ fams'[f].issuedAt = fams[f].issuedAt
        /\ fams'[f].lastUsedGen = fams[f].lastUsedGen
        /\ fams'[f].epoch = fams[f].epoch /\ fams'[f].revoked = why
        /\ \A g \in 1 .. Len(fams) : g # f => fams'[g] = fams[g]
        /\ Len(fams') = Len(fams)
    BY SMTT(30), <1>3, <2>1 DEF Families
  <2> QED  BY <2>2 DEF StoreStill
<1> QED  BY <1>1, <1>2, <1>3

LEMMA OthersStill ==
    ASSUME TypeOK,
           \/ \E c \in Clients : SignOut(c)
           \/ \E r \in Requests, c \in Clients : Sent(r, c)
           \/ \E r \in Requests : Gate(r) \/ Fail(r) \/ Land(r) \/ LoseCookie(r)
           \/ Quiet
    PROVE  StoreStill
<1>1. ASSUME NEW c \in Clients, SignOut(c)  PROVE StoreStill
  <2>1. toks[held[c].tok].fam \in 1 .. Len(fams)
    BY <1>1 DEF TypeOK, SignOut, Leaf
  <2> QED  BY <1>1, <2>1, RevokedStill DEF SignOut
<1>2. ASSUME NEW r \in Requests, Gate(r)  PROVE StoreStill
  <2>1. toks[request[r].new.tok].fam \in 1 .. Len(fams)
    BY <1>2, InFlightTyped DEF Gate
  <2>2. fams' \in {fams, Revoked(toks[request[r].new.tok].fam, "password")}
        /\ toks' = toks
    BY <1>2 DEF Gate
  <2> QED  BY <2>1, <2>2, RevokedStill
<1>3. ASSUME fams' = fams, toks' = toks  PROVE StoreStill
  BY <1>3 DEF StoreStill
<1> QED  BY <1>1, <1>2, <1>3 DEF Sent, Fail, Land, LoseCookie, Quiet, store


(* A rotation changes one token, adds at most its successor, and touches   *)
(* no family but theirs.                                                   *)
LEMMA RotateFacts ==
    ASSUME TypeOK, NEW t \in 1 .. Len(toks), RotateToken(t), now' = now
    PROVE  LET f == toks[t].fam
               v == Verdict(t)
               n == Len(toks) + 1
           IN  /\ Len(fams') = Len(fams)
               /\ \A g \in 1 .. Len(fams) : g # f => fams'[g] = fams[g]
               /\ fams'[f].issuedAt = fams[f].issuedAt
               /\ fams'[f].lastUsedGen =
                      IF v = "rotated" THEN toks[t].gen ELSE fams[f].lastUsedGen
               /\ fams'[f].epoch =
                      IF v = "recovered" THEN fams[f].epoch + 1 ELSE fams[f].epoch
               /\ fams'[f].revoked = IF v = "reuse" THEN "reuse" ELSE fams[f].revoked
               /\ \A m \in 1 .. Len(toks) : m # t => toks'[m] = toks[m]
               /\ toks'[t].fam = f /\ toks'[t].gen = toks[t].gen
               /\ toks'[t].epoch = toks[t].epoch
               /\ toks'[t].status = IF v = "rotated" THEN "spent" ELSE toks[t].status
               /\ v \notin Renewing => toks' = toks
               /\ v \in Renewing =>
                      /\ Len(toks') = n
                      /\ toks'[n].fam = f /\ toks'[n].gen = toks[t].gen + 1
                      /\ toks'[n].status = "active"
                      /\ toks'[n].epoch = fams'[f].epoch
<1> DEFINE f == toks[t].fam
           n == Len(toks) + 1
<1>1. f \in 1 .. Len(fams) /\ toks[t] \in Leaves /\ fams[f] \in Families
      /\ fams \in Seq(Families) /\ toks \in Seq(Leaves)
  BY DEF TypeOK
<1>2. PICK v : v = Verdict(t)
  OBVIOUS
<1> HIDE DEF f
<1>3. f = toks[t].fam
  BY DEF f
<1>4. fams' = CASE v = "rotated"   -> [fams EXCEPT ![f].lastUsedGen = toks[t].gen]
                [] v = "recovered" -> [fams EXCEPT ![f].epoch = @ + 1]
                [] v = "reuse"     -> [fams EXCEPT ![f].revoked = "reuse"]
                [] OTHER           -> fams
  BY <1>2, <1>3 DEF RotateToken, FamilyAfter
<1>5. /\ Len(fams') = Len(fams)
      /\ \A g \in 1 .. Len(fams) : g # f => fams'[g] = fams[g]
      /\ fams'[f].issuedAt = fams[f].issuedAt
      /\ fams'[f].lastUsedGen =
             IF v = "rotated" THEN toks[t].gen ELSE fams[f].lastUsedGen
      /\ fams'[f].epoch =
             IF v = "recovered" THEN fams[f].epoch + 1 ELSE fams[f].epoch
      /\ fams'[f].revoked = IF v = "reuse" THEN "reuse" ELSE fams[f].revoked
  <2>1. CASE v = "rotated"
    <3> DEFINE family == [fams[f] EXCEPT !.lastUsedGen = toks[t].gen]
    <3>1. /\ family.issuedAt = fams[f].issuedAt
          /\ family.lastUsedGen = toks[t].gen /\ family.epoch = fams[f].epoch
          /\ family.revoked = fams[f].revoked
      BY <1>1 DEF Families
    <3>2. fams' = [fams EXCEPT ![f] = family]
      BY <1>1, <1>4, <2>1
    <3> HIDE DEF family
    <3> QED  BY <1>1, <2>1, <3>1, <3>2
  <2>2. CASE v = "recovered"
    <3> DEFINE family == [fams[f] EXCEPT !.epoch = @ + 1]
    <3>1. /\ family.issuedAt = fams[f].issuedAt
          /\ family.lastUsedGen = fams[f].lastUsedGen
          /\ family.epoch = fams[f].epoch + 1 /\ family.revoked = fams[f].revoked
      BY <1>1 DEF Families
    <3>2. fams' = [fams EXCEPT ![f] = family]
      BY <1>1, <1>4, <2>2
    <3> HIDE DEF family
    <3> QED  BY <1>1, <2>2, <3>1, <3>2
  <2>3. CASE v = "reuse"
    <3> DEFINE family == [fams[f] EXCEPT !.revoked = "reuse"]
    <3>1. /\ family.issuedAt = fams[f].issuedAt
          /\ family.lastUsedGen = fams[f].lastUsedGen
          /\ family.epoch = fams[f].epoch /\ family.revoked = "reuse"
      BY <1>1 DEF Families
    <3>2. fams' = [fams EXCEPT ![f] = family]
      BY <1>1, <1>4, <2>3
    <3> HIDE DEF family
    <3> QED  BY <1>1, <2>3, <3>1, <3>2
  <2>4. CASE v \notin {"rotated", "recovered", "reuse"}
    <3>1. fams' = fams
      BY <1>4, <2>4
    <3> QED  BY <2>4, <3>1
  <2> QED  BY <2>1, <2>2, <2>3, <2>4
<1>6. /\ Spent(t) \in Seq(Leaves) /\ Len(Spent(t)) = Len(toks)
      /\ \A m \in 1 .. Len(toks) : m # t => Spent(t)[m] = toks[m]
      /\ Spent(t)[t].fam = f /\ Spent(t)[t].gen = toks[t].gen
      /\ Spent(t)[t].epoch = toks[t].epoch
      /\ Spent(t)[t].status = IF v = "rotated" THEN "spent" ELSE toks[t].status
  <2>1. CASE v = "rotated"
    <3> DEFINE leaf == [toks[t] EXCEPT !.status = "spent", !.spentAt = now]
    <3>1. /\ leaf \in Leaves /\ leaf.fam = f /\ leaf.gen = toks[t].gen
          /\ leaf.epoch = toks[t].epoch /\ leaf.status = "spent"
      BY <1>1, <1>3 DEF Leaves, TypeOK
    <3>2. Spent(t) = [toks EXCEPT ![t] = leaf]
      BY <1>1, <1>2, <2>1 DEF Spent, Leaves
    <3> HIDE DEF leaf
    <3> QED  BY <1>1, <2>1, <3>1, <3>2
  <2>2. CASE v # "rotated"
    <3>1. Spent(t) = toks
      BY <1>2, <2>2 DEF Spent
    <3> QED  BY <1>1, <1>3, <2>2, <3>1
  <2> QED  BY <2>1, <2>2
<1>7. CASE v \in Renewing
  <2>1. toks' = Append(Spent(t), Successor(t)) /\ fams' = FamilyAfter(t)
    BY <1>2, <1>7 DEF RotateToken
  <2>2. /\ Successor(t).fam = f /\ Successor(t).gen = toks[t].gen + 1
        /\ Successor(t).status = "active" /\ Successor(t).epoch = fams'[f].epoch
    BY <1>3, <2>1 DEF Successor, NewLeaf
  <2>3. /\ Len(toks') = n /\ toks'[n] = Successor(t)
        /\ \A m \in 1 .. Len(toks) : toks'[m] = Spent(t)[m]
    BY <1>6, <2>1
  <2> QED  BY <1>2, <1>3, <1>5, <1>6, <1>7, <2>2, <2>3
<1>8. CASE v \notin Renewing
  <2>1. toks' = toks
    BY <1>2, <1>8 DEF RotateToken
  <2> QED  BY <1>2, <1>3, <1>5, <1>8, <2>1 DEF Renewing
<1> QED  BY <1>7, <1>8

(* The pair a client holds after a step: the same, none, a new session's,  *)
(* or what a request of its own leaves it with.                            *)
LEMMA HeldAfter ==
    ASSUME TypeOK, [Next]_vars, NEW c \in Clients
    PROVE  \/ held'[c] = held[c]
           \/ held'[c].tok = 0
           \/ Minted(c)
           \/ \E r \in Asks(c) :
                  /\ Land(r)
                  /\ \/ request[r].st = "renewed" /\ held'[c] = request[r].new
                     \/ /\ request[r].st = "failed" /\ kindOf[c] = "web"
                        /\ held'[c] = request[r].old
<1> USE DEF TypeOK
<1>1. ASSUME NEW d \in Clients, Minted(d)  PROVE Minted(c) \/ held'[c] = held[c]
  BY <1>1, MintedFacts
<1>2. ASSUME NEW d \in Clients, SignOut(d)
      PROVE  held'[c] = held[c] \/ held'[c].tok = 0
  BY <1>2 DEF SignOut, SignedOut
<1>3. ASSUME NEW r \in Requests, Land(r), held'[c] # held[c], held'[c].tok # 0
      PROVE  /\ r \in Asks(c)
             /\ \/ request[r].st = "renewed" /\ held'[c] = request[r].new
                \/ /\ request[r].st = "failed" /\ kindOf[c] = "web"
                   /\ held'[c] = request[r].old
  <2>1. held' = [held EXCEPT ![request[r].client] = PairAfter(r)]
    BY <1>3 DEF Land
  <2>2. request[r].client = c /\ held'[c] = PairAfter(r)
    BY <1>3, <2>1
  <2>3. request[r].st \in {"renewed", "refused", "failed"}
    BY <1>3 DEF Land
  <2> QED  BY <1>3, <2>2, <2>3 DEF PairAfter, Asks, SignedOut
<1>4. CASE \/ \E r \in Requests, d \in Clients : Sent(r, d)
           \/ \E r \in Requests : Rotate(r) \/ Gate(r) \/ Fail(r) \/ LoseCookie(r)
           \/ Quiet
  <2>1. held' = held
    BY <1>4 DEF Sent, Rotate, Gate, Fail, LoseCookie, Quiet
  <2> QED  BY <2>1
<1> QED  BY StepKinds, <1>1, <1>2, <1>3, <1>4

(* A request in flight after a step was, for the same client and with the  *)
(* same pair, or starts with the one its client holds.                     *)
LEMMA AskAfter ==
    ASSUME TypeOK, [Next]_vars, NEW r \in Requests, request'[r].st # "idle"
    PROVE  \/ /\ request[r].st # "idle" /\ request'[r].client = request[r].client
              /\ request'[r].old = request[r].old
              /\ request'[r].sentAt = request[r].sentAt
           \/ \E c \in Clients :
                  /\ Sent(r, c)
                  /\ request'[r].client = c /\ request'[r].old = held[c]
                  /\ request'[r].sentAt = now
                  /\ request'[r].st \in {"asked", "failed"}
<1>1. request[r] \in Asking /\ request \in [Requests -> Asking]
  BY DEF TypeOK
<1>2. ASSUME NEW q \in Requests, NEW c \in Clients, Sent(q, c), q = r
      PROVE  /\ request'[r].client = c /\ request'[r].old = held[c]
             /\ request'[r].sentAt = now
             /\ request'[r].st \in {"asked", "failed"}
  BY <1>1, <1>2 DEF Sent, Send
<1>3. ASSUME NEW q \in Requests,
             Rotate(q) \/ Gate(q) \/ Fail(q) \/ Land(q) \/ LoseCookie(q), q = r
      PROVE  /\ request[r].st # "idle" /\ request'[r].client = request[r].client
             /\ request'[r].old = request[r].old
             /\ request'[r].sentAt = request[r].sentAt
  <2>1. CASE Rotate(q)
    BY <1>1, <1>3, <2>1 DEF Rotate, Asking
  <2>2. CASE Gate(q)
    BY <1>1, <1>3, <2>2 DEF Gate, Asking
  <2>3. CASE Fail(q)
    BY <1>1, <1>3, <2>3 DEF Fail, Asking
  <2>4. CASE Land(q) \/ LoseCookie(q)
    <3>1. request'[r] = Idle
      BY <1>1, <1>3, <2>4 DEF Land, LoseCookie
    <3> QED  BY <3>1 DEF Idle
  <2> QED  BY <1>3, <2>1, <2>2, <2>3, <2>4
<1>4. ASSUME request'[r] = request[r]
      PROVE  /\ request[r].st # "idle" /\ request'[r].client = request[r].client
             /\ request'[r].old = request[r].old
             /\ request'[r].sentAt = request[r].sentAt
  BY <1>4
<1>5. ASSUME NEW q \in Requests, q # r,
             \/ \E c \in Clients : Sent(q, c)
             \/ Rotate(q) \/ Gate(q) \/ Fail(q) \/ Land(q) \/ LoseCookie(q)
      PROVE  request'[r] = request[r]
  BY <1>1, <1>5 DEF Sent, Send, Rotate, Gate, Fail, Land, LoseCookie
<1>6. ASSUME Quiet \/ \E c \in Clients : Minted(c) \/ SignOut(c)
      PROVE  request'[r] = request[r]
  BY <1>6 DEF Quiet, Minted, SignOut
<1> QED  BY StepKinds, <1>2, <1>3, <1>4, <1>5, <1>6


(* No token changes family, generation or epoch.                           *)
LEMMA TokensKept ==
    ASSUME TypeOK, [Next]_vars, NEW n \in 1 .. Len(toks)
    PROVE  /\ n \in 1 .. Len(toks')
           /\ toks'[n].fam = toks[n].fam /\ toks'[n].gen = toks[n].gen
           /\ toks'[n].epoch = toks[n].epoch
<1>1. n \in 1 .. Len(toks') /\ toks'[n].fam = toks[n].fam
  BY StepTyped DEF Typed, StoreGrows, TypeOK
<1>2. ASSUME NEW c \in Clients, Minted(c)  PROVE toks'[n] = toks[n]
  BY <1>2, MintedFacts
<1>3. ASSUME NEW r \in Requests, Rotate(r)
      PROVE  toks'[n].gen = toks[n].gen /\ toks'[n].epoch = toks[n].epoch
  <2>1. PICK t \in 1 .. Len(toks) : t = request[r].old.tok
    BY <1>3, InFlightTyped DEF Rotate
  <2>2. RotateToken(t) /\ now' = now
    BY <1>3, <2>1 DEF Rotate
  <2> QED  BY <2>2, RotateFacts
<1>4. ASSUME StoreStill  PROVE toks'[n] = toks[n]
  BY <1>4 DEF StoreStill
<1> QED  BY <1>1, <1>2, <1>3, <1>4, StepKinds, OthersStill

Pending(r) == request[r].st \in {"rotated", "renewed"}

(* An answer under way was, or is that of a rotation made just now.        *)
LEMMA PendingAfter ==
    ASSUME TypeOK, [Next]_vars, NEW r \in Requests, Pending(r)'
    PROVE  /\ request[r].st # "idle"
           /\ request'[r].client = request[r].client
           /\ request'[r].old = request[r].old
           /\ request'[r].sentAt = request[r].sentAt
           /\ \/ Pending(r) /\ request'[r].new.tok = request[r].new.tok
              \/ /\ Rotate(r) /\ Verdict(request[r].old.tok) \in Renewing
                 /\ request'[r].new.tok = Len(toks) + 1
<1>1. request[r] \in Asking /\ request \in [Requests -> Asking]
  BY DEF TypeOK
<1>2. request'[r].st # "idle" /\ request'[r].st \notin {"asked", "failed"}
  BY DEF Pending
<1>3. ASSUME Rotate(r)
      PROVE  Verdict(request[r].old.tok) \in Renewing
             /\ request'[r].new.tok = Len(toks) + 1
  BY <1>1, <1>3 DEF Rotate, Pending, Asking
<1>4. ASSUME Gate(r)  PROVE Pending(r) /\ request'[r].new.tok = request[r].new.tok
  BY <1>1, <1>4 DEF Gate, Pending, Asking, Pairs
<1>5. ASSUME Fail(r)  PROVE FALSE
  BY <1>1, <1>5 DEF Fail, Pending
<1>6. ASSUME Land(r) \/ LoseCookie(r)  PROVE FALSE
  <2>1. request'[r] = Idle
    BY <1>1, <1>6 DEF Land, LoseCookie
  <2> QED  BY <2>1 DEF Idle, Pending
<1>7. ASSUME NEW q \in Requests, q # r,
             \/ \E c \in Clients : Sent(q, c)
             \/ Rotate(q) \/ Gate(q) \/ Fail(q) \/ Land(q) \/ LoseCookie(q)
      PROVE  request'[r] = request[r]
  BY <1>1, <1>7 DEF Sent, Send, Rotate, Gate, Fail, Land, LoseCookie
<1>8. ASSUME Quiet \/ \E c \in Clients : Minted(c) \/ SignOut(c)
      PROVE  request'[r] = request[r]
  BY <1>8 DEF Quiet, Minted, SignOut
<1>9. ASSUME NEW c \in Clients, Sent(r, c)  PROVE FALSE
  BY <1>1, <1>2, <1>9 DEF Sent, Send
<1>10. \/ Pending(r) /\ request'[r].new.tok = request[r].new.tok
       \/ /\ Rotate(r) /\ Verdict(request[r].old.tok) \in Renewing
          /\ request'[r].new.tok = Len(toks) + 1
  <2>1. CASE request'[r] = request[r]
    BY <2>1 DEF Pending
  <2> QED  BY <2>1, <1>3, <1>4, <1>5, <1>6, <1>7, <1>8, <1>9, StepKinds
<1> QED  BY <1>2, <1>10, AskAfter

-----------------------------------------------------------------------------
(***************************************************************************)
(* Whose a family is.                                                      *)
(***************************************************************************)
Owns(c, f) ==
    \/ SignedIn(c) /\ toks[held[c].tok].fam = f
    \/ \E r \in Asks(c) : toks[request[r].old.tok].fam = f

(* No token of a family ever reaches two clients.                          *)
OneOwner ==
    \A c, d \in Clients, f \in 1 .. Len(fams) : Owns(c, f) /\ Owns(d, f) => c = d

(* What a rotation answers is the next of what it was asked with.          *)
Succeeds ==
    \A r \in Requests :
        Pending(r) =>
            /\ toks[request[r].new.tok].fam = toks[request[r].old.tok].fam
            /\ toks[request[r].new.tok].gen = toks[request[r].old.tok].gen + 1

Lineage == OneOwner /\ Succeeds

LEMMA SucceedsStep ==
    ASSUME TypeOK, Succeeds, [Next]_vars
    PROVE  Succeeds'
<1> SUFFICES ASSUME NEW r \in Requests, Pending(r)'
             PROVE  /\ toks'[request'[r].new.tok].fam = toks'[request'[r].old.tok].fam
                    /\ toks'[request'[r].new.tok].gen = toks'[request'[r].old.tok].gen + 1
  BY DEF Succeeds
<1>1. PICK o \in 1 .. Len(toks) : o = request[r].old.tok /\ request'[r].old.tok = o
  BY PendingAfter, InFlightTyped
<1>2. toks'[o].fam = toks[o].fam /\ toks'[o].gen = toks[o].gen
  BY TokensKept
<1>3. CASE Pending(r) /\ request'[r].new.tok = request[r].new.tok
  <2>1. PICK n \in 1 .. Len(toks) : n = request[r].new.tok
    BY <1>3, InFlightTyped DEF Pending
  <2> QED  BY <1>1, <1>2, <1>3, <2>1, TokensKept DEF Succeeds
<1>4. CASE /\ Rotate(r) /\ Verdict(request[r].old.tok) \in Renewing
           /\ request'[r].new.tok = Len(toks) + 1
  <2>1. RotateToken(o) /\ now' = now
    BY <1>1, <1>4 DEF Rotate
  <2>2. PICK f : f = toks[o].fam
    OBVIOUS
  <2>3. PICK n : n = Len(toks) + 1
    OBVIOUS
  <2>4. toks'[n].fam = f /\ toks'[n].gen = toks[o].gen + 1
    BY <1>1, <1>4, <2>1, <2>2, <2>3, RotateFacts
  <2>5. request'[r].new.tok = n /\ request'[r].old.tok = o
    BY <1>1, <1>4, <2>3
  <2> QED  BY <1>2, <2>2, <2>4, <2>5
<1> QED  BY <1>3, <1>4, PendingAfter

(* A client comes by a family only by minting it.                          *)
LEMMA OwnsStep ==
    ASSUME TypeOK, Succeeds, [Next]_vars, NEW c \in Clients,
           NEW f \in 1 .. Len(fams'), Owns(c, f)'
    PROVE  \/ f \in 1 .. Len(fams) /\ Owns(c, f)
           \/ f = Len(fams) + 1 /\ Minted(c)
<1>1. Len(toks) \in Nat /\ Len(fams) \in Nat
  BY DEF TypeOK
<1>2. ASSUME NEW n \in 1 .. Len(toks)
      PROVE  toks[n].fam \in 1 .. Len(fams) /\ toks'[n].fam = toks[n].fam
  BY <1>2, TokensKept DEF TypeOK
<1>3. ASSUME SignedIn(c)', toks'[held'[c].tok].fam = f
      PROVE  \/ f \in 1 .. Len(fams) /\ Owns(c, f)
             \/ f = Len(fams) + 1 /\ Minted(c)
  <2>1. CASE held'[c] = held[c]
    <3>1. SignedIn(c) /\ held[c].tok \in 1 .. Len(toks)
      BY <1>3, <2>1 DEF SignedIn, TypeOK, Leaf
    <3> QED  BY <1>2, <1>3, <2>1, <3>1 DEF Owns
  <2>2. CASE Minted(c)
    <3>1. /\ toks'[Len(toks) + 1] = NewLeaf(Len(fams) + 1, 1, 0)
          /\ held'[c].tok = Len(toks) + 1
      BY <2>2, MintedFacts
    <3> QED  BY <1>3, <2>2, <3>1 DEF NewLeaf
  <2>3. ASSUME NEW r \in Asks(c), request[r].st = "renewed",
               held'[c] = request[r].new
        PROVE  f \in 1 .. Len(fams) /\ Owns(c, f)
    <3>1. /\ request[r].new.tok \in 1 .. Len(toks) /\ r \in Requests
          /\ request[r].old.tok \in 1 .. Len(toks)
      BY <2>3, InFlightTyped DEF Asks
    <3>2. toks[request[r].new.tok].fam = toks[request[r].old.tok].fam
      BY <2>3, <3>1 DEF Succeeds, Pending
    <3> QED  BY <1>2, <1>3, <2>3, <3>1, <3>2 DEF Owns
  <2>4. ASSUME NEW r \in Asks(c), held'[c] = request[r].old
        PROVE  f \in 1 .. Len(fams) /\ Owns(c, f)
    <3>1. request[r].old.tok \in 1 .. Len(toks)
      BY InFlightTyped DEF Asks
    <3> QED  BY <1>2, <1>3, <2>4, <3>1 DEF Owns
  <2>5. held'[c].tok # 0
    BY <1>3 DEF SignedIn
  <2> QED  BY <2>1, <2>2, <2>3, <2>4, <2>5, HeldAfter
<1>4. ASSUME NEW r \in Requests, request'[r].st # "idle", request'[r].client = c,
             toks'[request'[r].old.tok].fam = f
      PROVE  f \in 1 .. Len(fams) /\ Owns(c, f)
  <2>1. CASE /\ request[r].st # "idle" /\ request'[r].client = request[r].client
             /\ request'[r].old = request[r].old
    <3>1. request[r].old.tok \in 1 .. Len(toks) /\ r \in Asks(c)
      BY <1>4, <2>1, InFlightTyped DEF Asks
    <3> QED  BY <1>2, <1>4, <2>1, <3>1 DEF Owns
  <2>2. ASSUME NEW d \in Clients, Sent(r, d), request'[r].client = d,
               request'[r].old = held[d]
        PROVE  f \in 1 .. Len(fams) /\ Owns(c, f)
    <3>1. SignedIn(c) /\ held[c].tok \in 1 .. Len(toks) /\ d = c
      BY <1>4, <2>2 DEF Sent, TypeOK, Leaf
    <3> QED  BY <1>2, <1>4, <2>2, <3>1 DEF Owns
  <2> QED  BY <1>4, <2>1, <2>2, AskAfter
<1> QED  BY <1>3, <1>4 DEF Owns, Asks

LEMMA LineageStep ==
    ASSUME TypeOK, Lineage, [Next]_vars
    PROVE  Lineage'
<1>1. Succeeds'
  BY SucceedsStep DEF Lineage
<1>2. ASSUME NEW c \in Clients, NEW d \in Clients, NEW f \in 1 .. Len(fams'),
             Owns(c, f)', Owns(d, f)'
      PROVE  c = d
  <2>1. CASE f \in 1 .. Len(fams)
    <3>1. Owns(c, f) /\ Owns(d, f)
      BY <1>2, <2>1, OwnsStep DEF Lineage, TypeOK
    <3> QED  BY <2>1, <3>1 DEF Lineage, OneOwner
  <2>2. CASE f \notin 1 .. Len(fams)
    <3>1. Minted(c) /\ Minted(d)
      BY <1>2, <2>2, OwnsStep DEF Lineage
    <3>2. held'[d].tok = Len(toks) + 1 /\ Len(toks) \in Nat
      BY <3>1, MintedFacts DEF TypeOK
    <3>3. d # c => held'[d] = held[d]
      BY <3>1, MintedFacts
    <3>4. held[d].tok = 0 \/ held[d].tok \in 1 .. Len(toks)
      BY DEF TypeOK, SignedIn, Leaf
    <3> QED  BY <3>2, <3>3, <3>4
  <2> QED  BY <2>1, <2>2
<1> QED  BY <1>1, <1>2 DEF Lineage, OneOwner

-----------------------------------------------------------------------------
(***************************************************************************)
(* Generations and times.                                                  *)
(***************************************************************************)
LEMMA LeafTyped ==
    ASSUME TypeOK, NEW n \in 1 .. Len(toks)
    PROVE  /\ toks[n] \in Leaves
           /\ toks[n].fam \in 1 .. Len(fams) /\ FamilyOf(n) \in Families
           /\ toks[n].gen \in Nat /\ toks[n].epoch \in Nat
           /\ toks[n].status \in {"active", "spent"}
           /\ FamilyOf(n).lastUsedGen \in Nat /\ FamilyOf(n).epoch \in Nat
           /\ FamilyOf(n).issuedAt \in Nat
<1>1. toks[n] \in Leaves /\ toks[n].fam \in 1 .. Len(fams)
  BY DEF TypeOK
<1>2. FamilyOf(n) \in Families
  BY <1>1 DEF TypeOK, FamilyOf
<1> QED  BY <1>1, <1>2 DEF Leaves, Families

(* What each verdict says of the token and of its family.                  *)
LEMMA VerdictFacts ==
    ASSUME TypeOK, NEW t \in 1 .. Len(toks)
    PROVE  LET v == Verdict(t)
               family == FamilyOf(t)
           IN  /\ v \in Renewing =>
                      /\ family.revoked = "no"
                      /\ toks[t].gen >= family.lastUsedGen
                      /\ toks[t].epoch >= family.epoch
               /\ v = "rotated" => toks[t].status = "active"
               /\ v \in {"grace", "recovered"} => toks[t].status = "spent"
               /\ v = "reuse" => toks[t].gen < family.lastUsedGen
               /\ v \in {"expired", "revoked"} => Over(toks[t].fam)
               /\ v = "orphaned" => toks[t].epoch < family.epoch
               /\ v \in Renewing \cup {"reuse", "expired", "revoked", "orphaned"}
<1>1. now >= ExpiresAt(toks[t].fam) => Verdict(t) = "expired"
  BY DEF Verdict
<1>2. /\ ~(now >= ExpiresAt(toks[t].fam)) /\ FamilyOf(t).revoked # "no"
      => Verdict(t) = "revoked"
  BY DEF Verdict
<1>3. /\ ~(now >= ExpiresAt(toks[t].fam)) /\ FamilyOf(t).revoked = "no"
      /\ BehindItsFamily(t)
      => Verdict(t) = "reuse"
  BY DEF Verdict
<1>4. /\ ~(now >= ExpiresAt(toks[t].fam)) /\ FamilyOf(t).revoked = "no"
      /\ ~BehindItsFamily(t) /\ toks[t].epoch < FamilyOf(t).epoch
      => Verdict(t) = "orphaned"
  BY DEF Verdict
<1>5. /\ ~(now >= ExpiresAt(toks[t].fam)) /\ FamilyOf(t).revoked = "no"
      /\ ~BehindItsFamily(t) /\ ~(toks[t].epoch < FamilyOf(t).epoch)
      => /\ toks[t].status = "active" => Verdict(t) = "rotated"
         /\ toks[t].status # "active" => Verdict(t) \in {"grace", "recovered"}
  BY DEF Verdict
<1> QED
  BY <1>1, <1>2, <1>3, <1>4, <1>5, LeafTyped
     DEF BehindItsFamily, Renewing, Over, FamilyOf

(* A family's tokens are at most one generation past the last that it saw  *)
(* used, and the spent ones not even that.                                 *)
Generations ==
    \A n \in 1 .. Len(toks) :
        /\ toks[n].gen <= FamilyOf(n).lastUsedGen + 1
        /\ toks[n].status = "spent" => toks[n].gen <= FamilyOf(n).lastUsedGen

(* A request lasts no longer than it may, an access token is no older than *)
(* the request that brings it, and, unless it is forced, a renewal is only *)
(* asked for when the token held is due.                                   *)
Times ==
    \A r \in Requests :
        request[r].st # "idle" =>
            /\ request[r].sentAt <= now /\ now <= request[r].sentAt + Abort
            /\ request[r].st = "renewed" => request[r].sentAt <= request[r].new.iat
            /\ request[r].st = "asked" /\ pushed = 0 =>
                   request[r].sentAt >= request[r].old.iat + FreshFor

LEMMA GenerationsStep ==
    ASSUME TypeOK, Generations, [Next]_vars
    PROVE  Generations'
<1> SUFFICES ASSUME NEW n \in 1 .. Len(toks')
             PROVE  /\ toks'[n].gen <= fams'[toks'[n].fam].lastUsedGen + 1
                    /\ toks'[n].status = "spent" =>
                           toks'[n].gen <= fams'[toks'[n].fam].lastUsedGen
  BY DEF Generations, FamilyOf
<1>1. Len(toks) \in Nat /\ Len(fams) \in Nat
  BY DEF TypeOK
<1>2. n \in 1 .. Len(toks) =>
          /\ toks[n].fam \in 1 .. Len(fams)
          /\ toks[n].gen <= fams[toks[n].fam].lastUsedGen + 1
          /\ toks[n].status = "spent" => toks[n].gen <= fams[toks[n].fam].lastUsedGen
          /\ toks[n].gen \in Nat /\ fams[toks[n].fam].lastUsedGen \in Nat
  BY LeafTyped DEF Generations, FamilyOf
<1>3. ASSUME NEW c \in Clients, Minted(c)
      PROVE  /\ toks'[n].gen <= fams'[toks'[n].fam].lastUsedGen + 1
             /\ toks'[n].status = "spent" =>
                    toks'[n].gen <= fams'[toks'[n].fam].lastUsedGen
  <2>1. CASE n \in 1 .. Len(toks)
    BY <1>2, <1>3, <2>1, MintedFacts
  <2>2. CASE n = Len(toks) + 1
    <3>1. toks'[n] = NewLeaf(Len(fams) + 1, 1, 0)
          /\ fams'[Len(fams) + 1].lastUsedGen = 0
      BY <1>3, <2>2, MintedFacts
    <3> QED  BY <3>1 DEF NewLeaf
  <2>3. Len(toks') = Len(toks) + 1
    BY <1>3, MintedFacts
  <2> QED  BY <1>1, <2>1, <2>2, <2>3
<1>4. ASSUME NEW r \in Requests, Rotate(r)
      PROVE  /\ toks'[n].gen <= fams'[toks'[n].fam].lastUsedGen + 1
             /\ toks'[n].status = "spent" =>
                    toks'[n].gen <= fams'[toks'[n].fam].lastUsedGen
  <2>1. PICK t \in 1 .. Len(toks) : t = request[r].old.tok
    BY <1>4, InFlightTyped DEF Rotate
  <2>2. RotateToken(t) /\ now' = now
    BY <1>4, <2>1 DEF Rotate
  <2>3. PICK f \in 1 .. Len(fams) : f = toks[t].fam
    BY LeafTyped
  <2>4. PICK v : v = Verdict(t)
    OBVIOUS
  <2>5. /\ \A g \in 1 .. Len(fams) : g # f => fams'[g] = fams[g]
        /\ fams'[f].lastUsedGen =
               IF v = "rotated" THEN toks[t].gen ELSE fams[f].lastUsedGen
        /\ \A m \in 1 .. Len(toks) : m # t => toks'[m] = toks[m]
        /\ toks'[t].fam = f /\ toks'[t].gen = toks[t].gen
        /\ toks'[t].status = IF v = "rotated" THEN "spent" ELSE toks[t].status
        /\ v \notin Renewing => toks' = toks
        /\ v \in Renewing =>
               /\ Len(toks') = Len(toks) + 1
               /\ toks'[Len(toks) + 1].fam = f
               /\ toks'[Len(toks) + 1].gen = toks[t].gen + 1
               /\ toks'[Len(toks) + 1].status = "active"
    BY <2>2, <2>3, <2>4, RotateFacts
  <2>6. /\ v \in Renewing => toks[t].gen >= fams[f].lastUsedGen
        /\ v \in {"grace", "recovered"} => toks[t].status = "spent"
    BY <2>3, <2>4, VerdictFacts DEF FamilyOf
  <2>7. /\ toks[t].gen \in Nat /\ fams[f].lastUsedGen \in Nat
        /\ toks[t].gen <= fams[f].lastUsedGen + 1
        /\ toks[t].status = "spent" => toks[t].gen <= fams[f].lastUsedGen
    BY <2>3, LeafTyped DEF Generations, FamilyOf
  <2>8. fams'[f].lastUsedGen \in Nat /\ fams'[f].lastUsedGen >= fams[f].lastUsedGen
    BY <2>5, <2>6, <2>7 DEF Renewing
  <2>9. CASE n \in 1 .. Len(toks) /\ n # t
    <3>1. PICK g \in 1 .. Len(fams) : g = toks[n].fam
      BY <1>2, <2>9
    <3>2. /\ toks[n].gen <= fams[g].lastUsedGen + 1
          /\ toks[n].status = "spent" => toks[n].gen <= fams[g].lastUsedGen
          /\ toks[n].gen \in Nat /\ fams[g].lastUsedGen \in Nat
      BY <1>2, <2>9, <3>1
    <3>3. toks'[n] = toks[n]
      BY <2>5, <2>9
    <3>4. fams'[g].lastUsedGen \in Nat /\ fams'[g].lastUsedGen >= fams[g].lastUsedGen
      BY SMTT(30), <2>5, <2>8, <3>2
    <3>5. /\ toks'[n].fam = g /\ toks'[n].gen = toks[n].gen
          /\ toks'[n].status = toks[n].status
      BY <3>1, <3>3
    <3>6. toks[n].gen <= fams'[g].lastUsedGen + 1
      BY SMTT(30), <3>2, <3>4
    <3>7. toks[n].status = "spent" => toks[n].gen <= fams'[g].lastUsedGen
      BY SMTT(30), <3>2, <3>4
    <3> QED  BY <3>5, <3>6, <3>7
  <2>10. CASE n = t
    BY SMTT(30), <2>5, <2>7, <2>8, <2>10
  <2>11. CASE n = Len(toks) + 1 /\ v \in Renewing
    <3>1. toks'[n].fam = f /\ toks'[n].gen = toks[t].gen + 1
          /\ toks'[n].status = "active"
      BY <2>5, <2>11
    <3>2. toks[t].gen <= fams'[f].lastUsedGen
      BY <2>5, <2>6, <2>7, <2>11 DEF Renewing
    <3> QED  BY SMTT(30), <3>1, <3>2, <2>7, <2>8
  <2> QED  BY <1>1, <2>5, <2>9, <2>10, <2>11
<1>5. ASSUME StoreStill
      PROVE  /\ toks'[n].gen <= fams'[toks'[n].fam].lastUsedGen + 1
             /\ toks'[n].status = "spent" =>
                    toks'[n].gen <= fams'[toks'[n].fam].lastUsedGen
  BY <1>2, <1>5 DEF StoreStill
<1> QED  BY <1>3, <1>4, <1>5, StepKinds, OthersStill

LEMMA TimesStep ==
    ASSUME TypeOK, Times, [Next]_vars
    PROVE  Times'
<1> SUFFICES ASSUME NEW r \in Requests, request'[r].st # "idle"
             PROVE  /\ request'[r].sentAt <= now'
                    /\ now' <= request'[r].sentAt + Abort
                    /\ request'[r].st = "renewed" =>
                           request'[r].sentAt <= request'[r].new.iat
                    /\ request'[r].st = "asked" /\ pushed' = 0 =>
                           request'[r].sentAt >= request'[r].old.iat + FreshFor
  BY DEF Times
<1>1. /\ request[r] \in Asking /\ request \in [Requests -> Asking]
      /\ request[r].sentAt \in Nat /\ now \in Nat /\ pushed \in Nat
      /\ request[r].old.iat \in Nat
  BY DEF TypeOK, Asking, Pairs
<1>2. request[r].st # "idle" =>
          /\ request[r].sentAt <= now /\ now <= request[r].sentAt + Abort
          /\ request[r].st = "renewed" => request[r].sentAt <= request[r].new.iat
          /\ request[r].st = "asked" /\ pushed = 0 =>
                 request[r].sentAt >= request[r].old.iat + FreshFor
  BY DEF Times
<1>3. ASSUME NEW c \in Clients, Sent(r, c)
      PROVE  /\ request'[r].sentAt = now /\ now' = now
             /\ request'[r].st # "renewed"
             /\ request'[r].st = "asked" /\ pushed' = 0 =>
                    now >= request'[r].old.iat + FreshFor
  <2>1. PICK st \in {"asked", "failed"} :
            Send(r, c, st) /\ (st = "asked" /\ pushed' = 0 => Due(c))
    BY <1>3 DEF Sent
  <2>2. /\ request'[r].st = st /\ request'[r].old = held[c]
        /\ request'[r].sentAt = now
    BY <1>1, <2>1 DEF Send
  <2> QED  BY <1>3, <2>1, <2>2 DEF Sent, Due, store
<1>4. ASSUME Rotate(r)
      PROVE  /\ now' = now /\ request'[r].sentAt = request[r].sentAt
             /\ request'[r].st \in {"rotated", "refused"} /\ request[r].st # "idle"
  BY <1>1, <1>4 DEF Rotate, Asking
<1>5. ASSUME Gate(r)
      PROVE  /\ now' = now /\ request'[r].sentAt = request[r].sentAt
             /\ request'[r].st \in {"renewed", "refused"} /\ request[r].st # "idle"
             /\ request'[r].new.iat \in Nat /\ request'[r].new.iat >= now
  <2>1. PICK f \in 1 .. Len(fams) : f = toks[request[r].new.tok].fam
    BY <1>5, InFlightTyped DEF Gate
  <2>2. fams[f].issuedAt \in Nat
    BY FamilyTyped
  <2>3. IssuedAt(f) \in Nat /\ IssuedAt(f) >= now
    BY <1>1, <2>2 DEF IssuedAt
  <2>4. request'[r].new.iat = IssuedAt(f)
    BY <1>1, <1>5, <2>1 DEF Gate, Asking, Pairs
  <2> QED  BY <1>1, <1>5, <2>3, <2>4 DEF Gate, Asking
<1>6. ASSUME Fail(r)
      PROVE  /\ now' = now /\ request'[r].sentAt = request[r].sentAt
             /\ request'[r].st = "failed" /\ request[r].st # "idle"
  BY <1>1, <1>6 DEF Fail, Asking, store
<1>7. ASSUME Land(r) \/ LoseCookie(r)  PROVE FALSE
  <2>1. request'[r] = Idle
    BY <1>1, <1>7 DEF Land, LoseCookie
  <2> QED  BY <2>1 DEF Idle
<1>8. ASSUME NEW q \in Requests, q # r,
             \/ \E c \in Clients : Sent(q, c)
             \/ Rotate(q) \/ Gate(q) \/ Fail(q) \/ Land(q) \/ LoseCookie(q)
      PROVE  request'[r] = request[r] /\ now' = now /\ pushed' \in Nat
             /\ pushed' >= pushed
  <2>1. CASE \E c \in Clients : Sent(q, c)
    <3>1. PICK c \in Clients : Sent(q, c)
      BY <2>1
    <3>2. request'[r] = request[r] /\ now' = now
      BY <1>1, <1>8, <3>1 DEF Sent, Send, store
    <3> QED  BY <1>1, <3>1, <3>2 DEF Sent
  <2>2. CASE Rotate(q)
    BY <1>1, <1>8, <2>2 DEF Rotate
  <2>4. CASE Gate(q)
    <3>1. UNCHANGED <<now, pushed>>
      BY <2>4 DEF Gate, tallies
    <3>2. PICK st, i : request' = [request EXCEPT ![q].st = st, ![q].new.iat = i]
      BY <2>4 DEF Gate
    <3>3. request'[r] = request[r]
      BY <1>1, <1>8, <3>2
    <3> QED  BY <1>1, <3>1, <3>3
  <2>5. CASE Fail(q)
    BY <1>1, <1>8, <2>5 DEF Fail, store
  <2>3. CASE Land(q) \/ LoseCookie(q)
    BY <1>1, <1>8, <2>3 DEF Land, LoseCookie, store, tallies
  <2> QED  BY <1>8, <2>1, <2>2, <2>3, <2>4, <2>5
<1>9. ASSUME \E c \in Clients : Minted(c) \/ SignOut(c)
      PROVE  request'[r] = request[r] /\ now' = now /\ pushed' = pushed
  BY <1>9 DEF Minted, SignOut, tallies
<1>10. ASSUME Quiet
       PROVE  /\ request'[r] = request[r] /\ pushed' = pushed /\ now' \in Nat
              /\ now' >= now
              /\ request[r].st # "idle" =>
                     now' = now \/ now' <= request[r].sentAt + Abort
  BY <1>10 DEF Quiet, tallies
<1>11. CASE request'[r] = request[r] /\ now' = now /\ pushed' \in Nat /\ pushed' >= pushed
  BY <1>1, <1>2, <1>11
<1>12. CASE \E c \in Clients : Sent(r, c)
  BY <1>1, <1>3, <1>12, AbortIsNat
<1>13. CASE Rotate(r)
  BY <1>1, <1>2, <1>4, <1>13
<1>14. CASE Gate(r)
  BY <1>1, <1>2, <1>5, <1>14
<1>15. CASE Fail(r)
  BY <1>1, <1>2, <1>6, <1>15
<1>16. CASE Quiet
  BY <1>1, <1>2, <1>10, <1>16
<1> QED
  BY <1>1, <1>7, <1>8, <1>9, <1>11, <1>12, <1>13, <1>14, <1>15, <1>16, StepKinds

-----------------------------------------------------------------------------
(***************************************************************************)
(* Nobody is taken for a thief.                                            *)
(***************************************************************************)
(* What a client may still present: the pair it holds and those that its   *)
(* requests started with.                                                  *)
Kept(c) == {x \in {held[c]} \cup {request[r].old : r \in Asks(c)} : x.tok # 0}

(* How long after a pair is brought another one may be put back over it.   *)
Late == (stale + 1) * Abort

(* The hypothesis of NoFalseTheft.                                         *)
Calm == pushed = 0 /\ (stale + 2) * Abort < FreshFor

(* No client may present a token that its family has moved past.           *)
Ahead ==
    \A c \in Clients : \A x \in Kept(c) :
        toks[x.tok].gen >= FamilyOf(x.tok).lastUsedGen

(* z is not held, and nothing asks with it any more soon after x came.     *)
Fading(c, x, z) ==
    /\ held[c] # z
    /\ \A r \in Asks(c) : request[r].old = z => request[r].sentAt <= x.iat + Late

(* Of two pairs of a family, the older and the newer, one is on its way    *)
(* out, and is so before the newer is due.                                 *)
OneStays ==
    \A c \in Clients : \A x, y \in Kept(c) :
        /\ toks[x.tok].fam = toks[y.tok].fam
        /\ toks[y.tok].gen < toks[x.tok].gen
        => Fading(c, x, x) \/ Fading(c, x, y)

NoReuse == \A f \in 1 .. Len(fams) : fams[f].revoked # "reuse"

CalmInv == Calm => Ahead /\ OneStays /\ NoReuse

HonestInv == Lineage /\ Generations /\ Times /\ CalmInv

LEMMA ProductGrows ==
    ASSUME NEW a \in Nat, NEW n \in Nat
    PROVE  /\ n * a \in Nat
           /\ (n + 1) * a = n * a + a
           /\ (n + 2) * a = n * a + a + a
OBVIOUS

(* Lateness grows by one request for each cookie put back, and while the   *)
(* times are calm it ends a request's time before a token is due.          *)
LEMMA LateFacts ==
    ASSUME TypeOK, TypeOK', [Next]_vars, Calm'
    PROVE  /\ Calm /\ pushed = 0 /\ Late \in Nat /\ Late' \in Nat
           /\ Late >= Abort /\ Late' >= Late /\ Late + Abort < FreshFor
           /\ stale' = stale + 1 => Late' = Late + Abort
<1>1. /\ pushed \in Nat /\ stale \in Nat /\ pushed' \in Nat /\ stale' \in Nat
      /\ Abort \in Nat /\ FreshFor \in Nat
  BY AbortIsNat, FreshForIsNat DEF TypeOK
<1>2. pushed' >= pushed /\ (stale' = stale \/ stale' = stale + 1)
  <2>1. ASSUME \E c \in Clients : Minted(c) \/ SignOut(c)
        PROVE  pushed' = pushed /\ stale' = stale
    BY <2>1 DEF Minted, SignOut, tallies
  <2>2. ASSUME NEW r \in Requests,
               Rotate(r) \/ Gate(r) \/ Fail(r) \/ Land(r) \/ LoseCookie(r)
        PROVE  pushed' = pushed /\ (stale' = stale \/ stale' = stale + 1)
    BY <2>2 DEF Rotate, Gate, Fail, Land, LoseCookie, tallies
  <2>3. ASSUME NEW r \in Requests, NEW c \in Clients, Sent(r, c)
        PROVE  pushed' >= pushed /\ stale' = stale
    BY <2>3 DEF Sent
  <2>4. ASSUME Quiet  PROVE pushed' = pushed /\ stale' = stale
    BY <2>4 DEF Quiet, tallies
  <2> QED  BY <1>1, <2>1, <2>2, <2>3, <2>4, StepKinds
<1>3. PICK m \in Nat : m = stale * Abort
  BY <1>1, ProductGrows
<1>4. Late = m + Abort /\ (stale + 2) * Abort = m + Abort + Abort
  BY <1>1, <1>3, ProductGrows DEF Late
<1>5. stale' = stale \/ (stale' * Abort = m + Abort)
  BY <1>1, <1>2, <1>3, ProductGrows
<1>6. /\ Late' = stale' * Abort + Abort
      /\ (stale' + 2) * Abort = stale' * Abort + Abort + Abort
  BY <1>1, ProductGrows DEF Late
<1>7. pushed' = 0 /\ (stale' + 2) * Abort < FreshFor
  BY DEF Calm
<1>8. CASE stale' = stale
  <2>1. Late' = m + Abort /\ m + Abort + Abort < FreshFor
    BY <1>3, <1>6, <1>7, <1>8
  <2>2. stale' # stale + 1
    BY <1>1, <1>8
  <2> QED  BY <1>1, <1>2, <1>4, <1>7, <2>1, <2>2 DEF Calm
<1>9. CASE stale' # stale
  <2>1. Late' = m + Abort + Abort /\ m + Abort + Abort + Abort < FreshFor
    BY <1>5, <1>6, <1>7, <1>9
  <2> QED  BY <1>1, <1>2, <1>4, <1>7, <2>1 DEF Calm
<1> QED  BY <1>8, <1>9

LEMMA KeptTyped ==
    ASSUME TypeOK, NEW c \in Clients, NEW x \in Kept(c)
    PROVE  /\ x \in Pairs /\ x.iat \in Nat
           /\ x.tok \in 1 .. Len(toks) /\ toks[x.tok].fam \in 1 .. Len(fams)
           /\ Owns(c, toks[x.tok].fam)
           /\ x = held[c] \/ \E r \in Asks(c) : x = request[r].old
<1>1. CASE x = held[c]
  <2>1. x \in Pairs /\ x.tok \in 1 .. Len(toks) /\ SignedIn(c)
    BY <1>1 DEF TypeOK, SignedIn, Leaf, Kept
  <2> QED  BY <1>1, <2>1, LeafTyped DEF Pairs, Owns
<1>2. ASSUME NEW r \in Asks(c), x = request[r].old
      PROVE  /\ x \in Pairs /\ x.iat \in Nat
             /\ x.tok \in 1 .. Len(toks) /\ toks[x.tok].fam \in 1 .. Len(fams)
             /\ Owns(c, toks[x.tok].fam)
  <2>1. x \in Pairs /\ x.tok \in 1 .. Len(toks)
    BY <1>2, InFlightTyped DEF Asks
  <2> QED  BY <1>2, <2>1, LeafTyped DEF Pairs, Owns
<1> QED  BY <1>1, <1>2 DEF Kept

(* A pair that a client keeps it kept before, or it comes with this step:  *)
(* with a new session, or with an answer.                                  *)
LEMMA KeptAfter ==
    ASSUME TypeOK, [Next]_vars, NEW c \in Clients, NEW x \in Kept(c)'
    PROVE  \/ x \in Kept(c)
           \/ Minted(c) /\ x = held'[c]
           \/ \E r \in Asks(c) :
                  /\ Land(r) /\ request[r].st = "renewed"
                  /\ x = held'[c] /\ x = request[r].new
<1>1. x.tok # 0
  BY DEF Kept
<1>2. CASE x = held'[c]
  <2>1. ASSUME NEW r \in Asks(c), x = request[r].old  PROVE x \in Kept(c)
    BY <1>1, <2>1 DEF Kept
  <2>2. x = held[c] => x \in Kept(c)
    BY <1>1 DEF Kept
  <2> QED  BY <1>1, <1>2, <2>1, <2>2, HeldAfter
<1>3. ASSUME NEW r \in Requests, request'[r].st # "idle", request'[r].client = c,
             x = request'[r].old
      PROVE  x \in Kept(c)
  <2>1. CASE /\ request[r].st # "idle" /\ request'[r].client = request[r].client
             /\ request'[r].old = request[r].old
    BY <1>1, <1>3, <2>1 DEF Kept, Asks
  <2>2. ASSUME NEW d \in Clients, request'[r].client = d, request'[r].old = held[d]
        PROVE  x \in Kept(c)
    BY <1>1, <1>3, <2>2 DEF Kept
  <2> QED  BY <1>3, <2>1, <2>2, AskAfter
<1> QED  BY <1>2, <1>3 DEF Kept, Asks

(* Nobody asks for what is on its way out; a request that asks is no       *)
(* younger than it was.                                                    *)
LEMMA FadingAsks ==
    ASSUME TypeOK, TypeOK', [Next]_vars, Calm', NEW c \in Clients,
           NEW x \in Pairs, NEW z, Fading(c, x, z), NEW r \in Asks(c)',
           request'[r].old = z
    PROVE  request'[r].sentAt <= x.iat + Late'
<1>1. x.iat \in Nat /\ Late \in Nat /\ Late' \in Nat /\ Late' >= Late
  BY LateFacts DEF Pairs
<1>2. r \in Requests /\ request'[r].st # "idle" /\ request'[r].client = c
  BY DEF Asks
<1>3. CASE /\ request[r].st # "idle" /\ request'[r].client = request[r].client
           /\ request'[r].old = request[r].old
           /\ request'[r].sentAt = request[r].sentAt
  <2>1. request[r].sentAt <= x.iat + Late /\ request[r].sentAt \in Nat
    BY <1>2, <1>3 DEF Fading, Asks, TypeOK, Asking
  <2> QED  BY <1>1, <1>3, <2>1
<1>4. ASSUME NEW d \in Clients, request'[r].client = d, request'[r].old = held[d]
      PROVE  FALSE
  BY <1>2, <1>4 DEF Fading
<1> QED  BY <1>2, <1>3, <1>4, AskAfter

(* What is rotated is the newest that its client keeps: an older one is    *)
(* out, and a newer one is not due yet.                                    *)
LEMMA AskedIsNewest ==
    ASSUME TypeOK, HonestInv, Calm, pushed = 0, Late \in Nat, Late + Abort < FreshFor,
           NEW r \in Requests, request[r].st = "asked",
           NEW c \in Clients, NEW x \in Kept(c),
           toks[x.tok].fam = toks[request[r].old.tok].fam
    PROVE  /\ c = request[r].client /\ request[r].old \in Kept(c)
           /\ toks[x.tok].gen >= toks[request[r].old.tok].gen
<1>1. PICK d \in Clients : d = request[r].client
  BY InFlightTyped
<1>2. r \in Asks(d) /\ request[r].old.tok \in 1 .. Len(toks)
  BY <1>1, InFlightTyped DEF Asks
<1>3. request[r].old \in Kept(d)
  BY <1>2 DEF Kept, TypeOK
<1>4. c = d
  BY <1>3, KeptTyped DEF HonestInv, Lineage, OneOwner
<1>5. PICK old \in Kept(c) : old = request[r].old
  BY <1>3, <1>4
<1>6. /\ old.iat \in Nat /\ now \in Nat /\ request[r].sentAt \in Nat
      /\ request[r].sentAt >= old.iat + FreshFor /\ request[r].sentAt <= now
      /\ Abort \in Nat /\ FreshFor \in Nat
  BY <1>5, KeptTyped, AbortIsNat, FreshForIsNat DEF HonestInv, Times, TypeOK, Asking
<1>7. ASSUME toks[x.tok].gen < toks[old.tok].gen  PROVE FALSE
  <2>1. Fading(c, old, old) \/ Fading(c, old, x)
    BY <1>5, <1>7 DEF HonestInv, CalmInv, OneStays
  <2>2. CASE Fading(c, old, old)
    <3>1. request[r].sentAt <= old.iat + Late
      BY <1>2, <1>4, <1>5, <2>2 DEF Fading
    <3> QED  BY <1>6, <3>1
  <2>3. CASE Fading(c, old, x)
    <3>1. PICK q \in Asks(c) : x = request[q].old
      BY <2>3, KeptTyped DEF Fading
    <3>2. request[q].sentAt <= old.iat + Late
      BY <2>3, <3>1 DEF Fading
    <3>3. request[q].sentAt \in Nat /\ now <= request[q].sentAt + Abort
      BY <3>1 DEF Asks, HonestInv, Times, TypeOK, Asking
    <3> QED  BY <1>6, <3>2, <3>3
  <2> QED  BY <2>1, <2>2, <2>3
<1>8. toks[x.tok].gen \in Nat /\ toks[old.tok].gen \in Nat
  BY KeptTyped, LeafTyped
<1> QED  BY <1>1, <1>3, <1>4, <1>5, <1>7, <1>8

LEMMA NoReuseStep ==
    ASSUME TypeOK, TypeOK', HonestInv, [Next]_vars, Calm'
    PROVE  NoReuse'
<1> SUFFICES ASSUME NEW f \in 1 .. Len(fams')  PROVE fams'[f].revoked # "reuse"
  BY DEF NoReuse
<1>1. Ahead /\ \A g \in 1 .. Len(fams) : fams[g].revoked # "reuse"
  BY LateFacts DEF HonestInv, CalmInv, NoReuse
<1>2. ASSUME NEW c \in Clients, Minted(c)  PROVE fams'[f].revoked # "reuse"
  <2>1. Len(fams) \in Nat /\ Len(fams') = Len(fams) + 1
    BY SMTT(30), <1>2, MintedFacts DEF TypeOK
  <2>2. CASE f \in 1 .. Len(fams)
    BY <1>1, <1>2, <2>2, MintedFacts
  <2>3. CASE f = Len(fams) + 1
    <3>1. fams'[Len(fams) + 1].revoked = "no"
      BY <1>2, MintedFacts
    <3> QED  BY <2>3, <3>1
  <2> QED  BY <2>1, <2>2, <2>3
<1>3. ASSUME NEW r \in Requests, Rotate(r)  PROVE fams'[f].revoked # "reuse"
  <2>1. PICK t \in 1 .. Len(toks) : t = request[r].old.tok
    BY <1>3, InFlightTyped DEF Rotate
  <2>2. RotateToken(t) /\ now' = now
    BY <1>3, <2>1 DEF Rotate
  <2>3. request[r].old \in Kept(request[r].client) /\ request[r].client \in Clients
    BY <1>3, <2>1, InFlightTyped DEF Kept, Asks, Rotate
  <2>4. toks[t].gen >= FamilyOf(t).lastUsedGen
    BY <1>1, <2>1, <2>3 DEF Ahead
  <2>5. Verdict(t) # "reuse"
    BY <2>4, VerdictFacts, LeafTyped
  <2>6. PICK g \in 1 .. Len(fams) : g = toks[t].fam
    BY LeafTyped
  <2>7. /\ Len(fams') = Len(fams)
        /\ \A h \in 1 .. Len(fams) : h # g => fams'[h] = fams[h]
        /\ fams'[g].revoked = fams[g].revoked
    BY <2>2, <2>5, <2>6, RotateFacts
  <2> QED  BY <1>1, <2>7
<1>4. ASSUME StoreStill  PROVE fams'[f].revoked # "reuse"
  BY <1>1, <1>4 DEF StoreStill
<1> QED  BY <1>2, <1>3, <1>4, StepKinds, OthersStill

(* The answer of a rotation is ahead of its family, until it is used.      *)
LEMMA AnswerIsAhead ==
    ASSUME TypeOK, HonestInv, Calm, NEW r \in Requests, Pending(r)
    PROVE  /\ request[r].new.tok \in 1 .. Len(toks)
           /\ toks[request[r].new.tok].gen >= FamilyOf(request[r].new.tok).lastUsedGen + 1
<1>1. PICK c \in Clients : c = request[r].client
  BY InFlightTyped DEF Pending
<1>2. request[r].old.tok \in 1 .. Len(toks) /\ request[r].new.tok \in 1 .. Len(toks)
  BY InFlightTyped DEF Pending
<1>3. request[r].old \in Kept(c)
  BY <1>1, <1>2 DEF Kept, Asks, Pending
<1>4. toks[request[r].old.tok].gen >= FamilyOf(request[r].old.tok).lastUsedGen
  BY <1>3 DEF HonestInv, CalmInv, Ahead
<1>5. /\ toks[request[r].new.tok].fam = toks[request[r].old.tok].fam
      /\ toks[request[r].new.tok].gen = toks[request[r].old.tok].gen + 1
  BY DEF HonestInv, Lineage, Succeeds
<1>6. PICK o \in 1 .. Len(toks) : o = request[r].old.tok
  BY <1>2
<1>7. toks[o].gen \in Nat /\ FamilyOf(o).lastUsedGen \in Nat
  BY LeafTyped
<1> QED  BY SMTT(30), <1>2, <1>4, <1>5, <1>6, <1>7 DEF FamilyOf

LEMMA AheadStep ==
    ASSUME TypeOK, TypeOK', HonestInv, [Next]_vars, Calm'
    PROVE  Ahead'
<1> SUFFICES ASSUME NEW c \in Clients, NEW x \in Kept(c)'
             PROVE  toks'[x.tok].gen >= fams'[toks'[x.tok].fam].lastUsedGen
  BY DEF Ahead, FamilyOf
<1>1. /\ Calm /\ pushed = 0 /\ Late \in Nat /\ Late + Abort < FreshFor
      /\ Ahead /\ Len(toks) \in Nat
  BY LateFacts DEF HonestInv, CalmInv, TypeOK
<1>2. CASE x \in Kept(c)
  <2>1. PICK n \in 1 .. Len(toks) : n = x.tok
    BY <1>2, KeptTyped
  <2>2. PICK f \in 1 .. Len(fams) : f = toks[n].fam
    BY LeafTyped
  <2>3. toks'[n].fam = f /\ toks'[n].gen = toks[n].gen
    BY <2>2, TokensKept
  <2>4. /\ toks[n].gen \in Nat /\ fams[f].lastUsedGen \in Nat
        /\ toks[n].gen >= fams[f].lastUsedGen
    BY <1>1, <1>2, <2>1, <2>2, LeafTyped DEF Ahead, FamilyOf
  <2>5. ASSUME NEW r \in Requests, Rotate(r)
        PROVE  toks[n].gen >= fams'[f].lastUsedGen
    <3>1. PICK t \in 1 .. Len(toks) : t = request[r].old.tok
      BY <2>5, InFlightTyped DEF Rotate
    <3>2. RotateToken(t) /\ now' = now /\ request[r].st = "asked"
      BY <2>5, <3>1 DEF Rotate
    <3>3. CASE f = toks[t].fam
      <4>1. toks[n].gen >= toks[t].gen
        BY <1>1, <1>2, <2>1, <2>2, <3>1, <3>2, <3>3, AskedIsNewest
      <4> QED  BY <2>4, <3>2, <3>3, <4>1, RotateFacts
    <3>4. CASE f # toks[t].fam
      BY <2>4, <3>2, <3>4, RotateFacts
    <3> QED  BY <3>3, <3>4
  <2>6. ASSUME NEW d \in Clients, Minted(d)
        PROVE  toks[n].gen >= fams'[f].lastUsedGen
    BY <2>4, <2>6, MintedFacts
  <2>7. ASSUME StoreStill  PROVE toks[n].gen >= fams'[f].lastUsedGen
    BY <2>4, <2>7 DEF StoreStill
  <2> QED  BY <2>1, <2>3, <2>5, <2>6, <2>7, StepKinds, OthersStill
<1>3. CASE Minted(c) /\ x = held'[c]
  <2>1. /\ toks'[x.tok] = NewLeaf(Len(fams) + 1, 1, 0)
        /\ fams'[Len(fams) + 1].lastUsedGen = 0
    BY <1>3, MintedFacts
  <2> QED  BY <2>1 DEF NewLeaf
<1>4. ASSUME NEW r \in Asks(c), Land(r), request[r].st = "renewed", x = request[r].new
      PROVE  toks'[x.tok].gen >= fams'[toks'[x.tok].fam].lastUsedGen
  <2>1. r \in Requests /\ Pending(r)
    BY <1>4 DEF Asks, Pending
  <2>2. PICK n \in 1 .. Len(toks) : n = x.tok
    BY <1>1, <1>4, <2>1, AnswerIsAhead
  <2>3. toks[n].gen >= fams[toks[n].fam].lastUsedGen + 1
    BY <1>1, <1>4, <2>1, <2>2, AnswerIsAhead DEF FamilyOf
  <2>4. toks' = toks /\ fams' = fams
    BY <1>4 DEF Land, store
  <2> QED  BY <2>2, <2>3, <2>4, LeafTyped DEF FamilyOf
<1> QED  BY <1>2, <1>3, <1>4, KeptAfter

(* A cookie that comes with an answer outlives every other of its family:  *)
(* the requests that hold one began before the answer's request ended.     *)
LEMMA ArrivalPasses ==
    ASSUME TypeOK, TypeOK', HonestInv, [Next]_vars, Calm', NEW c \in Clients,
           NEW r \in Asks(c), Land(r), request[r].st = "renewed",
           NEW x, x = request[r].new, NEW y \in Kept(c), held'[c] # y
    PROVE  Fading(c, x, y)'
<1>1. x \in Pairs
  BY InFlightTyped DEF Asks
<1>2. /\ x.iat \in Nat /\ now \in Nat /\ now' = now /\ Abort \in Nat
      /\ Late' \in Nat /\ Late' >= Late /\ Late >= Abort /\ Late \in Nat
  <2>1. Late' \in Nat /\ Late' >= Late /\ Late >= Abort /\ Late \in Nat
    BY LateFacts
  <2>2. x.iat \in Nat
    BY <1>1 DEF Pairs
  <2>3. now \in Nat /\ now' = now
    BY DEF TypeOK, Land, store
  <2> QED  BY <2>1, <2>2, <2>3, AbortIsNat
<1>3. /\ request[r].sentAt \in Nat /\ request[r].sentAt <= x.iat
      /\ now <= request[r].sentAt + Abort
  BY <1>1 DEF Asks, HonestInv, Times, TypeOK, Asking
<1>4. ASSUME NEW q \in Asks(c)', request'[q].old = y
      PROVE  request'[q].sentAt <= x.iat + Late'
  <2>1. q \in Requests /\ request'[q].st # "idle"
    BY DEF Asks
  <2>2. request'[q].sentAt <= now /\ request'[q].sentAt \in Nat
    <3>1. ASSUME NEW d \in Clients, Sent(q, d)  PROVE FALSE
      BY SMTT(30), <3>1 DEF Sent, Land, SignedIn, TypeOK, Send, Idle
    <3>2. Times'
      BY TimesStep DEF HonestInv
    <3> QED  BY <1>2, <2>1, <3>2 DEF Times, TypeOK, Asking
  <2> QED  BY <1>2, <1>3, <2>2
<1>5. \A q \in Asks(c)' : request'[q].old = y => request'[q].sentAt <= x.iat + Late'
  BY <1>4
<1> QED  BY <1>1, <1>5 DEF Fading

(* Two pairs of which one is on its way out: it stays so, or is put back   *)
(* over the other, which is then out in its turn.                          *)
LEMMA PassingStep ==
    ASSUME TypeOK, TypeOK', HonestInv, [Next]_vars, Calm', NEW c \in Clients,
           NEW x \in Kept(c), NEW z \in Kept(c), NEW w \in Kept(c), z # w,
           Fading(c, x, z),
           \A r \in Asks(c) :
               Land(r) /\ request[r].st = "renewed" => request[r].new # z
    PROVE  Fading(c, x, z)' \/ Fading(c, x, w)'
<1>1. /\ x \in Pairs /\ x.iat \in Nat /\ z.tok \in 1 .. Len(toks) /\ Len(toks) \in Nat
      /\ Late \in Nat /\ Late' \in Nat /\ Abort \in Nat /\ now \in Nat
  <2>1. x \in Pairs /\ x.iat \in Nat
    BY KeptTyped
  <2>2. z.tok \in 1 .. Len(toks)
    BY KeptTyped
  <2>3. Late \in Nat /\ Late' \in Nat
    BY LateFacts
  <2> QED  BY <2>1, <2>2, <2>3, AbortIsNat DEF TypeOK
<1>2. \A q \in Asks(c)' : request'[q].old = z => request'[q].sentAt <= x.iat + Late'
  BY <1>1, FadingAsks
<1>3. CASE held'[c] # z
  BY <1>2, <1>3 DEF Fading
<1>4. CASE held'[c] = z
  <2>1. ~Minted(c)
    BY <1>1, <1>4, MintedFacts
  <2>2. PICK r \in Asks(c) :
            /\ Land(r)
            /\ request[r].st = "failed" /\ kindOf[c] = "web"
            /\ held'[c] = request[r].old
    BY <1>1, <1>4, <2>1, HeldAfter DEF Fading
  <2>3. r \in Requests /\ request[r].client = c /\ request[r].st # "idle"
    BY DEF Asks
  <2>4. PutsBack(r)
    BY <1>4, <2>2, <2>3 DEF PutsBack, PairAfter, Fading
  <2>5. Late' = Late + Abort
    BY <2>2, <2>4, LateFacts DEF Land
  <2>6. /\ request[r].sentAt \in Nat /\ now <= request[r].sentAt + Abort
        /\ request[r].sentAt <= x.iat + Late
    BY <1>4, <2>2, <2>3 DEF Fading, HonestInv, Times, TypeOK, Asking
  <2>7. ASSUME NEW q \in Asks(c)', request'[q].old = w
        PROVE  request'[q].sentAt <= x.iat + Late'
    <3>1. q \in Requests /\ request'[q].st # "idle" /\ now' = now
      BY <2>2 DEF Asks, Land, store
    <3>2. Times'
      BY TimesStep DEF HonestInv
    <3>3. request'[q].sentAt <= now /\ request'[q].sentAt \in Nat
      BY <3>1, <3>2 DEF Times, TypeOK, Asking
    <3> QED  BY SMTT(30), <1>1, <2>5, <2>6, <3>3
  <2>8. \A q \in Asks(c)' : request'[q].old = w => request'[q].sentAt <= x.iat + Late'
    BY <2>7
  <2> QED  BY <1>4, <2>8 DEF Fading
<1> QED  BY <1>3, <1>4

LEMMA OneStaysStep ==
    ASSUME TypeOK, TypeOK', HonestInv, [Next]_vars, Calm'
    PROVE  OneStays'
<1> SUFFICES ASSUME NEW c \in Clients, NEW x \in Kept(c)', NEW y \in Kept(c)',
                    toks'[x.tok].fam = toks'[y.tok].fam,
                    toks'[y.tok].gen < toks'[x.tok].gen
             PROVE  Fading(c, x, x)' \/ Fading(c, x, y)'
  BY DEF OneStays
<1>1. x # y /\ Calm /\ Len(toks) \in Nat /\ OneStays
  <2>1. x.tok \in 1 .. Len(toks')
    BY DEF TypeOK, Kept, Asks, SignedIn, Leaf
  <2>2. toks'[x.tok] \in Leaves
    BY <2>1 DEF TypeOK
  <2>3. toks'[x.tok].gen \in Nat
    BY <2>2 DEF Leaves
  <2>4. Calm
    BY LateFacts
  <2> QED  BY SMTT(30), <2>3, <2>4 DEF TypeOK, HonestInv, CalmInv
<1>2. ASSUME NEW z \in Kept(c)
      PROVE  /\ z.tok \in 1 .. Len(toks) /\ toks'[z.tok].fam = toks[z.tok].fam
             /\ toks'[z.tok].gen = toks[z.tok].gen /\ toks[z.tok].gen \in Nat
             /\ toks[z.tok].fam \in 1 .. Len(fams)
             /\ toks[z.tok].gen <= FamilyOf(z.tok).lastUsedGen + 1
             /\ FamilyOf(z.tok).lastUsedGen \in Nat
  <2>1. PICK n \in 1 .. Len(toks) : n = z.tok
    BY KeptTyped
  <2> QED  BY <2>1, TokensKept, LeafTyped DEF HonestInv, Generations
<1>3. CASE Minted(c) /\ (x = held'[c] \/ y = held'[c])
  <2>1. toks'[Len(toks) + 1].fam = Len(fams) + 1 /\ held'[c].tok = Len(toks) + 1
    BY <1>3, MintedFacts DEF NewLeaf
  <2>2. ASSUME NEW z \in Kept(c)', z # held'[c]
        PROVE  toks'[z.tok].fam # Len(fams) + 1
    <3>1. z \in Kept(c)
      BY <2>2, KeptAfter
    <3>2. toks'[z.tok].fam = toks[z.tok].fam /\ toks[z.tok].fam \in 1 .. Len(fams)
      BY <1>2, <3>1
    <3>3. Len(fams) \in Nat
      BY DEF TypeOK
    <3> QED  BY <3>2, <3>3
  <2> QED  BY <1>1, <1>3, <2>1, <2>2
<1>4. ASSUME NEW r \in Asks(c), Land(r), request[r].st = "renewed",
             x = request[r].new \/ y = request[r].new
      PROVE  Fading(c, x, x)' \/ Fading(c, x, y)'
  <2>1. r \in Requests /\ Pending(r) /\ request[r].client = c
    BY <1>4 DEF Asks, Pending
  <2>2. PICK n \in 1 .. Len(toks) : n = request[r].new.tok
    BY <1>1, <2>1, AnswerIsAhead
  <2>3. /\ toks'[n].fam = toks[n].fam /\ toks'[n].gen = toks[n].gen
        /\ toks[n].gen >= FamilyOf(n).lastUsedGen + 1
        /\ toks[n].gen \in Nat
    BY <1>1, <2>1, <2>2, AnswerIsAhead, TokensKept, LeafTyped
  <2>4. held'[c] = request[r].new
    BY <1>4, <2>1 DEF Land, PairAfter, TypeOK
  <2>5. ASSUME NEW z \in Kept(c)', z # request[r].new  PROVE z \in Kept(c)
    <3>1. ~Minted(c)
      <4>1. ASSUME Minted(c)  PROVE FALSE
        <5>1. toks' = toks /\ Len(toks') = Len(toks) + 1
          BY <1>4, <4>1, MintedFacts DEF Land, store
        <5> QED  BY <1>1, <5>1
      <4> QED  BY <4>1
    <3> QED  BY <2>4, <2>5, <3>1, KeptAfter
  <2>6. CASE y = request[r].new
    <3>1. x \in Kept(c)
      BY <1>1, <2>5, <2>6
    <3>2. /\ toks[x.tok].fam = toks[n].fam /\ toks[n].gen < toks[x.tok].gen
          /\ toks[x.tok].gen <= FamilyOf(n).lastUsedGen + 1
      BY <1>2, <2>2, <2>3, <2>6, <3>1 DEF FamilyOf
    <3>3. toks[x.tok].gen \in Nat /\ FamilyOf(n).lastUsedGen \in Nat
      BY <1>2, <3>1, LeafTyped
    <3> QED  BY <2>3, <3>2, <3>3
  <2>7. CASE x = request[r].new
    <3>1. y \in Kept(c) /\ held'[c] # y
      BY <1>1, <2>4, <2>5, <2>7
    <3> QED  BY <1>4, <2>7, <3>1, ArrivalPasses
  <2> QED  BY <1>4, <2>6, <2>7
<1>5. CASE /\ x \in Kept(c) /\ y \in Kept(c)
           /\ \A r \in Asks(c) :
                  Land(r) /\ request[r].st = "renewed" =>
                      request[r].new # x /\ request[r].new # y
  <2>1. Fading(c, x, x) \/ Fading(c, x, y)
    BY <1>1, <1>2, <1>5 DEF OneStays
  <2> QED  BY <1>1, <1>5, <2>1, PassingStep
<1> QED  BY <1>3, <1>4, <1>5, KeptAfter

LEMMA HonestStep ==
    ASSUME TypeOK, TypeOK', HonestInv, [Next]_vars
    PROVE  HonestInv'
<1>1. Lineage' /\ Generations' /\ Times'
  BY LineageStep, GenerationsStep, TimesStep DEF HonestInv
<1>2. Calm' => Ahead' /\ OneStays' /\ NoReuse'
  BY AheadStep, OneStaysStep, NoReuseStep
<1> QED  BY <1>1, <1>2 DEF HonestInv, CalmInv

LEMMA HonestInit ==
    ASSUME Init
    PROVE  HonestInv
<1>1. /\ \A c \in Clients : held[c] = SignedOut
      /\ \A r \in Requests : request[r] = Idle
      /\ fams = <<>> /\ toks = <<>>
  BY DEF Init
<1>2. \A c \in Clients : Asks(c) = {} /\ Kept(c) = {}
  BY <1>1 DEF Asks, Kept, SignedOut, Idle
<1>3. \A c \in Clients : ~SignedIn(c)
  BY <1>1 DEF SignedIn, SignedOut
<1>4. Lineage
  BY <1>1, <1>2, <1>3 DEF Lineage, OneOwner, Owns, Succeeds, Pending, Idle
<1>5. Generations /\ NoReuse
  BY <1>1 DEF Generations, NoReuse
<1>6. Times
  BY <1>1 DEF Times, Idle
<1>7. Ahead /\ OneStays
  BY <1>2 DEF Ahead, OneStays
<1> QED  BY <1>4, <1>5, <1>6, <1>7 DEF HonestInv, CalmInv

(* HonestInv is inductive relative to the types.                           *)
THEOREM TabsStayHonest == Spec => [](TypeOK /\ HonestInv)
<1>1. Init => HonestInv
  BY HonestInit
<1>2. TypeOK /\ TypeOK' /\ HonestInv /\ [Next]_vars => HonestInv'
  BY HonestStep
<1> QED  BY <1>1, <1>2, SessionsTypeCorrect, PTL DEF Spec

(* Nobody is taken for a thief, for any number of clients, tabs, lost      *)
(* answers and cookies put back, as long as the times do not overlap.      *)
THEOREM NobodyTakenForAThief == Spec => []NoFalseTheft
<1>1. TypeOK /\ HonestInv => NoFalseTheft
  BY DEF HonestInv, CalmInv, Calm, NoReuse, NoFalseTheft
<1> QED  BY <1>1, TabsStayHonest, PTL

-----------------------------------------------------------------------------
(***************************************************************************)
(* What a phone is refused for.                                            *)
(***************************************************************************)
Phones == {c \in Clients : kindOf[c] = "phone"}

(* The token's session is over, or is one that the gate refuses.           *)
Ended(n) ==
    Over(toks[n].fam) \/ IsRevokedByPasswordChange(FamilyOf(n).issuedAt)

(* The answer to a rotation of n is on its way to c.                       *)
Awaited(c, n) == \E r \in Asks(c) : Pending(r) /\ request[r].old.tok = n

(* n can be asked with: it was spent, or left behind by its family, only   *)
(* by rotations whose answers were lost or are on their way.               *)
Fit(c, n) ==
    \/ Ended(n)
    \/ /\ toks[n].status = "spent" => lost[n] >= 1 \/ Awaited(c, n)
       /\ toks[n].epoch < FamilyOf(n).epoch =>
              lost[n] >= 2 \/ (lost[n] >= 1 /\ Awaited(c, n))

(* n was never used, and its family has not moved on without it.           *)
Unused(n) ==
    \/ Ended(n)
    \/ toks[n].status = "active" /\ toks[n].epoch = FamilyOf(n).epoch

OneAtATime == \A c \in Phones : \A r, q \in Asks(c) : r = q

AsksWithItsOwn ==
    \A c \in Phones : \A r \in Asks(c) :
        /\ SignedIn(c)
        /\ toks[held[c].tok].fam = toks[request[r].old.tok].fam
        => held[c].tok = request[r].old.tok

HoldsFit == \A c \in Phones : SignedIn(c) => Fit(c, held[c].tok)

AsksFit ==
    \A c \in Phones : \A r \in Asks(c) :
        /\ request[r].st = "asked" => Fit(c, request[r].old.tok)
        /\ Pending(r) => Unused(request[r].new.tok)
        /\ request[r].st = "refused" =>
               Ended(request[r].old.tok) \/ lost[request[r].old.tok] >= 2

PhoneInv == OneAtATime /\ AsksWithItsOwn /\ HoldsFit /\ AsksFit

(* What has ended stays so.                                                *)
LEMMA EndedStays ==
    ASSUME TypeOK, [Next]_vars, NEW n \in 1 .. Len(toks), Ended(n)
    PROVE  Ended(n)'
<1>1. PICK f \in 1 .. Len(fams) : f = toks[n].fam /\ f = toks'[n].fam
  BY LeafTyped, TokensKept
<1>2. /\ now \in Nat /\ stamp \in Nat /\ now' \in Nat /\ stamp' \in Nat
      /\ fams[f].issuedAt \in Nat /\ fams'[f].issuedAt = fams[f].issuedAt
  BY <1>1, StepTyped, FamilyTyped DEF TypeOK, Typed, StoreGrows
<1>3. now' >= now /\ stamp' >= stamp
  <2>1. CASE \/ \E c \in Clients : Minted(c) \/ SignOut(c)
             \/ \E r \in Requests, c \in Clients : Sent(r, c)
             \/ \E r \in Requests :
                    Rotate(r) \/ Gate(r) \/ Fail(r) \/ Land(r) \/ LoseCookie(r)
    <3>1. now' = now /\ stamp' = stamp
      BY <2>1 DEF Minted, SignOut, Sent, Rotate, Gate, Fail, Land, LoseCookie,
                  store, account
    <3> QED  BY <1>2, <3>1
  <2>2. CASE Quiet
    BY <2>2 DEF Quiet
  <2> QED  BY <2>1, <2>2, StepKinds
<1>4. fams[f].revoked # "no" => fams'[f].revoked # "no"
  <2>1. ASSUME NEW c \in Clients, Minted(c)  PROVE fams'[f] = fams[f]
    BY <2>1, MintedFacts
  <2>2. ASSUME NEW r \in Requests, Rotate(r)
        PROVE  fams'[f].revoked = "reuse" \/ fams'[f].revoked = fams[f].revoked
    <3>1. PICK t \in 1 .. Len(toks) : t = request[r].old.tok
      BY <2>2, InFlightTyped DEF Rotate
    <3>2. RotateToken(t) /\ now' = now
      BY <2>2, <3>1 DEF Rotate
    <3>3. CASE f = toks[t].fam
      BY <3>2, <3>3, RotateFacts
    <3>4. CASE f # toks[t].fam
      BY <3>2, <3>4, RotateFacts
    <3> QED  BY <3>3, <3>4
  <2>3. ASSUME StoreStill
        PROVE  \/ fams'[f].revoked = fams[f].revoked
               \/ fams'[f].revoked \in {"signout", "password"}
    BY <2>3 DEF StoreStill
  <2> QED  BY <2>1, <2>2, <2>3, StepKinds, OthersStill
<1>5. FamilyLife \in Nat
  BY FamilyLifeIsPositive
<1>6. \/ fams[f].revoked # "no" \/ now >= fams[f].issuedAt + FamilyLife
      \/ fams[f].issuedAt < stamp
  BY <1>1 DEF Ended, Over, ExpiresAt, IsRevokedByPasswordChange, FamilyOf
<1>7. \/ fams'[f].revoked # "no" \/ now' >= fams'[f].issuedAt + FamilyLife
      \/ fams'[f].issuedAt < stamp'
  BY <1>2, <1>3, <1>4, <1>5, <1>6
<1> QED  BY <1>1, <1>7 DEF Ended, Over, ExpiresAt, IsRevokedByPasswordChange, FamilyOf

(* Losses are only added to.                                               *)
LEMMA LossesStay ==
    ASSUME TypeOK, [Next]_vars, NEW n \in 1 .. Len(toks)
    PROVE  /\ lost[n] \in Nat /\ lost'[n] \in Nat /\ lost'[n] >= lost[n]
           /\ \A r \in Requests :
                  Fail(r) /\ Pending(r) /\ request[r].old.tok = n =>
                      lost'[n] >= lost[n] + 1
<1>1. lost[n] \in Nat /\ lost \in Seq(Nat) /\ Len(lost) = Len(toks)
  BY DEF TypeOK
<1>2. ASSUME NEW m \in 1 .. Len(toks), lost' = [lost EXCEPT ![m] = @ + 1]
      PROVE  lost'[n] = IF n = m THEN lost[n] + 1 ELSE lost[n]
  BY <1>1, <1>2
<1>3. ASSUME NEW r \in Requests, Rotate(r)  PROVE lost'[n] = lost[n]
  BY <1>1, <1>3 DEF Rotate
<1>4. ASSUME NEW r \in Requests, Fail(r)
      PROVE  /\ lost'[n] \in Nat /\ lost'[n] >= lost[n]
             /\ Pending(r) /\ request[r].old.tok = n => lost'[n] >= lost[n] + 1
  <2>1. PICK m \in 1 .. Len(toks) : m = request[r].old.tok
    BY <1>4, InFlightTyped DEF Fail
  <2>2. lost' = IF Pending(r) THEN [lost EXCEPT ![m] = @ + 1] ELSE lost
    BY <1>4, <2>1 DEF Fail, Pending
  <2>3. CASE Pending(r)
    <3>1. lost'[n] = IF n = m THEN lost[n] + 1 ELSE lost[n]
      BY <1>2, <2>2, <2>3
    <3> QED  BY <1>1, <2>1, <3>1
  <2>4. CASE ~Pending(r)
    BY <1>1, <2>2, <2>4
  <2> QED  BY <2>3, <2>4
<1>5. ASSUME NEW r \in Requests, LoseCookie(r)
      PROVE  lost'[n] \in Nat /\ lost'[n] >= lost[n]
  <2>1. PICK m \in 1 .. Len(toks) : m = request[r].old.tok
    BY <1>5, InFlightTyped DEF LoseCookie
  <2>2. lost' = [lost EXCEPT ![m] = @ + 1] \/ lost' = lost
    BY <1>5, <2>1 DEF LoseCookie
  <2> QED  BY <1>1, <1>2, <2>2
<1>6. ASSUME NEW c \in Clients, Minted(c)  PROVE lost'[n] = lost[n]
  BY <1>6, MintedFacts
<1>7. CASE \/ \E c \in Clients : SignOut(c)
           \/ \E r \in Requests, c \in Clients : Sent(r, c)
           \/ \E r \in Requests : Gate(r) \/ Land(r)
           \/ Quiet
  <2>1. lost' = lost
    BY <1>7 DEF SignOut, Sent, Gate, Land, Quiet, tallies
  <2>2. lost'[n] \in Nat /\ lost'[n] >= lost[n]
    BY <1>1, <2>1
  <2> QED  BY <1>1, <1>4, <2>2
<1>8. ASSUME lost'[n] = lost[n]  PROVE lost'[n] \in Nat /\ lost'[n] >= lost[n]
  BY <1>1, <1>8
<1>9. lost'[n] \in Nat /\ lost'[n] >= lost[n]
  BY <1>3, <1>4, <1>5, <1>6, <1>7, <1>8, StepKinds
<1> QED  BY <1>1, <1>4, <1>9

(* Only its own requests change what a client owns.                        *)
LEMMA OwnStoreKept ==
    ASSUME TypeOK, Lineage, [Next]_vars, NEW c \in Clients,
           NEW n \in 1 .. Len(toks), Owns(c, toks[n].fam),
           \A q \in Asks(c) : Rotate(q) => toks[request[q].old.tok].fam # toks[n].fam
    PROVE  /\ toks'[n].status = toks[n].status
           /\ fams'[toks[n].fam].epoch = fams[toks[n].fam].epoch
<1>1. PICK f \in 1 .. Len(fams) : f = toks[n].fam
  BY LeafTyped
<1>2. ASSUME NEW d \in Clients, Minted(d)
      PROVE  toks'[n].status = toks[n].status /\ fams'[f].epoch = fams[f].epoch
  BY <1>2, MintedFacts
<1>3. ASSUME NEW q \in Requests, Rotate(q)
      PROVE  toks'[n].status = toks[n].status /\ fams'[f].epoch = fams[f].epoch
  <2>1. PICK t \in 1 .. Len(toks) : t = request[q].old.tok
    BY <1>3, InFlightTyped DEF Rotate
  <2>2. RotateToken(t) /\ now' = now /\ request[q].st # "idle"
    BY <1>3, <2>1 DEF Rotate
  <2>3. PICK d \in Clients : d = request[q].client
    BY <2>2, InFlightTyped
  <2>4. q \in Asks(d) /\ Owns(d, toks[t].fam)
    BY <2>1, <2>2, <2>3 DEF Asks, Owns
  <2>5. f # toks[t].fam
    BY <1>1, <1>3, <2>1, <2>4 DEF Lineage, OneOwner
  <2> QED  BY <1>1, <2>2, <2>5, RotateFacts
<1>4. ASSUME StoreStill
      PROVE  toks'[n].status = toks[n].status /\ fams'[f].epoch = fams[f].epoch
  BY <1>4 DEF StoreStill
<1> QED  BY <1>1, <1>2, <1>3, <1>4, StepKinds, OthersStill

(* A request stays as it is, or it is the one that steps.                  *)
LEMMA RequestMoves ==
    ASSUME TypeOK, [Next]_vars, NEW r \in Requests
    PROVE  \/ request'[r] = request[r]
           \/ \E c \in Clients : Sent(r, c)
           \/ Rotate(r) \/ Gate(r) \/ Fail(r) \/ Land(r) \/ LoseCookie(r)
<1>1. request \in [Requests -> Asking]
  BY DEF TypeOK
<1>2. ASSUME NEW q \in Requests, q # r,
             \/ \E c \in Clients : Sent(q, c)
             \/ Rotate(q) \/ Gate(q) \/ Fail(q) \/ Land(q) \/ LoseCookie(q)
      PROVE  request'[r] = request[r]
  BY <1>1, <1>2 DEF Sent, Send, Rotate, Gate, Fail, Land, LoseCookie
<1>3. ASSUME Quiet \/ \E c \in Clients : Minted(c) \/ SignOut(c)
      PROVE  request'[r] = request[r]
  BY <1>3 DEF Quiet, Minted, SignOut
<1> QED  BY <1>2, <1>3, StepKinds

LEMMA PhonesKept ==
    ASSUME TypeOK, [Next]_vars
    PROVE  /\ Phones' = Phones
           /\ \A c \in Phones : c \in Clients /\ kindOf[c] = "phone"
           /\ \A c \in Phones : \A r \in Asks(c) : ~LoseCookie(r)
<1>1. kindOf' = kindOf
  BY StepKinds
     DEF Minted, SignOut, Sent, Rotate, Gate, Fail, Land, LoseCookie, Quiet, fixed
<1> QED  BY <1>1 DEF Phones, LoseCookie, Asks

(* A request that starts is its phone's only one, and none of the phone's  *)
(* steps in the same step.                                                 *)
LEMMA SentAlone ==
    ASSUME TypeOK, NEW c \in Phones, NEW r \in Requests, NEW d \in Clients,
           Sent(r, d), request'[r].client = c
    PROVE  /\ d = c /\ Asks(c) = {}
           /\ UNCHANGED <<store, stamp, held, lost>>
           /\ request'[r].old = held[c] /\ SignedIn(c)
           /\ request'[r].st \in {"asked", "failed"}
           /\ \A q \in Requests : q # r => request'[q] = request[q]
<1>1. request \in [Requests -> Asking]
  BY DEF TypeOK
<1>2. d = c
  BY <1>1 DEF Sent, Send
<1> QED  BY <1>1, <1>2 DEF Sent, Send, Phones

LEMMA OneAtATimeStep ==
    ASSUME TypeOK, OneAtATime, [Next]_vars
    PROVE  OneAtATime'
<1> SUFFICES ASSUME NEW c \in Phones, NEW r \in Asks(c)', NEW q \in Asks(c)'
             PROVE  r = q
  BY PhonesKept DEF OneAtATime
<1>1. \A x \in Asks(c)' : x \in Requests /\ request'[x].st # "idle" /\ request'[x].client = c
  BY DEF Asks
<1>2. ASSUME NEW x \in Asks(c)', NEW y \in Asks(c)', NEW d \in Clients, Sent(x, d)
      PROVE  x = y
  <2>1. /\ Asks(c) = {}
        /\ \A z \in Requests : z # x => request'[z] = request[z]
    BY <1>1, <1>2, SentAlone
  <2> QED  BY <1>1, <2>1 DEF Asks
<1>3. ASSUME \A x \in {r, q}, d \in Clients : ~Sent(x, d)
      PROVE  r \in Asks(c) /\ q \in Asks(c)
  BY <1>1, <1>3, AskAfter DEF Asks
<1> QED  BY <1>2, <1>3 DEF OneAtATime

LEMMA AsksWithItsOwnStep ==
    ASSUME TypeOK, OneAtATime, AsksWithItsOwn, [Next]_vars
    PROVE  AsksWithItsOwn'
<1> SUFFICES ASSUME NEW c \in Phones, NEW r \in Asks(c)', held'[c].tok # 0,
                    toks'[held'[c].tok].fam = toks'[request'[r].old.tok].fam
             PROVE  held'[c].tok = request'[r].old.tok
  BY PhonesKept DEF AsksWithItsOwn, SignedIn
<1>1. /\ r \in Requests /\ request'[r].st # "idle" /\ request'[r].client = c
      /\ c \in Clients /\ kindOf[c] = "phone"
  BY PhonesKept DEF Asks
<1>2. ASSUME NEW d \in Clients, Sent(r, d)
      PROVE  held'[c].tok = request'[r].old.tok
  BY <1>1, <1>2, SentAlone
<1>3. CASE r \in Asks(c) /\ request'[r].old = request[r].old
  <2>1. PICK o \in 1 .. Len(toks) : o = request[r].old.tok
    BY <1>1, <1>3, InFlightTyped DEF Asks
  <2>2. toks'[o].fam = toks[o].fam /\ toks[o].fam \in 1 .. Len(fams)
    BY TokensKept, LeafTyped
  <2>3. CASE held'[c] = held[c]
    <3>1. PICK h \in 1 .. Len(toks) : h = held[c].tok
      BY <1>1, <2>3 DEF TypeOK, SignedIn, Leaf
    <3>2. toks'[h].fam = toks[h].fam
      BY TokensKept
    <3>3. SignedIn(c)
      BY <2>3 DEF SignedIn
    <3> QED  BY <1>3, <2>1, <2>2, <2>3, <3>1, <3>2, <3>3 DEF AsksWithItsOwn
  <2>4. CASE Minted(c)
    <3>1. toks'[held'[c].tok].fam = Len(fams) + 1 /\ Len(fams) \in Nat
      BY <1>1, <2>4, MintedFacts DEF NewLeaf, TypeOK
    <3> QED  BY <1>3, <2>1, <2>2, <3>1
  <2>5. ASSUME NEW q \in Asks(c), Land(q)
        PROVE  FALSE
    <3>1. q = r
      BY <1>3, <2>5 DEF OneAtATime
    <3>2. request'[r] = Idle
      BY <1>1, <2>5, <3>1 DEF Land, TypeOK
    <3> QED  BY <1>1, <3>2 DEF Idle
  <2> QED  BY <1>1, <2>3, <2>4, <2>5, HeldAfter
<1> QED  BY <1>1, <1>2, <1>3, AskAfter DEF Asks

(* An answer is awaited until it is lost, refused or lands.                *)
LEMMA AwaitedAfter ==
    ASSUME TypeOK, Succeeds, [Next]_vars, NEW c \in Phones, NEW n \in 1 .. Len(toks),
           Awaited(c, n), \A r \in Asks(c) : ~Land(r)
    PROVE  Awaited(c, n)' \/ lost'[n] >= lost[n] + 1 \/ Ended(n)
<1>1. PICK r \in Asks(c) : Pending(r) /\ request[r].old.tok = n
  BY DEF Awaited
<1>2. r \in Requests /\ request[r].client = c /\ request[r] \in Asking
  BY DEF Asks, TypeOK
<1>3. CASE request'[r] = request[r]
  BY <1>1, <1>2, <1>3 DEF Awaited, Asks, Pending
<1>4. CASE \E d \in Clients : Sent(r, d)
  BY <1>1, <1>4 DEF Sent, Pending, Idle
<1>5. CASE Rotate(r)
  BY <1>1, <1>5 DEF Rotate, Pending
<1>6. CASE Gate(r)
  <2>1. request'[r].old = request[r].old /\ request'[r].client = c
    BY <1>2, <1>6 DEF Gate, TypeOK, Asking
  <2>2. toks[request[r].new.tok].fam = toks[n].fam
    BY <1>1, <1>2 DEF Succeeds
  <2>3. CASE IsRevokedByPasswordChange(fams[toks[n].fam].issuedAt)
    BY <2>3 DEF Ended, FamilyOf
  <2>4. CASE ~IsRevokedByPasswordChange(fams[toks[n].fam].issuedAt)
    <3>1. request'[r].st = "renewed"
      BY <1>2, <1>6, <2>2, <2>4 DEF Gate, TypeOK, Asking
    <3> QED  BY <1>1, <1>2, <2>1, <3>1 DEF Awaited, Asks, Pending
  <2> QED  BY <2>3, <2>4
<1>7. CASE Fail(r)
  BY <1>1, <1>2, <1>7, LossesStay
<1>8. ~LoseCookie(r)
  BY PhonesKept
<1> QED  BY <1>2, <1>3, <1>4, <1>5, <1>6, <1>7, <1>8, RequestMoves

(* A token that its phone does not rotate stays fit.                       *)
LEMMA FitStays ==
    ASSUME TypeOK, Lineage, [Next]_vars, NEW c \in Phones,
           NEW n \in 1 .. Len(toks), Owns(c, toks[n].fam), Fit(c, n),
           \A q \in Asks(c) : Rotate(q) => toks[request[q].old.tok].fam # toks[n].fam,
           \A q \in Asks(c) : Land(q) => ~Awaited(c, n)
    PROVE  Fit(c, n)'
<1>1. /\ toks'[n].status = toks[n].status
      /\ fams'[toks[n].fam].epoch = fams[toks[n].fam].epoch
  BY PhonesKept, OwnStoreKept
<1>2. toks'[n].fam = toks[n].fam /\ toks'[n].epoch = toks[n].epoch
  BY TokensKept
<1>3. CASE Ended(n)
  BY <1>3, EndedStays DEF Fit
<1>4. CASE ~Ended(n)
  <2>1. lost[n] \in Nat /\ lost'[n] \in Nat /\ lost'[n] >= lost[n]
    BY LossesStay
  <2>2. Awaited(c, n) => Awaited(c, n)' \/ lost'[n] >= lost[n] + 1
    BY <1>4, AwaitedAfter DEF Lineage
  <2>3. /\ toks[n].status = "spent" => lost[n] >= 1 \/ Awaited(c, n)
        /\ toks[n].epoch < FamilyOf(n).epoch =>
               lost[n] >= 2 \/ (lost[n] >= 1 /\ Awaited(c, n))
    BY <1>4 DEF Fit
  <2>4. toks[n].status = "spent" => lost'[n] >= 1 \/ Awaited(c, n)'
    BY <2>1, <2>2, <2>3
  <2>5. toks[n].epoch < FamilyOf(n).epoch =>
            lost'[n] >= 2 \/ (lost'[n] >= 1 /\ Awaited(c, n)')
    BY <2>1, <2>2, <2>3
  <2> QED  BY <1>1, <1>2, <2>4, <2>5 DEF Fit, FamilyOf
<1> QED  BY <1>3, <1>4

(* Rotating a fit token leaves it fit, awaiting the answer; what it is     *)
(* answered is unused.                                                     *)
LEMMA RotatedFit ==
    ASSUME TypeOK, Lineage, PhoneInv, [Next]_vars, NEW c \in Phones, NEW r \in Asks(c),
           Rotate(r), NEW t \in 1 .. Len(toks), t = request[r].old.tok,
           NEW n, n = Len(toks) + 1
    PROVE  /\ Pending(r)' => Fit(c, t)'
           /\ Pending(r)' => Unused(n)'
           /\ ~Pending(r)' => /\ request'[r].st = "refused"
                              /\ Ended(t)' \/ lost'[t] >= 2
<1>1. /\ request[r].st = "asked" /\ r \in Requests /\ request[r].client = c
      /\ RotateToken(t) /\ now' = now /\ stamp' = stamp
  BY DEF Asks, Rotate, account
<1>2. ~Awaited(c, t) /\ Fit(c, t)
  BY <1>1 DEF PhoneInv, OneAtATime, AsksFit, Awaited, Pending
<1>3. PICK f \in 1 .. Len(fams) : f = toks[t].fam
  BY LeafTyped
<1>4. PICK v : v = Verdict(t)
  OBVIOUS
<1>5. lost'[t] = lost[t] /\ lost[t] \in Nat
  <2>1. lost \in Seq(Nat) /\ Len(lost) = Len(toks)
    BY DEF TypeOK
  <2>2. t \in 1 .. Len(lost) /\ lost[t] \in Nat
    BY <2>1
  <2>3. CASE lost' = lost
    BY <2>2, <2>3
  <2>4. CASE lost' = Append(lost, 0)
    <3>1. lost'[t] = lost[t]
      BY <2>1, <2>2, <2>4
    <3> QED  BY <2>2, <3>1
  <2> QED  BY <1>1, <2>3, <2>4 DEF Rotate
<1>6. /\ request'[r].st = IF v \in Renewing THEN "rotated" ELSE "refused"
      /\ request'[r].client = c /\ request'[r].old.tok = t
  BY <1>1, <1>4 DEF Rotate, TypeOK, Asking
<1>7. Ended(t) => Ended(t)'
  BY EndedStays
<1>8. toks[t].epoch \in Nat /\ fams[f].epoch \in Nat
  BY <1>3, LeafTyped DEF FamilyOf
<1>9. CASE v \in Renewing
  <2>1. Awaited(c, t)'
    BY <1>1, <1>6, <1>9 DEF Awaited, Asks, Pending
  <2>2. /\ toks'[t].fam = f /\ toks'[t].epoch = toks[t].epoch
        /\ fams'[f].epoch = IF v = "recovered" THEN fams[f].epoch + 1 ELSE fams[f].epoch
        /\ toks'[n].fam = f /\ toks'[n].status = "active"
        /\ toks'[n].epoch = fams'[f].epoch
    BY <1>1, <1>3, <1>4, <1>9, RotateFacts
  <2>3. /\ toks[t].epoch >= fams[f].epoch
        /\ v = "recovered" => toks[t].status = "spent"
    BY <1>3, <1>4, <1>9, VerdictFacts DEF FamilyOf
  <2>4. CASE Ended(t)
    BY <1>6, <1>7, <1>9, <2>2, <2>4 DEF Fit, Unused, FamilyOf, Pending
  <2>5. CASE ~Ended(t)
    <3>1. v = "recovered" => lost'[t] >= 1
      BY <1>2, <1>5, <2>3, <2>5 DEF Fit
    <3>2. toks'[t].epoch < fams'[f].epoch => lost'[t] >= 1
      BY <1>8, <2>2, <2>3, <3>1
    <3>3. Fit(c, t)'
      BY <2>1, <2>2, <3>2 DEF Fit, FamilyOf
    <3> QED  BY <1>6, <1>9, <2>2, <3>3 DEF Unused, FamilyOf, Pending
  <2> QED  BY <2>4, <2>5
<1>10. CASE v \notin Renewing
  <2>1. Ended(t)' \/ lost'[t] >= 2
    <3>1. v \in {"reuse", "expired", "revoked", "orphaned"}
      BY <1>4, <1>10, VerdictFacts
    <3>2. CASE v = "reuse"
      <4>1. fams'[f].revoked = "reuse" /\ toks'[t].fam = f
        BY <1>1, <1>3, <1>4, <3>2, RotateFacts
      <4> QED  BY <4>1 DEF Ended, Over
    <3>3. CASE v \in {"expired", "revoked"}
      <4>1. Over(toks[t].fam)
        BY <1>4, <3>3, VerdictFacts
      <4> QED  BY <1>7, <4>1 DEF Ended
    <3>4. CASE v = "orphaned"
      <4>1. toks[t].epoch < FamilyOf(t).epoch
        BY <1>4, <3>4, VerdictFacts
      <4> QED  BY <1>2, <1>5, <1>7, <4>1 DEF Fit
    <3> QED  BY <3>1, <3>2, <3>3, <3>4
  <2> QED  BY <1>6, <1>10, <2>1 DEF Pending
<1> QED  BY <1>9, <1>10

LEMMA HoldsFitStep ==
    ASSUME TypeOK, TypeOK', Lineage, PhoneInv, [Next]_vars
    PROVE  HoldsFit'
<1> SUFFICES ASSUME NEW c \in Phones, held'[c].tok # 0,
                    NEW n \in 1 .. Len(toks'), n = held'[c].tok
             PROVE  Fit(c, n)'
  BY PhonesKept DEF HoldsFit, SignedIn, Leaf, TypeOK
<1>1. c \in Clients /\ kindOf[c] = "phone"
  BY PhonesKept
<1>2. ASSUME NEW r \in Asks(c), Land(r), request[r].st = "renewed",
             held'[c] = request[r].new
      PROVE  Fit(c, n)'
  <2>1. Unused(n) /\ n \in 1 .. Len(toks)
    BY <1>2, InFlightTyped DEF PhoneInv, AsksFit, Pending, Asks
  <2>2. toks' = toks /\ fams' = fams
    BY <1>2 DEF Land, store
  <2>3. Ended(n) => Ended(n)'
    BY <2>1, EndedStays
  <2>4. CASE Ended(n)
    BY <2>3, <2>4 DEF Fit
  <2>5. CASE toks[n].status = "active" /\ toks[n].epoch = FamilyOf(n).epoch
    <3>1. FamilyOf(n).epoch \in Nat
      BY <2>1, LeafTyped
    <3> QED  BY <2>2, <2>5, <3>1 DEF Fit, FamilyOf
  <2> QED  BY <2>1, <2>4, <2>5 DEF Unused
<1>3. CASE Minted(c)
  <2>1. /\ toks'[n] = NewLeaf(Len(fams) + 1, 1, 0)
        /\ fams'[Len(fams) + 1].epoch = 0
    BY <1>1, <1>3, MintedFacts
  <2> QED  BY <2>1 DEF NewLeaf, Fit, FamilyOf
<1>4. CASE /\ held'[c] = held[c]
           /\ ~\E r \in Asks(c) : Land(r) /\ request[r].st = "renewed"
  <2>1. n \in 1 .. Len(toks) /\ SignedIn(c) /\ n = held[c].tok
    BY <1>1, <1>4 DEF TypeOK, SignedIn, Leaf
  <2>2. Fit(c, n) /\ Owns(c, toks[n].fam)
    BY <2>1 DEF PhoneInv, HoldsFit, Owns
  <2>3. CASE \E r \in Asks(c) : Rotate(r) /\ toks[request[r].old.tok].fam = toks[n].fam
    <3>1. PICK r \in Asks(c) : Rotate(r) /\ toks[request[r].old.tok].fam = toks[n].fam
      BY <2>3
    <3>2. n = request[r].old.tok
      BY <2>1, <3>1 DEF PhoneInv, AsksWithItsOwn
    <3>3. PICK m : m = Len(toks) + 1
      OBVIOUS
    <3>4. Pending(r)' => Fit(c, n)'
      BY <2>1, <3>1, <3>2, <3>3, RotatedFit
    <3>5. ~Pending(r)' => Ended(n)' \/ lost'[n] >= 2
      BY <2>1, <3>1, <3>2, <3>3, RotatedFit
    <3>6. lost'[n] \in Nat
      BY <2>1, LossesStay
    <3>7. ~Pending(r)' => Fit(c, n)'
      BY <3>5, <3>6 DEF Fit
    <3> QED  BY <3>4, <3>7
  <2>4. CASE ~\E r \in Asks(c) : Rotate(r) /\ toks[request[r].old.tok].fam = toks[n].fam
    <3>1. \A q \in Asks(c) : Land(q) => ~Awaited(c, n)
      BY <1>4 DEF Land, Awaited, Pending, PhoneInv, OneAtATime
    <3> QED  BY <2>1, <2>2, <2>4, <3>1, FitStays
  <2> QED  BY <2>3, <2>4
<1>5. ASSUME NEW r \in Asks(c), Land(r), request[r].st = "renewed"
      PROVE  held'[c] = request[r].new
  BY <1>1, <1>5 DEF Land, PairAfter, Asks, TypeOK
<1> QED  BY <1>1, <1>2, <1>3, <1>4, <1>5, HeldAfter

LEMMA AsksFitStep ==
    ASSUME TypeOK, TypeOK', Lineage, PhoneInv, [Next]_vars
    PROVE  AsksFit'
<1> SUFFICES ASSUME NEW c \in Phones, NEW r \in Asks(c)',
                    NEW o, o = request'[r].old.tok, NEW n, n = request'[r].new.tok
             PROVE  /\ request'[r].st = "asked" => Fit(c, o)'
                    /\ Pending(r)' => Unused(n)'
                    /\ request'[r].st = "refused" => Ended(o)' \/ lost'[o] >= 2
  BY PhonesKept DEF AsksFit
<1>1. /\ r \in Requests /\ request'[r].st # "idle" /\ request'[r].client = c
      /\ c \in Clients /\ kindOf[c] = "phone" /\ request \in [Requests -> Asking]
  BY PhonesKept DEF Asks, TypeOK
<1>2. ASSUME NEW d \in Clients, Sent(r, d)
      PROVE  request'[r].st \in {"asked", "failed"} /\ Fit(c, o)'
  <2>1. /\ request'[r].st \in {"asked", "failed"} /\ Asks(c) = {}
        /\ o = held[c].tok /\ SignedIn(c)
    BY <1>1, <1>2, SentAlone
  <2>2. o \in 1 .. Len(toks)
    BY <1>1, <2>1 DEF TypeOK, Leaf
  <2>3. Fit(c, o) /\ Owns(c, toks[o].fam)
    BY <2>1 DEF PhoneInv, HoldsFit, Owns
  <2> QED  BY <2>1, <2>2, <2>3, FitStays
<1>3. ASSUME r \in Asks(c)  PROVE /\ request[r].old.tok \in 1 .. Len(toks)
                                  /\ Owns(c, toks[request[r].old.tok].fam)
                                  /\ \A q \in Asks(c) : q = r
  BY <1>3, <1>1, InFlightTyped DEF Asks, Owns, PhoneInv, OneAtATime
<1>4. CASE r \in Asks(c) /\ Rotate(r)
  <2>1. o = request[r].old.tok /\ o \in 1 .. Len(toks)
    BY <1>1, <1>3, <1>4 DEF Rotate, Asking
  <2>2. PICK m : m = Len(toks) + 1
    OBVIOUS
  <2>3. /\ Pending(r)' => Unused(m)'
        /\ ~Pending(r)' => request'[r].st = "refused" /\ (Ended(o)' \/ lost'[o] >= 2)
    BY <1>4, <2>1, <2>2, RotatedFit
  <2>4. Pending(r)' => n = m
    BY <1>1, <1>4, <2>2 DEF Rotate, Asking, Pending
  <2>5. request'[r].st \in {"rotated", "refused"}
    BY <1>1, <1>4 DEF Rotate, Asking
  <2> QED  BY <2>3, <2>4, <2>5 DEF Pending
<1>5. ASSUME r \in Asks(c), ~Rotate(r), request'[r].old = request[r].old
      PROVE  /\ Ended(o) => Ended(o)'
             /\ lost[o] >= 2 => lost'[o] >= 2
             /\ Pending(r) /\ n = request[r].new.tok => Unused(n)'
             /\ request[r].st = "asked" => Fit(c, o)'
  <2>1. o \in 1 .. Len(toks) /\ o = request[r].old.tok
    BY <1>3, <1>5
  <2>2. Ended(o) => Ended(o)'
    BY <2>1, EndedStays
  <2>3. lost[o] >= 2 => lost'[o] >= 2
    BY <2>1, LossesStay
  <2>4. ASSUME Pending(r), n = request[r].new.tok  PROVE Unused(n)'
    <3>1. /\ n \in 1 .. Len(toks) /\ Unused(n)
          /\ toks[n].fam = toks[o].fam
      BY <1>1, <1>5, <2>1, <2>4, InFlightTyped
         DEF Pending, PhoneInv, AsksFit, Lineage, Succeeds
    <3>2. CASE Ended(n)
      BY <3>1, <3>2, EndedStays DEF Unused
    <3>3. CASE toks[n].status = "active" /\ toks[n].epoch = FamilyOf(n).epoch
      <4>1. Owns(c, toks[n].fam) /\ \A q \in Asks(c) : ~Rotate(q)
        BY <1>3, <1>5, <2>1, <3>1
      <4>2. /\ toks'[n].status = toks[n].status
            /\ fams'[toks[n].fam].epoch = fams[toks[n].fam].epoch
        BY <1>1, <3>1, <4>1, OwnStoreKept
      <4>3. toks'[n].fam = toks[n].fam /\ toks'[n].epoch = toks[n].epoch
        BY <3>1, TokensKept
      <4> QED  BY <3>3, <4>2, <4>3 DEF Unused, FamilyOf
    <3> QED  BY <3>1, <3>2, <3>3 DEF Unused
  <2>5. ASSUME request[r].st = "asked"  PROVE Fit(c, o)'
    <3>1. Fit(c, o)
      BY <1>5, <2>1, <2>5 DEF PhoneInv, AsksFit
    <3>2. ~Awaited(c, o) /\ \A q \in Asks(c) : ~Rotate(q)
      BY <1>3, <1>5, <2>5 DEF Awaited, Pending
    <3> QED  BY <1>3, <1>5, <2>1, <3>1, <3>2, FitStays
  <2> QED  BY <2>2, <2>3, <2>4, <2>5
<1>6. CASE r \in Asks(c) /\ Gate(r)
  <2>1. /\ request'[r].old = request[r].old /\ ~Rotate(r) /\ Pending(r)
        /\ request'[r].new.tok = request[r].new.tok
        /\ request'[r].st \in {"refused", "renewed"}
    BY <1>1, <1>6 DEF Gate, Rotate, Pending, Asking, Pairs
  <2>2. request'[r].st = "refused" => Ended(o)
    <3>1. toks[request[r].new.tok].fam = toks[o].fam
      BY <1>1, <2>1 DEF Lineage, Succeeds
    <3> QED  BY <1>1, <1>6, <3>1 DEF Gate, Ended, FamilyOf, Asking
  <2> QED  BY <1>5, <1>6, <2>1, <2>2 DEF Pending
<1>7. CASE r \in Asks(c) /\ request'[r] = request[r] /\ ~Rotate(r)
  <2>1. request[r].st = "refused" => Ended(o) \/ lost[o] >= 2
    BY <1>7 DEF PhoneInv, AsksFit
  <2> QED  BY <1>5, <1>7, <2>1 DEF Pending
<1>8. CASE r \in Asks(c) /\ Fail(r)
  <2>1. request'[r].st = "failed"
    BY <1>1, <1>8 DEF Fail, Asking
  <2> QED  BY <2>1 DEF Pending
<1>9. CASE Land(r) \/ LoseCookie(r)
  <2>1. request'[r] = Idle
    BY <1>1, <1>9 DEF Land, LoseCookie
  <2> QED  BY <1>1, <2>1 DEF Idle
<1>10. r \in Asks(c) \/ \E d \in Clients : Sent(r, d)
  BY <1>1, AskAfter DEF Asks
<1>11. CASE \E d \in Clients : Sent(r, d)
  <2>1. request'[r].st \in {"asked", "failed"} /\ Fit(c, o)'
    BY <1>2, <1>11
  <2> QED  BY <2>1 DEF Pending
<1>12. CASE r \in Asks(c) /\ ~\E d \in Clients : Sent(r, d)
  <2>1. \/ request'[r] = request[r] /\ ~Rotate(r)
        \/ Rotate(r) \/ Gate(r) \/ Fail(r) \/ Land(r) \/ LoseCookie(r)
    BY <1>1, <1>12, RequestMoves
  <2> QED  BY <1>4, <1>6, <1>7, <1>8, <1>9, <1>12, <2>1
<1> QED  BY <1>10, <1>11, <1>12

LEMMA PhoneStep ==
    ASSUME TypeOK, TypeOK', Lineage, PhoneInv, [Next]_vars
    PROVE  PhoneInv'
BY OneAtATimeStep, AsksWithItsOwnStep, HoldsFitStep, AsksFitStep DEF PhoneInv

LEMMA PhoneInit ==
    ASSUME Init
    PROVE  PhoneInv
<1>1. \A c \in Clients : Asks(c) = {} /\ ~SignedIn(c)
  BY DEF Init, Asks, Idle, SignedIn, SignedOut
<1> QED
  BY <1>1 DEF PhoneInv, OneAtATime, AsksWithItsOwn, HoldsFit, AsksFit, Phones

(* PhoneInv is inductive relative to the types and to whose a family is.   *)
THEOREM PhonesStayFit == Spec => [](TypeOK /\ Lineage /\ PhoneInv)
<1>1. Init => Lineage /\ PhoneInv
  BY HonestInit, PhoneInit DEF HonestInv
<1>2. TypeOK /\ TypeOK' /\ Lineage /\ PhoneInv /\ [Next]_vars => Lineage' /\ PhoneInv'
  BY LineageStep, PhoneStep
<1> QED  BY <1>1, <1>2, SessionsTypeCorrect, PTL DEF Spec

(* A phone is refused only when its session is over or two answers to the  *)
(* same token never reached it, whatever else the account goes through.    *)
THEOREM PhonesRefusedForAReason == Spec => []RefusedOnlyAfterTwoLosses
<1>1. ASSUME TypeOK, PhoneInv
      PROVE  RefusedOnlyAfterTwoLosses
  <2> SUFFICES ASSUME NEW r \in Requests, request[r].st = "refused",
                      kindOf[request[r].client] = "phone"
               PROVE  \/ Over(toks[request[r].old.tok].fam)
                      \/ IsRevokedByPasswordChange(FamilyOf(request[r].old.tok).issuedAt)
                      \/ lost[request[r].old.tok] >= 2
    BY DEF RefusedOnlyAfterTwoLosses
  <2>1. request[r].client \in Phones /\ r \in Asks(request[r].client)
    BY <1>1, InFlightTyped DEF Phones, Asks
  <2> QED  BY <1>1, <2>1 DEF PhoneInv, AsksFit, Ended
<1> QED  BY <1>1, PhonesStayFit, PTL

=============================================================================
