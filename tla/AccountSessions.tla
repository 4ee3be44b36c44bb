--------------------------- MODULE AccountSessions ---------------------------
(***************************************************************************)
(* The sessions of one account: the refresh service and its password gate  *)
(* (SessionRefreshService), the password change and reset that end earlier *)
(* sessions, and the two kinds of client that renew.                       *)
(*                                                                         *)
(* A "web" client is a browser: one cookie shared by its tabs, each        *)
(* request carrying the cookie it started with, and writing a cookie back  *)
(* when it ends, the one it started with when it renewed nothing.  That    *)
(* rewriting is next-auth's; the decision to renew is applyRenewal's.  A   *)
(* "phone" keeps its session in one place and shares one renewal.          *)
(*                                                                         *)
(* A request that renews ends, answered or not, within Abort of its start: *)
(* one that reaches the API after its client gave up is not modelled.      *)
(*                                                                         *)
(* Hashing, taking the stamp and committing it are steps of their own, and *)
(* so are the two ends of a login's password check.                        *)
(***************************************************************************)
EXTENDS RefreshFamilies

CONSTANTS
    Clients,
    Requests,       \* requests that can be in flight at once
    NoClient,
    Abort,          \* AbortSignal.timeout(5000), REQUEST_TIMEOUT_MS
    FreshFor,       \* the access token's life less the client's skew
    Bounds          \* the bounds a behaviour may be explored within

(* Bounds: the clock, the families and the refresh tokens minted, the      *)
(* passwords the account goes through, the renewals forced before the      *)
(* token is due, and the cookies put back over another one.                *)
ASSUME BoundsType ==
    Bounds \subseteq [now : Nat, families : Nat, tokens : Nat,
                      passwords : Nat, pushed : Nat, stale : Nat]
ASSUME NoClientIsNone == NoClient \notin Clients
ASSUME AbortIsNat == Abort \in Nat
ASSUME GraceCoversAbort == Grace >= Abort
ASSUME FreshForIsNat == FreshFor \in Nat

VARIABLES
    bound,      \* the bounds of this behaviour, which never change
    kindOf,     \* what each client is, which never changes
    password,   \* User.passwordHash, by number
    stamp,      \* User.passwordChangedAt, 0 for null
    held,       \* [Clients -> the cookie's or the store's pair]
    request,    \* [Requests -> what is in flight]
    checking,   \* [Clients -> the password a login is checked against, or 0]
    change,     \* a password change in progress
    resetting,  \* a password reset in progress
    spared,     \* the logins that crossed with the last write of a password
    pushed,     \* renewals forced so far
    stale,      \* cookies put back over another one so far
    lost        \* rotations of a token whose answer was lost, for each token

fixed == <<bound, kindOf>>

store == <<now, fams, toks>>
account == <<password, stamp>>
pending == <<checking, change, resetting, spared>>
tallies == <<pushed, stale, lost>>

vars == <<fixed, store, account, held, request, pending, tallies>>

SignedOut == [tok |-> 0, iat |-> 0]

Idle == [client |-> NoClient, st |-> "idle", old |-> SignedOut,
         new |-> SignedOut, sentAt |-> 0]

NoChange == [client |-> NoClient, st |-> "none", from |-> 0, at |-> 0,
             spared |-> {}]

NoReset == [st |-> "none", at |-> 0, spared |-> {}]

InFlight(c) == {r \in Requests : request[r].client = c}

SignedIn(c) == held[c].tok # 0

(* The gate of verifyToken and of refresh.  A stamp is whole seconds.      *)
IsRevokedByPasswordChange(issuedAt) == issuedAt < stamp

(* expiresAt less the skew has come.                                       *)
Due(c) == now >= held[c].iat + FreshFor

-----------------------------------------------------------------------------
Init ==
    /\ bound \in Bounds
    /\ kindOf \in [Clients -> {"web", "phone"}]
    /\ now = 1
    /\ fams = <<>>
    /\ toks = <<>>
    /\ password = 1
    /\ stamp = 0
    /\ held = [c \in Clients |-> SignedOut]
    /\ request = [r \in Requests |-> Idle]
    /\ checking = [c \in Clients |-> 0]
    /\ change = NoChange
    /\ resetting = NoReset
    /\ spared = {}
    /\ pushed = 0
    /\ stale = 0
    /\ lost = <<>>

CanMint == Len(fams) < bound.families /\ Len(toks) < bound.tokens

(* A new family, its first pair held by the client that asked for it.      *)
SessionFor(c, issuedAt, under, by) ==
    /\ CanMint
    /\ IssueFamily(issuedAt, under, by)
    /\ lost' = Append(lost, 0)
    /\ held' = [held EXCEPT ![c] = [tok |-> Len(toks) + 1, iat |-> issuedAt]]

(* POST /auth/login: the hash as it is now, to be checked against.         *)
BeginLogin(c) ==
    /\ ~SignedIn(c)
    /\ checking[c] = 0
    /\ checking' = [checking EXCEPT ![c] = password]
    /\ UNCHANGED <<fixed, store, account, tallies, held, request, change,
                   resetting, spared>>

(* A stamp taken and not yet written, whose second has come, does not end  *)
(* a login that completes now.                                             *)
Passing(write, f) ==
    IF write.st = "stamped" /\ write.at <= now
    THEN [write EXCEPT !.spared = @ \cup {f}] ELSE write

(* The password matched: the session, whatever was written meanwhile.      *)
Login(c) ==
    LET f == Len(fams) + 1
        overtaken == checking[c] < password /\ stamp <= now
    IN  /\ checking[c] # 0
        /\ SessionFor(c, now, checking[c], "login")
        /\ checking' = [checking EXCEPT ![c] = 0]
        /\ change' = Passing(change, f)
        /\ resetting' = Passing(resetting, f)
        /\ spared' = IF overtaken THEN spared \cup {f} ELSE spared
        /\ UNCHANGED <<fixed, account, now, request, pushed, stale>>

(* It did not, or something failed.                                        *)
FailLogin(c) ==
    /\ checking[c] # 0
    /\ checking' = [checking EXCEPT ![c] = 0]
    /\ UNCHANGED <<fixed, store, account, tallies, held, request, change,
                   resetting, spared>>

(* Signing out drops the pair and asks the API to revoke its family; the   *)
(* request may be lost, and is not repeated.                               *)
SignOut(c) ==
    /\ SignedIn(c)
    /\ held' = [held EXCEPT ![c] = SignedOut]
    /\ fams' \in {fams, Revoked(toks[held[c].tok].fam, "signout")}
    /\ UNCHANGED <<fixed, account, pending, tallies, now, toks, request>>

-----------------------------------------------------------------------------
(***************************************************************************)
(* Renewing.                                                               *)
(***************************************************************************)
Send(r, c, st) ==
    request' = [request EXCEPT ![r] = [client |-> c, st |-> st,
                                       old |-> held[c], new |-> SignedOut,
                                       sentAt |-> now]]

(* A request of a browser: it renews if the token is due or it is told to  *)
(* (a 401 to recover from, a changed avatar).                              *)
Visit(r, c, forced) ==
    /\ kindOf[c] = "web"
    /\ request[r] = Idle
    /\ SignedIn(c)
    /\ forced => pushed < bound.pushed
    /\ Send(r, c, IF forced \/ Due(c) THEN "asked" ELSE "failed")
    /\ pushed' = IF forced THEN pushed + 1 ELSE pushed
    /\ UNCHANGED <<fixed, store, account, pending, held, stale, lost>>

(* A phone asks when its token is due, and shares one request.             *)
GetAccessToken(r, c) ==
    /\ kindOf[c] = "phone"
    /\ request[r] = Idle
    /\ InFlight(c) = {}
    /\ SignedIn(c)
    /\ Due(c)
    /\ Send(r, c, "asked")
    /\ UNCHANGED <<fixed, store, account, pending, tallies, held>>

(* POST /auth/refresh reaches Redis.                                       *)
Rotate(r) ==
    LET t == request[r].old.tok
        renewed == Verdict(t) \in Renewing
    IN  /\ request[r].st = "asked"
        /\ renewed => Len(toks) < bound.tokens
        /\ RotateToken(t)
        /\ lost' = IF renewed THEN Append(lost, 0) ELSE lost
        /\ request' = [request EXCEPT
                         ![r].st = IF renewed THEN "rotated" ELSE "refused",
                         ![r].new = IF renewed
                                    THEN [tok |-> Len(toks) + 1, iat |-> 0]
                                    ELSE SignedOut]
        /\ UNCHANGED <<fixed, account, pending, now, held, pushed, stale>>

(* Mutant: an access token is always issued now.                           *)
IssuedNow(f) == now

(* Never earlier than the family, which a change stamps ahead of the clock.*)
IssuedAt(f) == IF fams[f].issuedAt > now THEN fams[f].issuedAt ELSE now

(* The state read after the rotation, the gate, and the access token.  The *)
(* family of a refused one is revoked, unless Redis fails then.            *)
Gate(r) ==
    LET f == toks[request[r].new.tok].fam
        refused == IsRevokedByPasswordChange(fams[f].issuedAt)
    IN  /\ request[r].st = "rotated"
        /\ IF refused
           THEN fams' \in {fams, Revoked(f, "password")}
           ELSE UNCHANGED fams
        /\ request' = [request EXCEPT
                         ![r].st = IF refused THEN "refused" ELSE "renewed",
                         ![r].new.iat = IssuedAt(f)]
        /\ UNCHANGED <<fixed, account, pending, tallies, now, toks, held>>

(* A fault of Redis (503) or of Postgres (5xx), a timeout, a dropped       *)
(* connection: before the rotation or after it, the client learns nothing. *)
Fail(r) ==
    LET t == request[r].old.tok
    IN  /\ request[r].st \in {"asked", "rotated", "renewed", "refused"}
        /\ request' = [request EXCEPT ![r].st = "failed"]
        /\ lost' = IF request[r].st \in {"rotated", "renewed"}
                   THEN [lost EXCEPT ![t] = @ + 1] ELSE lost
        /\ UNCHANGED <<fixed, store, account, pending, held, pushed, stale>>

(* The pair a client writes when its request ends.  Only a 401 ends a      *)
(* session.  A browser also writes back a cookie it did not renew.         *)
PairAfter(r) ==
    LET q == request[r]
    IN  CASE q.st = "renewed" -> q.new
          [] q.st = "refused" -> SignedOut
          [] q.st = "failed" -> IF kindOf[q.client] = "web" THEN q.old
                                ELSE held[q.client]

PutsBack(r) ==
    /\ request[r].st = "failed"
    /\ PairAfter(r) # held[request[r].client]

Land(r) ==
    /\ request[r].st \in {"renewed", "refused", "failed"}
    /\ PutsBack(r) => stale < bound.stale
    /\ stale' = IF PutsBack(r) THEN stale + 1 ELSE stale
    /\ held' = [held EXCEPT ![request[r].client] = PairAfter(r)]
    /\ request' = [request EXCEPT ![r] = Idle]
    /\ UNCHANGED <<fixed, store, account, pending, pushed, lost>>

(* The browser never receives the response: its Set-Cookie is lost.        *)
LoseCookie(r) ==
    LET q == request[r]
    IN  /\ q.st \in {"renewed", "refused", "failed"}
        /\ kindOf[q.client] = "web"
        /\ request' = [request EXCEPT ![r] = Idle]
        /\ lost' = IF q.st = "renewed" THEN [lost EXCEPT ![q.old.tok] = @ + 1]
                   ELSE lost
        /\ UNCHANGED <<fixed, store, account, pending, held, pushed, stale>>

-----------------------------------------------------------------------------
(***************************************************************************)
(* Changing the password.                                                  *)
(***************************************************************************)
(* Math.ceil: the next whole second, or this one when a millisecond of it  *)
(* has not passed; a login of that millisecond counts as after the stamp.  *)
Ceil(at) ==
    \/ at = now + 1
    \/ at = now /\ \A f \in 1 .. Len(fams) :
                       fams[f].by = "login" => fams[f].issuedAt < now

(* A stamp is taken after the hash, and before the write.                  *)
Stamped(write, at) == [write EXCEPT !.st = "stamped", !.at = at]

(* Mutant: the stamp as it was taken, whatever was written before.         *)
StampAsTaken(at) == at

(* The stamp only moves forward.                                           *)
StampToWrite(at) == IF at > stamp THEN at ELSE stamp + 1

UpdatePasswordHash(write) ==
    /\ password' = password + 1
    /\ stamp' = StampToWrite(write.at)
    /\ spared' = write.spared

(* changePassword up to the hash: a live access token, the current password*)
BeginChange(c) ==
    /\ kindOf[c] = "web"
    /\ change = NoChange
    /\ password < bound.passwords
    /\ SignedIn(c)
    /\ ~IsRevokedByPasswordChange(held[c].iat)
    /\ change' = [NoChange EXCEPT !.client = c, !.st = "hashing",
                                  !.from = password]
    /\ UNCHANGED <<fixed, store, account, tallies, held, request, checking,
                   resetting, spared>>

StampChange ==
    /\ change.st = "hashing"
    /\ \E at \in {now, now + 1} : Ceil(at) /\ change' = Stamped(change, at)
    /\ UNCHANGED <<fixed, store, account, tallies, held, request, checking,
                   resetting, spared>>

(* Conditional on the hash it verified: a reset meanwhile answers 403.     *)
WriteChange ==
    /\ change.st = "stamped"
    /\ IF password = change.from
       THEN /\ UpdatePasswordHash(change)
            /\ change' = [change EXCEPT !.st = "written",
                                        !.at = StampToWrite(change.at),
                                        !.spared = {}]
       ELSE /\ change' = NoChange
            /\ UNCHANGED <<account, spared>>
    /\ UNCHANGED <<fixed, store, tallies, held, request, checking, resetting>>

(* The replacement session is minted at the stamp, not at now.             *)
MintChange ==
    /\ change.st = "written"
    /\ SessionFor(change.client, change.at, change.from + 1, "change")
    /\ change' = NoChange
    /\ UNCHANGED <<fixed, account, now, request, checking,
                   resetting, spared, pushed, stale>>

(* A fault at any point of it: the write, once made, stays.                *)
FailChange ==
    /\ change # NoChange
    /\ change' = NoChange
    /\ UNCHANGED <<fixed, store, account, tallies, held, request, checking,
                   resetting, spared>>

(* resetPassword: a link bound to the current hash, then the hashing.      *)
BeginReset ==
    /\ resetting = NoReset
    /\ password < bound.passwords
    /\ resetting' = [NoReset EXCEPT !.st = "hashing"]
    /\ UNCHANGED <<fixed, store, account, tallies, held, request, checking,
                   change, spared>>

StampReset ==
    /\ resetting.st = "hashing"
    /\ \E at \in {now, now + 1} : Ceil(at) /\ resetting' = Stamped(resetting, at)
    /\ UNCHANGED <<fixed, store, account, tallies, held, request, checking,
                   change, spared>>

(* Unconditional, and no session comes of it.                              *)
WriteReset ==
    /\ resetting.st = "stamped"
    /\ UpdatePasswordHash(resetting)
    /\ resetting' = NoReset
    /\ UNCHANGED <<fixed, store, tallies, held, request, checking, change>>

FailReset ==
    /\ resetting # NoReset
    /\ resetting' = NoReset
    /\ UNCHANGED <<fixed, store, account, tallies, held, request, checking,
                   change, spared>>

(* Time, which waits for a request that has reached its limit.             *)
Tick ==
    /\ now < bound.now
    /\ \A r \in Requests : request[r] # Idle => now < request[r].sentAt + Abort
    /\ now' = now + 1
    /\ UNCHANGED <<fixed, account, pending, tallies, fams, toks, held, request>>

-----------------------------------------------------------------------------
Next ==
    \/ \E c \in Clients :
           BeginLogin(c) \/ Login(c) \/ FailLogin(c) \/ SignOut(c) \/ BeginChange(c)
    \/ \E r \in Requests, c \in Clients, forced \in BOOLEAN : Visit(r, c, forced)
    \/ \E r \in Requests, c \in Clients : GetAccessToken(r, c)
    \/ \E r \in Requests :
           Rotate(r) \/ Gate(r) \/ Fail(r) \/ Land(r) \/ LoseCookie(r)
    \/ StampChange \/ WriteChange \/ MintChange \/ FailChange
    \/ BeginReset \/ StampReset \/ WriteReset \/ FailReset
    \/ Tick

Spec == Init /\ [][Next]_vars

-----------------------------------------------------------------------------
(***************************************************************************)
(* Properties.                                                             *)
(***************************************************************************)
Leaf(n) == n \in 1 .. Len(toks)

Pairs == [tok : Nat, iat : Nat]

Asking == [client : Clients \cup {NoClient},
           st : {"idle", "asked", "rotated", "renewed", "refused", "failed"},
           old : Pairs, new : Pairs, sentAt : Nat]

Changing == [client : Clients \cup {NoClient},
             st : {"none", "hashing", "stamped", "written"}, from : Nat,
             at : Nat, spared : SUBSET Nat]

Resetting == [st : {"none", "hashing", "stamped"}, at : Nat, spared : SUBSET Nat]

(* Every pair a client holds or is sent names a token that was minted, and *)
(* every token a family that was.                                          *)
TypeOK ==
    /\ bound \in Bounds
    /\ kindOf \in [Clients -> {"web", "phone"}]
    /\ now \in Nat
    /\ fams \in Seq(Families)
    /\ toks \in Seq(Leaves)
    /\ \A t \in 1 .. Len(toks) : toks[t].fam \in 1 .. Len(fams)
    /\ lost \in Seq(Nat) /\ Len(lost) = Len(toks)
    /\ password \in Nat /\ stamp \in Nat /\ pushed \in Nat /\ stale \in Nat
    /\ checking \in [Clients -> Nat]
    /\ resetting \in Resetting
    /\ spared \subseteq Nat
    /\ change \in Changing
    /\ change # NoChange => change.client \in Clients
    /\ held \in [Clients -> Pairs]
    /\ \A c \in Clients : SignedIn(c) => Leaf(held[c].tok)
    /\ request \in [Requests -> Asking]
    /\ \A r \in Requests :
           request[r].st # "idle" =>
               /\ request[r].client \in Clients
               /\ Leaf(request[r].old.tok)
               /\ request[r].st \in {"rotated", "renewed"} =>
                      Leaf(request[r].new.tok)

(* Nobody is taken for a thief, whatever answers are lost and however the  *)
(* tabs of a browser overwrite each other's cookie: the timescales of the  *)
(* theft signal (rotate-refresh-token.lua.ts) do not overlap.  They would  *)
(* if a renewal were forced before its token is due, or if requests put    *)
(* old cookies back one after the other for as long as a token is fresh.   *)
NoFalseTheft ==
    /\ pushed = 0
    /\ (stale + 2) * Abort < FreshFor
    => \A f \in 1 .. Len(fams) : fams[f].revoked # "reuse"

(* A phone, which renews one request at a time, is refused only when its   *)
(* session is over or two answers to the same token never reached it.      *)
RefusedOnlyAfterTwoLosses ==
    \A r \in Requests :
        /\ request[r].st = "refused"
        /\ kindOf[request[r].client] = "phone"
        => \/ Over(toks[request[r].old.tok].fam)
           \/ IsRevokedByPasswordChange(FamilyOf(request[r].old.tok).issuedAt)
           \/ lost[request[r].old.tok] >= 2

(* A password change ends every session of an earlier password, one that   *)
(* another change was minting ahead of the clock in the same second too.   *)
(* It spares only a login that crossed with the write: one that completed  *)
(* between the stamp and the commit, or was checked against the hash       *)
(* before the commit, with a whole second begun in between; and the next   *)
(* write ends that one as well.                                            *)
ChangeEndsEarlierSessions ==
    \A f \in 1 .. Len(fams) :
        /\ fams[f].under < password
        /\ f \notin spared
        => IsRevokedByPasswordChange(fams[f].issuedAt)

(* The browser that changed the password keeps its session: the family of  *)
(* the change passes the gate until the next change, and no session that   *)
(* passes it is ever handed an access token that does not.                 *)
ChangerStaysSignedIn ==
    /\ \A f \in 1 .. Len(fams) :
           /\ fams[f].by = "change"
           /\ fams[f].under = password
           => ~IsRevokedByPasswordChange(fams[f].issuedAt)
    /\ \A c \in Clients :
           /\ SignedIn(c)
           /\ ~IsRevokedByPasswordChange(FamilyOf(held[c].tok).issuedAt)
           => ~IsRevokedByPasswordChange(held[c].iat)
=============================================================================
