--------------------------- MODULE RefreshFamilies ---------------------------
(***************************************************************************)
(* The refresh-token store of apps/api/src/modules/auth/refresh: families  *)
(* of one-use tokens in Redis, and the script that trades a presented      *)
(* token for its successor in one atomic step.                             *)
(*                                                                         *)
(* A token and a family are named by their place in the order they were    *)
(* minted in.  Every leaf expires with its family (both ttls end at        *)
(* famExpiresAt), so the verdicts `notfound' and `expired' of an honest    *)
(* token are one, "expired".  Time is the floor of the clock the API reads *)
(* (one unit may stand for many seconds: only the comparisons matter).     *)
(***************************************************************************)
EXTENDS Integers, Sequences

CONSTANTS
    Grace,          \* ROTATION_GRACE_SECONDS
    FamilyLife      \* REFRESH_TOKEN_TTL_SECONDS

ASSUME GraceIsNat == Grace \in Nat
ASSUME FamilyLifeIsPositive == FamilyLife \in Nat \ {0}

VARIABLES
    now,        \* floor(Date.now() / 1000)
    fams,       \* rtfam:<familyId>, in the order of minting
    toks        \* rt:<sha256(token)>, in the order of minting

storeVars == <<now, fams, toks>>

(* The code keeps one flag for revoked.  Its reason, the password a family *)
(* was minted under and by whom are kept for the properties only.          *)
Reasons == {"no", "reuse", "signout", "password"}

Families == [issuedAt : Nat, revoked : Reasons, lastUsedGen : Nat,
             epoch : Nat, under : Nat, by : {"login", "change"}]

Leaves == [fam : Nat, status : {"active", "spent"}, gen : Nat, epoch : Nat,
           spentAt : Nat]

FamilyOf(t) == fams[toks[t].fam]

ExpiresAt(f) == fams[f].issuedAt + FamilyLife

Over(f) == fams[f].revoked # "no" \/ now >= ExpiresAt(f)

NewLeaf(f, gen, epoch) ==
    [fam |-> f, status |-> "active", gen |-> gen, epoch |-> epoch,
     spentAt |-> 0]

(***************************************************************************)
(* issueFamily: a family with one leaf.  gen starts at 1 against a         *)
(* lastUsedGen of 0.                                                       *)
(***************************************************************************)
IssueFamily(issuedAt, under, by) ==
    /\ fams' = Append(fams, [issuedAt |-> issuedAt, revoked |-> "no",
                             lastUsedGen |-> 0, epoch |-> 0, under |-> under,
                             by |-> by])
    /\ toks' = Append(toks, NewLeaf(Len(fams) + 1, 1, 0))

(***************************************************************************)
(* The verdict of the rotation script on a presented token, in the order   *)
(* the script decides it: life, revocation, lineage, and status last.      *)
(***************************************************************************)
(* Mutant: the generation that was used last is behind, too.               *)
NotAheadOfItsFamily(t) == toks[t].gen <= FamilyOf(t).lastUsedGen

BehindItsFamily(t) == toks[t].gen < FamilyOf(t).lastUsedGen

Verdict(t) ==
    IF now >= ExpiresAt(toks[t].fam) THEN "expired"
    ELSE IF FamilyOf(t).revoked # "no" THEN "revoked"
    ELSE IF BehindItsFamily(t) THEN "reuse"
    ELSE IF toks[t].epoch < FamilyOf(t).epoch THEN "orphaned"
    ELSE IF toks[t].status = "active" THEN "rotated"
    ELSE IF now - toks[t].spentAt <= Grace THEN "grace"
    ELSE "recovered"

Renewing == {"rotated", "grace", "recovered"}

(* The first use spends the leaf; a burst's later members leave it alone.  *)
Spent(t) ==
    IF Verdict(t) = "rotated"
    THEN [toks EXCEPT ![t].status = "spent", ![t].spentAt = now]
    ELSE toks

(* Forgiving a late duplicate moves the family on, past its successor.     *)
FamilyAfter(t) ==
    LET f == toks[t].fam
    IN  CASE Verdict(t) = "rotated"   -> [fams EXCEPT ![f].lastUsedGen = toks[t].gen]
          [] Verdict(t) = "recovered" -> [fams EXCEPT ![f].epoch = @ + 1]
          [] Verdict(t) = "reuse"     -> [fams EXCEPT ![f].revoked = "reuse"]
          [] OTHER                    -> fams

(* Mutant: a successor stays in the epoch of the token it replaces.        *)
SuccessorInItsEpoch(t) == NewLeaf(toks[t].fam, toks[t].gen + 1, toks[t].epoch)

(* Every successor is one generation on, in the family's epoch after this. *)
Successor(t) ==
    NewLeaf(toks[t].fam, toks[t].gen + 1, FamilyAfter(t)[toks[t].fam].epoch)

RotateToken(t) ==
    /\ fams' = FamilyAfter(t)
    /\ toks' = IF Verdict(t) \in Renewing
               THEN Append(Spent(t), Successor(t))
               ELSE toks

(* revokeFamily, revokeByToken: only a family that is still there.         *)
Revoked(f, why) ==
    IF now >= ExpiresAt(f) \/ fams[f].revoked # "no"
    THEN fams
    ELSE [fams EXCEPT ![f].revoked = why]
=============================================================================
