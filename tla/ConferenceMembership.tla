------------------------ MODULE ConferenceMembership ------------------------
(***************************************************************************)
(* What the people of a conference may rely on, without joins, rooms and   *)
(* rows.  A person is present on one connection at a time, and ceases to   *)
(* be present only by an act of that connection (it leaves, moves, or goes *)
(* away), by the meeting's end, or on being there already on a newer one:  *)
(* nobody sees them absent in between.  A connection that was superseded,  *)
(* or was in a meeting that ended, is shut, and never is present again.    *)
(***************************************************************************)
CONSTANTS Conferences, Connections, PersonOf

VARIABLES
    present,    \* the connections in each conference
    link,       \* what has become of each connection
    over        \* the conferences that were ended and cleared

membershipVars == <<present, link, over>>

MembershipInit ==
    /\ present = [r \in Conferences |-> {}]
    /\ link = [c \in Connections |-> "open"]
    /\ over = {}

Elsewhere(c, r) == {d \in present[r] : PersonOf[d] = PersonOf[c]} \ {c}

Shut(cs) ==
    [c \in Connections |-> IF c \in cs /\ link[c] = "open" THEN "closing"
                                                           ELSE link[c]]

WithoutIt(c) == [r \in Conferences |-> present[r] \ {c}]

(* An open connection comes in, and supersedes its person's other one.     *)
Enter(c, r) ==
    /\ link[c] = "open"
    /\ r \notin over
    /\ \A q \in Conferences : c \notin present[q]
    /\ present' = [present EXCEPT ![r] = (@ \ Elsewhere(c, r)) \cup {c}]
    /\ link' = Shut(Elsewhere(c, r))
    /\ UNCHANGED over

(* It leaves, or moves on to another conference.                           *)
Exit(c) ==
    /\ link[c] # "gone"
    /\ present' = WithoutIt(c)
    /\ UNCHANGED <<link, over>>

(* Connections close, of which their people are absent once they are gone. *)
Break(cs) ==
    /\ link' = Shut(cs)
    /\ UNCHANGED <<present, over>>

GoAway(c) ==
    /\ link[c] = "closing"
    /\ link' = [link EXCEPT ![c] = "gone"]
    /\ present' = WithoutIt(c)
    /\ UNCHANGED over

(* The owner ended the meeting.                                            *)
Clear(r) ==
    /\ present' = [present EXCEPT ![r] = {}]
    /\ link' = Shut(present[r])
    /\ over' = over \cup {r}

MembershipNext ==
    \/ \E c \in Connections :
           Exit(c) \/ GoAway(c) \/ \E r \in Conferences : Enter(c, r)
    \/ \E cs \in SUBSET Connections : Break(cs)
    \/ \E r \in Conferences : Clear(r)

MembershipSpec == MembershipInit /\ [][MembershipNext]_membershipVars
=============================================================================
