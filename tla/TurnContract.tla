---------------------------- MODULE TurnContract ----------------------------
(***************************************************************************)
(* What a client of /ws/translate is promised of each turn, whatever the   *)
(* server does inside: it is told ready first; then at most one line; then *)
(* at most one label of the voice it was in, never ahead of the line; then *)
(* at most one fault of the server's own, after which neither can follow;  *)
(* then ended, once and last.  An error that answers a message of the      *)
(* client's is another matter: it may come at any point before ended and   *)
(* the turn goes on as if it had not.  A turn is accounted for when it     *)
(* ends, and a turn whose client left is accounted for at most once, later *)
(* and in silence.                                                         *)
(***************************************************************************)
CONSTANT Turns

VARIABLES
    told,       \* what the client last learned about each turn
    accounted,  \* the turns whose spending is on record
    refused     \* the turns a message of whose client was refused

contractVars == <<told, accounted, refused>>

Tidings == {"nothing", "ready", "line", "label", "fault", "ended", "lost"}

ContractInit ==
    /\ told = [t \in Turns |-> "nothing"]
    /\ accounted = {}
    /\ refused = {}

MovesTo(t, from, to) ==
    /\ told[t] \in from
    /\ told' = [told EXCEPT ![t] = to]

Ready(t) == MovesTo(t, {"nothing"}, "ready") /\ UNCHANGED <<accounted, refused>>

Line(t) == MovesTo(t, {"ready"}, "line") /\ UNCHANGED <<accounted, refused>>

Label(t) == MovesTo(t, {"line"}, "label") /\ UNCHANGED <<accounted, refused>>

Fault(t) == MovesTo(t, {"line", "label"}, "fault") /\ UNCHANGED <<accounted, refused>>

(* A frame or an end the turn cannot take, between ready and ended. *)
Refused(t) ==
    /\ told[t] \in {"ready", "line", "label", "fault"}
    /\ refused' = refused \cup {t}
    /\ UNCHANGED <<told, accounted>>

(* Several turns may end at once: one sweep closes every idle turn. *)
Ended(ending) ==
    /\ ending # {}
    /\ \A t \in ending : told[t] \in {"ready", "line", "label", "fault"}
    /\ told' = [t \in Turns |-> IF t \in ending THEN "ended" ELSE told[t]]
    /\ ending \cap accounted = {}
    /\ accounted' = accounted \cup ending
    /\ UNCHANGED refused

(* One connection going takes every turn it had. *)
Lost(leaving) ==
    /\ leaving # {}
    /\ \A t \in leaving : told[t] # "nothing"
    /\ told' = [t \in Turns |-> IF t \in leaving THEN "lost" ELSE told[t]]
    /\ UNCHANGED <<accounted, refused>>

AccountLate(t) ==
    /\ told[t] = "lost"
    /\ t \notin accounted
    /\ accounted' = accounted \cup {t}
    /\ UNCHANGED <<told, refused>>

ContractNext ==
    \/ \E t \in Turns : Ready(t) \/ Line(t) \/ Label(t) \/ Fault(t)
                      \/ Refused(t) \/ AccountLate(t)
    \/ \E some \in SUBSET Turns : Ended(some) \/ Lost(some)

ContractSpec == ContractInit /\ [][ContractNext]_contractVars
=============================================================================
