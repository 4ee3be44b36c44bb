-------------------------- MODULE MCConferenceRooms --------------------------
(* Sockets of one account are numbered from a, of another from b. *)
EXTENDS ConferenceRooms

CONSTANTS a1, a2, b1, alice, bob

MCUserOf == [s \in Sockets |-> IF s \in {a1, a2} THEN alice ELSE bob]

(* Every socket joins twice, or only the first one does. *)
MCTwoJoins == [s \in Sockets |-> 2]
MCFirstMoves == [s \in Sockets |-> IF s = a1 THEN 2 ELSE 1]

ObjectSymmetry == Permutations(Objects)
=============================================================================
