--------------------------- MODULE MCConferenceSfu ---------------------------
(* Peers p1 and p2 sit on socket sa one after the other, q on sb. *)
EXTENDS ConferenceSfu

CONSTANTS sa, sb, p1, p2, q

MCSocketOf == [p \in Peers |-> IF p = q THEN sb ELSE sa]

(* The two are alike: it is enough that p1 sits first. *)
FirstThenSecond == p2 \in past => p1 \in past

(* What a receiver that leaves does is seen with the first.                *)
ReceiverStays == {q, p2} \subseteq past => IsSeated(q)
=============================================================================
