------------------------ MODULE MCBlockRetranslation ------------------------
(* Pieces of one long sentence, cut twice by the ceiling, and a turn after   *)
(* them that pushes the first piece out of the window.                      *)
EXTENDS BlockRetranslation

CONSTANT alice

MCUserOf == [s \in Sockets |-> alice]

MCPlanOf == [i \in Segments |-> "vi-en"]

(* A block as it grows and one beside it. *)
MCShapes == {<<1, 2>>, <<1, 2, 3>>, <<2, 3>>}

AskedOnce == [b \in Shapes |-> 1]

AllCuts == Cuts
=============================================================================
