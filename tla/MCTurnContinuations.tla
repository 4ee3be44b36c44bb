------------------------ MODULE MCTurnContinuations -------------------------
EXTENDS TurnContinuations

Cut == [cut |-> TRUE, translated |-> TRUE]
CutText == [cut |-> TRUE, translated |-> FALSE]

(* The later turns continue the one before; the second may be
   transcript-only. *)
MCShapes == [t \in Turns |-> IF t = 2 THEN {Cut, CutText} ELSE {Cut}]

(* Only turns that others continue are worth splitting. *)
MCPieces == [t \in Turns |-> IF t = LastTurn THEN 1 ELSE 2]

(* The first turn continues nothing; the last one may renew its guess. *)
MCGuesses == [t \in Turns |-> IF t = LastTurn THEN 2 ELSE 0]
=============================================================================
