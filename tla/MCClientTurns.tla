--------------------------- MODULE MCClientTurns ---------------------------
EXTENDS ClientTurns

Plain == [limit |-> 2, turns |-> 2, blocks |-> 1, frames |-> 0, refusals |-> 0,
          faults |-> 0, asks |-> 0, stalls |-> FALSE, drops |-> FALSE,
          ends |-> FALSE]

(* Three turns and two at the server, captured and sent, with a refusal.   *)
Capturing == [Plain EXCEPT !.turns = 3, !.blocks = 2, !.refusals = 1]

(* A socket that drops.                                                    *)
Dropping == [Plain EXCEPT !.blocks = 3, !.drops = TRUE]

(* Three turns voiced at once, and two that may stall.                     *)
Voicing == [Plain EXCEPT !.limit = 3, !.turns = 3, !.frames = 1]

Stalling == [Plain EXCEPT !.frames = 2, !.stalls = TRUE]

(* One turn at a time, refused, faulted, voiced, stalled and ended.        *)
Alternating == [Plain EXCEPT !.limit = 1, !.frames = 2, !.refusals = 1,
                             !.faults = 1, !.stalls = TRUE, !.ends = TRUE]

(* A conversation of one spoken turn, ended.                               *)
Closing == [Plain EXCEPT !.turns = 1, !.frames = 1, !.ends = TRUE]

MCModes == {Capturing, Dropping, Voicing, Stalling, Alternating,
            [Closing EXCEPT !.asks = 1]}

MCDrain == {Closing}
=============================================================================
