--------------------------- MODULE SfuSessionQueue ---------------------------
(***************************************************************************)
(* SfuSessionQueue: one lock per SFU session, with the calls waiting for   *)
(* it.  A queue is a value; run(), hold() and the end of a call are        *)
(* operators from queue to queue, and `running` is the call or hold that   *)
(* has the key.                                                            *)
(*                                                                         *)
(* A hold is only ever opened inside the run it continues, which ends in   *)
(* the same macrotask, so a hold released before it reached the front does *)
(* not occur in the service that uses the queue and is left out.           *)
(***************************************************************************)
EXTENDS Sequences

CONSTANT Nobody     \* nothing has the key

Idle == [running |-> Nobody, waiting |-> <<>>]

(* next(): the first in line takes a free key. *)
Advance(q) ==
    IF q.running # Nobody \/ q.waiting = <<>> THEN q
    ELSE [running |-> Head(q.waiting), waiting |-> Tail(q.waiting)]

Run(q, call) ==
    Advance([running |-> q.running, waiting |-> Append(q.waiting, call)])

(* hold(): ahead of everyone, for it continues the run that has the key.    *)
Hold(q, call) ==
    IF q.running = Nobody THEN Run(q, call)
    ELSE [running |-> q.running, waiting |-> <<call>> \o q.waiting]

(* Frees the key and leaves the line standing. *)
FinishOnly(q) == [running |-> Nobody, waiting |-> q.waiting]

(* finish() *)
Finish(q) == Advance([running |-> Nobody, waiting |-> q.waiting])

=============================================================================
