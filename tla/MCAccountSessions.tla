-------------------------- MODULE MCAccountSessions --------------------------
EXTENDS AccountSessions, TLC

(* A long time under one password, a renewal forced across a change, or    *)
(* two changes with time for a stamp to be late.                           *)
MCBounds ==
    {[now |-> 12, families |-> 1, tokens |-> 4, passwords |-> 1, pushed |-> 0,
      stale |-> 1],
     [now |-> 2, families |-> 2, tokens |-> 3, passwords |-> 2, pushed |-> 1,
      stale |-> 0],
     [now |-> 3, families |-> 2, tokens |-> 2, passwords |-> 3, pushed |-> 0,
      stale |-> 0]}

RequestSymmetry == Permutations(Requests)
=============================================================================
