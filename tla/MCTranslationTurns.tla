------------------------- MODULE MCTranslationTurns -------------------------
EXTENDS TranslationTurns

CONSTANTS s1, s2, alice

MCUserOf == [s \in Sockets |-> IF s = s1 THEN alice ELSE NoUser]

Asking(mode, embed, voice, respell, continues) ==
    [meets |-> FALSE, mode |-> mode, embed |-> embed, voice |-> voice,
     respell |-> respell, continues |-> continues]

(* Every way a turn can be delivered. *)
EverySetting ==
    {Asking(m, e, v, r, c) : m \in {"declared", "two-way"},
                              e \in BOOLEAN, v \in BOOLEAN,
                              r \in BOOLEAN, c \in BOOLEAN}

(* Turns that are only read: one of a meeting in two languages, one plain. *)
ReadSettings ==
    {[Asking("two-way", FALSE, FALSE, FALSE, FALSE) EXCEPT !.meets = TRUE],
     Asking("declared", FALSE, FALSE, FALSE, FALSE)}

OneAccount == [s \in Sockets |-> alice]

TurnSymmetry == Permutations(Turns)
=============================================================================
