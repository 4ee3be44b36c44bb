---------------------- MODULE BlockRetranslationProofs ----------------------
(***************************************************************************)
(* The blocks of a connection for any segments, blocks, budgets and        *)
(* clients.  A block is asked for on a connection whose client is there,   *)
(* and only moves from the queue to the running place: whatever a client   *)
(* waits for stays in one of the two until it is answered.  The second half*)
(* is about the words recovered at the cuts of a block: none that a client *)
(* was given is taken back by the block that grew out of it.               *)
(***************************************************************************)
EXTENDS BlockRetranslation, TLAPS

(* The types of what the arguments below look at. *)
BlockType ==
    /\ running \in [Sockets -> [stage : {"idle", "taken", "reading", "translating"},
                                block : Shapes \cup {<<>>},
                                words : SUBSET Cuts, retried : BOOLEAN]]
    /\ reads = [s \in Sockets |-> reads[s]]
    /\ waiting \in [Sockets -> Seq(Shapes)]
    /\ polishing \in [Sockets -> SUBSET [block : Shapes, words : SUBSET Cuts]]
    /\ pending \in [Sockets -> SUBSET Shapes]
    /\ gone \subseteq Sockets
    /\ \A s \in Sockets : running[s].stage # "idle" => running[s].block \in Shapes

(* A block that was just taken has a client to answer.                     *)
TakenForSomebody == \A s \in gone : running[s].stage # "taken"

(* The queue is a map: one block waits under each first segment.           *)
QueueIsKeyed ==
    \A s \in Sockets : \A i, j \in 1 .. Len(waiting[s]) :
        waiting[s][i][1] = waiting[s][j][1] => i = j

BlockInv == BlockType /\ TakenForSomebody /\ NoAskIsLost /\ QueueIsKeyed

-----------------------------------------------------------------------------
LEMMA ShapesAreBlocks == Shapes \subseteq Seq(Segments) /\ <<>> \notin Shapes
BY ShapesType

LEMMA CutsOfBlocks ==
    ASSUME NEW b \in Shapes
    PROVE  CutsOf(b) \subseteq Cuts /\ \A i \in 1 .. Len(b) - 1 : Cut(b, i) \in CutsOf(b)
<1>1. \A i \in 1 .. Len(b) - 1 : Cut(b, i) \in Cuts
  BY ShapesAreBlocks DEF Cut, Cuts
<1> QED  BY <1>1 DEF CutsOf

LEMMA RecoveredType ==
    ASSUME NEW s, NEW b \in Shapes, NEW read PROVE Recovered(s, b, read) \subseteq Cuts
BY CutsOfBlocks DEF Recovered

(* A queue's head and its tail hold what it held.                          *)
LEMMA HeadAndTail ==
    ASSUME NEW S, NEW q \in Seq(S), q # <<>>
    PROVE  /\ Head(q) \in S /\ Tail(q) \in Seq(S)
           /\ ToSet(q) = {Head(q)} \cup ToSet(Tail(q))
           /\ Len(Tail(q)) = Len(q) - 1
           /\ \A i \in 1 .. Len(Tail(q)) : Tail(q)[i] = q[i + 1]
<1>1. /\ Head(q) = q[1] /\ Head(q) \in S /\ Tail(q) \in Seq(S) /\ Len(q) \in Nat \ {0}
      /\ Len(Tail(q)) = Len(q) - 1
      /\ \A i \in 1 .. Len(Tail(q)) : Tail(q)[i] = q[i + 1]
  OBVIOUS
<1>2. ToSet(q) \subseteq {Head(q)} \cup ToSet(Tail(q))
  <2> SUFFICES ASSUME NEW i \in 1 .. Len(q) PROVE q[i] \in {Head(q)} \cup ToSet(Tail(q))
    BY <1>1 DEF ToSet
  <2>1. CASE i = 1  BY <1>1, <2>1
  <2>2. CASE i # 1
    <3>1. i - 1 \in 1 .. Len(Tail(q)) /\ Tail(q)[i - 1] = q[i]
      BY <1>1, <2>2
    <3>2. DOMAIN Tail(q) = 1 .. Len(Tail(q))
      BY <1>1
    <3> QED  BY <3>1, <3>2 DEF ToSet
  <2> QED  BY <2>1, <2>2
<1>3. {Head(q)} \cup ToSet(Tail(q)) \subseteq ToSet(q)
  <2> SUFFICES ASSUME NEW i \in 1 .. Len(Tail(q)) PROVE Tail(q)[i] \in ToSet(q)
    BY <1>1 DEF ToSet
  <2>1. i + 1 \in 1 .. Len(q) /\ Tail(q)[i] = q[i + 1]
    BY <1>1
  <2> QED  BY <2>1, <1>1 DEF ToSet
<1> QED  BY <1>1, <1>2, <1>3

(* Taking the next block leaves a connection with every block it had but   *)
(* the one it was at, and begins nothing for a client that left.           *)
LEMMA TakeNextTakes ==
    ASSUME BlockType, QueueIsKeyed, NEW s \in Sockets, TakeNext(s), UNCHANGED gone
    PROVE  /\ running' \in [Sockets -> [stage : {"idle", "taken", "reading", "translating"},
                                block : Shapes \cup {<<>>},
                                words : SUBSET Cuts, retried : BOOLEAN]]
           /\ waiting' \in [Sockets -> Seq(Shapes)]
           /\ QueueIsKeyed'
           /\ \A t \in Sockets \ {s} : running'[t] = running[t] /\ waiting'[t] = waiting[t]
           /\ running'[s].stage \in {"idle", "taken"}
           /\ running'[s].stage # "idle" => running'[s].block \in Shapes
           /\ s \in gone => running'[s].stage = "idle"
           /\ s \notin gone => ToSet(waiting[s]) \subseteq Carried(s)'
<1>1. CASE s \in gone \/ waiting[s] = <<>>
  <2>1. /\ running' = [running EXCEPT ![s] = Idle]
        /\ waiting' = [waiting EXCEPT ![s] = <<>>]
    BY <1>1 DEF TakeNext
  <2>2. running'[s] = Idle /\ waiting'[s] = <<>> /\ <<>> \in Seq(Shapes)
    BY <2>1 DEF BlockType
  <2>3. ToSet(<<>>) = {}
    BY DEF ToSet
  <2>4. QueueIsKeyed'
    <3> SUFFICES ASSUME NEW t \in Sockets, NEW i \in 1 .. Len(waiting'[t]),
                        NEW j \in 1 .. Len(waiting'[t]), waiting'[t][i][1] = waiting'[t][j][1]
                 PROVE  i = j
      BY DEF QueueIsKeyed
    <3>1. t # s  BY <2>2
    <3>2. waiting'[t] = waiting[t]  BY <2>1, <3>1 DEF BlockType
    <3> QED  BY <3>2 DEF QueueIsKeyed
  <2>5. s \notin gone => ToSet(waiting[s]) = {}
    BY <1>1, <2>3
  <2>6. Idle \in [stage : {"idle", "taken", "reading", "translating"},
                  block : Shapes \cup {<<>>}, words : SUBSET Cuts, retried : BOOLEAN]
        /\ Idle.stage = "idle"
    BY DEF Idle
  <2> QED  BY <2>1, <2>2, <2>4, <2>5, <2>6 DEF BlockType
<1>2. CASE s \notin gone /\ waiting[s] # <<>>
  <2> DEFINE q == waiting[s]
  <2>1. /\ running' = [running EXCEPT ![s] = Taken(Head(q))]
        /\ waiting' = [waiting EXCEPT ![s] = Tail(q)]
    BY <1>2 DEF TakeNext, BlockType
  <2>2. q \in Seq(Shapes) /\ q # <<>>  BY <1>2 DEF BlockType
  <2>3. /\ Head(q) \in Shapes /\ Tail(q) \in Seq(Shapes)
        /\ ToSet(q) = {Head(q)} \cup ToSet(Tail(q))
        /\ Len(Tail(q)) = Len(q) - 1
        /\ \A i \in 1 .. Len(Tail(q)) : Tail(q)[i] = q[i + 1]
    BY <2>2, HeadAndTail
  <2>4. /\ Taken(Head(q)) \in [stage : {"idle", "taken", "reading", "translating"},
                  block : Shapes \cup {<<>>}, words : SUBSET Cuts, retried : BOOLEAN]
        /\ Taken(Head(q)).stage = "taken" /\ Taken(Head(q)).block = Head(q)
    BY <2>3 DEF Taken, Idle
  <2>5. running'[s] = Taken(Head(q)) /\ waiting'[s] = Tail(q)
    BY <2>1 DEF BlockType
  <2>6. ToSet(q) = Carried(s)'
    BY <2>3, <2>4, <2>5 DEF Carried
  <2>7. QueueIsKeyed'
    <3> SUFFICES ASSUME NEW t \in Sockets, NEW i \in 1 .. Len(waiting'[t]),
                        NEW j \in 1 .. Len(waiting'[t]), waiting'[t][i][1] = waiting'[t][j][1]
                 PROVE  i = j
      BY DEF QueueIsKeyed
    <3>1. CASE t = s
      <4>1. /\ i + 1 \in 1 .. Len(q) /\ j + 1 \in 1 .. Len(q)
            /\ waiting'[t][i] = q[i + 1] /\ waiting'[t][j] = q[j + 1]
        <5>1. i \in 1 .. Len(Tail(q)) /\ j \in 1 .. Len(Tail(q)) /\ waiting'[t] = Tail(q)
          BY <2>5, <3>1
        <5>2. Len(q) \in Nat
          BY <2>2
        <5>3. i + 1 \in 1 .. Len(q) /\ j + 1 \in 1 .. Len(q)
          BY <2>3, <5>1, <5>2
        <5> HIDE DEF q
        <5> QED  BY <2>3, <5>1, <5>3
      <4>2. q[i + 1][1] = q[j + 1][1]
        BY <4>1
      <4>3. \A k, l \in 1 .. Len(q) : q[k][1] = q[l][1] => k = l
        BY DEF QueueIsKeyed
      <4>4. i + 1 = j + 1
        BY <4>1, <4>2, <4>3
      <4> QED  BY <4>4
    <3>2. CASE t # s
      <4>1. waiting'[t] = waiting[t]  BY <2>1, <3>2 DEF BlockType
      <4> QED  BY <4>1 DEF QueueIsKeyed
    <3> QED  BY <3>1, <3>2
  <2> QED  BY <1>2, <2>1, <2>3, <2>4, <2>5, <2>6, <2>7 DEF BlockType
<1> QED  BY <1>1, <1>2

(* An answer settles its block and no other.                               *)
LEMMA AnswerSettles ==
    ASSUME BlockType, NEW s \in Sockets, NEW b, NEW answer, Answer(s, b, answer)
    PROVE  /\ pending' \in [Sockets -> SUBSET Shapes]
           /\ \A t \in Sockets \ {s} : pending'[t] = pending[t]
           /\ pending'[s] \subseteq pending[s]
           /\ s \notin gone => b \notin pending'[s]
<1>1. CASE s \in gone
  BY <1>1 DEF Answer, BlockType
<1>2. CASE s \notin gone
  <2>1. pending' = [pending EXCEPT ![s] = @ \ {b}]
    BY <1>2 DEF Answer
  <2> QED  BY <2>1 DEF BlockType
<1> QED  BY <1>1, <1>2

(* The running block moves on with its queue as it is.                     *)
LEMMA TranslatingKeeps ==
    ASSUME BlockType, NEW s \in Sockets, running[s].block \in Shapes, NEW read,
           Translating(s, read)
    PROVE  /\ running' \in [Sockets -> [stage : {"idle", "taken", "reading", "translating"},
                                block : Shapes \cup {<<>>},
                                words : SUBSET Cuts, retried : BOOLEAN]]
           /\ \A t \in Sockets \ {s} : running'[t] = running[t]
           /\ running'[s].stage = "translating"
           /\ running'[s].block = running[s].block
<1> DEFINE R == [stage : {"idle", "taken", "reading", "translating"},
                 block : Shapes \cup {<<>>}, words : SUBSET Cuts, retried : BOOLEAN]
           w == Recovered(s, running[s].block, read)
           r == [running[s] EXCEPT !.stage = "translating", !.words = w]
<1>1. w \subseteq Cuts  BY RecoveredType
<1>2. r \in R /\ r.stage = "translating" /\ r.block = running[s].block
  BY <1>1 DEF BlockType
<1>3. running' = [running EXCEPT ![s] = r]
  BY DEF Translating, BlockType
<1> HIDE DEF r, w
<1> QED  BY <1>2, <1>3 DEF BlockType

(* After the reads, the block is translated, or dropped with everything    *)
(* behind it for a client that left.                                       *)
LEMMA AfterReadsGoesOn ==
    ASSUME BlockType, QueueIsKeyed, NEW s \in Sockets, running[s].block \in Shapes,
           NEW read, AfterReads(s, read), UNCHANGED gone
    PROVE  /\ running' \in [Sockets -> [stage : {"idle", "taken", "reading", "translating"},
                                block : Shapes \cup {<<>>},
                                words : SUBSET Cuts, retried : BOOLEAN]]
           /\ waiting' \in [Sockets -> Seq(Shapes)]
           /\ QueueIsKeyed'
           /\ \A t \in Sockets \ {s} : running'[t] = running[t] /\ waiting'[t] = waiting[t]
           /\ s \in gone => running'[s].stage = "idle"
           /\ s \notin gone => /\ running'[s].stage = "translating"
                              /\ running'[s].block = running[s].block
                              /\ Carried(s)' = Carried(s)
<1>1. CASE s \in gone
  BY <1>1, TakeNextTakes DEF AfterReads
<1>2. CASE s \notin gone
  <2>1. Translating(s, read) /\ waiting' = waiting
    BY <1>2 DEF AfterReads
  <2>2. QueueIsKeyed'
    BY <2>1 DEF QueueIsKeyed
  <2> QED  BY <1>2, <2>1, <2>2, TranslatingKeeps DEF BlockType, Carried
<1> QED  BY <1>1, <1>2

(* What one connection does leaves the others' part of the invariant alone.*)
LEMMA OneConnection ==
    ASSUME BlockInv, NEW s \in Sockets,
           running' \in [Sockets -> [stage : {"idle", "taken", "reading", "translating"},
                                     block : Shapes \cup {<<>>},
                                     words : SUBSET Cuts, retried : BOOLEAN]],
           reads' = [t \in Sockets |-> reads'[t]],
           waiting' \in [Sockets -> Seq(Shapes)],
           polishing' \in [Sockets -> SUBSET [block : Shapes, words : SUBSET Cuts]],
           pending' \in [Sockets -> SUBSET Shapes],
           gone' = gone,
           QueueIsKeyed',
           \A t \in Sockets \ {s} : /\ running'[t] = running[t]
                                    /\ waiting'[t] = waiting[t]
                                    /\ pending'[t] = pending[t],
           running'[s].stage # "idle" => running'[s].block \in Shapes,
           s \in gone => running'[s].stage # "taken",
           s \notin gone => pending'[s] \subseteq Carried(s)'
    PROVE  BlockInv'
<1>1. BlockType'
  BY DEF BlockInv, BlockType
<1>2. TakenForSomebody'
  <2> SUFFICES ASSUME NEW t \in gone PROVE running'[t].stage # "taken"
    BY DEF TakenForSomebody
  <2>1. t \in Sockets  BY DEF BlockInv, BlockType
  <2> QED  BY <2>1 DEF BlockInv, TakenForSomebody
<1>3. NoAskIsLost'
  <2> SUFFICES ASSUME NEW t \in Sockets \ gone PROVE pending'[t] \subseteq Carried(t)'
    BY DEF NoAskIsLost
  <2>1. CASE t = s  BY <2>1
  <2>2. CASE t # s
    BY <2>2 DEF BlockInv, NoAskIsLost, Carried
  <2> QED  BY <2>1, <2>2
<1> QED  BY <1>1, <1>2, <1>3 DEF BlockInv

-----------------------------------------------------------------------------
LEMMA InitBlockInv == Init => BlockInv
<1> SUFFICES ASSUME Init PROVE BlockInv
  OBVIOUS
<1>1. BlockType
  BY DEF Init, BlockType, Idle
<1> QED  BY <1>1 DEF Init, BlockInv, TakenForSomebody, NoAskIsLost, QueueIsKeyed

(* Asking puts the block in the running place or in the queue, and answers *)
(* whatever it replaces there.                                             *)
LEMMA AskKeeps ==
    ASSUME BlockInv, NEW s \in Sockets, NEW b \in Shapes, Ask(s, b)
    PROVE  BlockInv'
<1>0. /\ reads' = [c \in Sockets |-> reads'[c]]
      /\ polishing' \in [Sockets -> SUBSET [block : Shapes, words : SUBSET Cuts]]
      /\ gone' = gone /\ s \notin gone
  BY DEF Ask, BlockInv, BlockType
<1>1. CASE running[s] = Idle /\ running' = [running EXCEPT ![s] = Taken(b)]
           /\ pending' = [pending EXCEPT ![s] = @ \cup {b}]
           /\ UNCHANGED <<waiting, shown>>
  <2>1. pending[s] \subseteq ToSet(waiting[s])
    <3>1. running[s].block = <<>> /\ pending[s] \subseteq Shapes
      BY <1>1 DEF Idle, BlockInv, BlockType
    <3>2. s \notin gone  BY DEF Ask
    <3> QED  BY <3>1, <3>2, ShapesAreBlocks DEF BlockInv, NoAskIsLost, Carried
  <2>2. /\ Taken(b) \in [stage : {"idle", "taken", "reading", "translating"},
                  block : Shapes \cup {<<>>}, words : SUBSET Cuts, retried : BOOLEAN]
        /\ Taken(b).stage = "taken" /\ Taken(b).block = b
    BY DEF Taken, Idle
  <2>3. running'[s] = Taken(b) /\ waiting' = waiting /\ pending'[s] = pending[s] \cup {b}
    BY <1>1 DEF BlockInv, BlockType
  <2>4. pending'[s] \subseteq Carried(s)'
    BY <2>1, <2>2, <2>3 DEF Carried
  <2>5. QueueIsKeyed'
    BY <2>3 DEF BlockInv, QueueIsKeyed
  <2>6. /\ running' \in [Sockets -> [stage : {"idle", "taken", "reading", "translating"},
                  block : Shapes \cup {<<>>}, words : SUBSET Cuts, retried : BOOLEAN]]
        /\ pending' \in [Sockets -> SUBSET Shapes]
        /\ waiting' \in [Sockets -> Seq(Shapes)]
        /\ \A t \in Sockets \ {s} : /\ running'[t] = running[t]
                                 /\ waiting'[t] = waiting[t]
                                 /\ pending'[t] = pending[t]
    BY <1>1, <2>2 DEF BlockInv, BlockType
  <2> QED  BY <1>0, <2>2, <2>3, <2>4, <2>5, <2>6, OneConnection
<1>2. CASE Enqueue(s, b) /\ UNCHANGED running
  <2>0. /\ running' \in [Sockets -> [stage : {"idle", "taken", "reading", "translating"},
                  block : Shapes \cup {<<>>}, words : SUBSET Cuts, retried : BOOLEAN]]
        /\ running' = running
        /\ running'[s].stage # "idle" => running'[s].block \in Shapes
    BY <1>2 DEF BlockInv, BlockType
  <2>1. CASE Answer(s, b, Refusal) /\ UNCHANGED waiting
    <3>1. pending'[s] \subseteq pending[s] /\ pending' \in [Sockets -> SUBSET Shapes]
          /\ \A t \in Sockets \ {s} : pending'[t] = pending[t]
      BY <2>1, AnswerSettles DEF BlockInv
    <3>2. Carried(s)' = Carried(s)
      BY <1>2, <2>1 DEF Carried
    <3>3. QueueIsKeyed'
      BY <2>1 DEF BlockInv, QueueIsKeyed
    <3> QED
      <4>1. pending'[s] \subseteq Carried(s)'
        BY <1>0, <3>1, <3>2 DEF BlockInv, NoAskIsLost
      <4>2. /\ waiting' \in [Sockets -> Seq(Shapes)]
            /\ \A t \in Sockets \ {s} : waiting'[t] = waiting[t]
        BY <2>1 DEF BlockInv, BlockType
      <4> QED  BY <1>0, <2>0, <3>1, <3>3, <4>1, <4>2, OneConnection
  <2>2. CASE /\ PlaceOf(s, b) = {}
             /\ waiting' = [waiting EXCEPT ![s] = Append(@, b)]
             /\ pending' = [pending EXCEPT ![s] = @ \cup {b}]
    <3> DEFINE q == waiting[s]
    <3>1. q \in Seq(Shapes)  BY DEF BlockInv, BlockType
    <3>2. /\ Append(q, b) \in Seq(Shapes)
          /\ Len(q) \in Nat /\ Len(Append(q, b)) = Len(q) + 1
          /\ \A i \in 1 .. Len(q) : Append(q, b)[i] = q[i]
          /\ Append(q, b)[Len(q) + 1] = b
      BY <3>1
    <3>3. waiting'[s] = Append(q, b) /\ pending'[s] = pending[s] \cup {b}
      BY <2>2 DEF BlockInv, BlockType
    <3>4. ToSet(Append(q, b)) = ToSet(q) \cup {b}
      <4>1. DOMAIN Append(q, b) = 1 .. Len(q) + 1 /\ DOMAIN q = 1 .. Len(q)
        BY <3>1, <3>2
      <4> HIDE DEF q
      <4> QED  BY <3>2, <4>1 DEF ToSet
    <3>5. QueueIsKeyed'
      <4> SUFFICES ASSUME NEW t \in Sockets, NEW i \in 1 .. Len(waiting'[t]),
                          NEW j \in 1 .. Len(waiting'[t]), waiting'[t][i][1] = waiting'[t][j][1]
                   PROVE  i = j
        BY DEF QueueIsKeyed
      <4>1. CASE t # s
        <5>1. waiting'[t] = waiting[t]  BY <2>2, <4>1 DEF BlockInv, BlockType
        <5> QED  BY <5>1 DEF BlockInv, QueueIsKeyed
      <4>2. CASE t = s
        <5>1. \A k \in 1 .. Len(q) : q[k][1] # b[1]
          BY <2>2 DEF PlaceOf
        <5>2. \A k, l \in 1 .. Len(q) : q[k][1] = q[l][1] => k = l
          BY DEF BlockInv, QueueIsKeyed
        <5>3. /\ i \in 1 .. Len(q) + 1 /\ j \in 1 .. Len(q) + 1
              /\ Append(q, b)[i][1] = Append(q, b)[j][1]
          BY <3>2, <3>3, <4>2
        <5> HIDE DEF q
        <5> QED  BY SMTT(30), <3>2, <5>1, <5>2, <5>3
      <4> QED  BY <4>1, <4>2
    <3>6. pending'[s] \subseteq Carried(s)'
      <4>1. s \notin gone  BY DEF Ask
      <4>2. pending[s] \subseteq {running[s].block} \cup ToSet(q)
        BY <4>1 DEF BlockInv, NoAskIsLost, Carried
      <4> HIDE DEF q
      <4> QED  BY <1>2, <3>3, <3>4, <4>2 DEF Carried
    <3>7. /\ waiting' \in [Sockets -> Seq(Shapes)]
          /\ pending' \in [Sockets -> SUBSET Shapes]
          /\ \A t \in Sockets \ {s} : waiting'[t] = waiting[t] /\ pending'[t] = pending[t]
      BY <2>2, <3>2 DEF BlockInv, BlockType
    <3> QED  BY <1>0, <2>0, <3>5, <3>6, <3>7, OneConnection
  <2>3. CASE /\ Joinable(s, b)
             /\ \E i \in PlaceOf(s, b) :
                  LET displaced == waiting[s][i]
                  IN  /\ waiting' = [waiting EXCEPT ![s][i] = b]
                      /\ \/ displaced = b /\ pending' = [pending EXCEPT ![s] = @ \cup {b}]
                         \/ displaced # b
                            /\ pending' = [pending EXCEPT ![s] = (@ \cup {b}) \ {displaced}]
    <3> DEFINE q == waiting[s]
    <3>1. q \in Seq(Shapes)  BY DEF BlockInv, BlockType
    <3>2. PICK i \in PlaceOf(s, b) :
              /\ waiting' = [waiting EXCEPT ![s][i] = b]
              /\ \/ q[i] = b /\ pending' = [pending EXCEPT ![s] = @ \cup {b}]
                 \/ q[i] # b /\ pending' = [pending EXCEPT ![s] = (@ \cup {b}) \ {q[i]}]
      BY <2>3
    <3>3. i \in 1 .. Len(q) /\ q[i][1] = b[1]
      BY <3>2 DEF PlaceOf
    <3> DEFINE r == [q EXCEPT ![i] = b]
    <3>4. /\ waiting' = [waiting EXCEPT ![s] = r] /\ waiting'[s] = r
          /\ r \in Seq(Shapes) /\ Len(r) = Len(q)
          /\ \A k \in 1 .. Len(q) : r[k] = IF k = i THEN b ELSE q[k]
      <4>1. waiting' = [waiting EXCEPT ![s] = r]
        BY <3>2
      <4>2. waiting'[s] = r
        BY <4>1 DEF BlockInv, BlockType
      <4>3. /\ r \in Seq(Shapes) /\ Len(r) = Len(q)
            /\ \A k \in 1 .. Len(q) : r[k] = IF k = i THEN b ELSE q[k]
        <5> HIDE DEF q
        <5> QED  BY <3>1, <3>3
      <4> QED  BY <4>1, <4>2, <4>3
    <3>5. ToSet(q) \subseteq ToSet(r) \cup {q[i]} /\ b \in ToSet(r)
      <4>1. DOMAIN r = 1 .. Len(q) /\ DOMAIN q = 1 .. Len(q)
        BY <3>1
      <4> HIDE DEF q, r
      <4> QED  BY <3>3, <3>4, <4>1 DEF ToSet
    <3>6. QueueIsKeyed'
      <4> SUFFICES ASSUME NEW t \in Sockets, NEW k \in 1 .. Len(waiting'[t]),
                          NEW l \in 1 .. Len(waiting'[t]), waiting'[t][k][1] = waiting'[t][l][1]
                   PROVE  k = l
        BY DEF QueueIsKeyed
      <4>1. CASE t # s
        <5>1. waiting'[t] = waiting[t]  BY <3>4, <4>1 DEF BlockInv, BlockType
        <5> QED  BY <5>1 DEF BlockInv, QueueIsKeyed
      <4>2. CASE t = s
        <5>1. \A m, n \in 1 .. Len(q) : q[m][1] = q[n][1] => m = n
          BY DEF BlockInv, QueueIsKeyed
        <5>2. k \in 1 .. Len(q) /\ l \in 1 .. Len(q) /\ r[k][1] = r[l][1]
          BY <3>4, <4>2
        <5> HIDE DEF q, r
        <5> QED  BY <3>3, <3>4, <5>1, <5>2
      <4> QED  BY <4>1, <4>2
    <3>7. /\ pending' \in [Sockets -> SUBSET Shapes]
          /\ \A t \in Sockets \ {s} : pending'[t] = pending[t]
          /\ pending'[s] \subseteq (pending[s] \ {q[i]}) \cup {b}
      <4>1. pending \in [Sockets -> SUBSET Shapes]
        BY DEF BlockInv, BlockType
      <4>2. CASE q[i] = b /\ pending' = [pending EXCEPT ![s] = @ \cup {b}]
        BY <4>1, <4>2
      <4>3. CASE q[i] # b /\ pending' = [pending EXCEPT ![s] = (@ \cup {b}) \ {q[i]}]
        <5> HIDE DEF q
        <5> QED  BY <4>1, <4>3
      <4> QED  BY <3>2, <4>2, <4>3
    <3>8. pending'[s] \subseteq Carried(s)'
      <4>1. s \notin gone  BY DEF Ask
      <4>2. pending[s] \subseteq {running[s].block} \cup ToSet(q)
        BY <4>1 DEF BlockInv, NoAskIsLost, Carried
      <4>3. waiting'[s] = r  BY <3>4
      <4> HIDE DEF q, r
      <4> QED  BY <1>2, <3>5, <3>7, <4>2, <4>3 DEF Carried
    <3>9. /\ waiting' \in [Sockets -> Seq(Shapes)]
          /\ \A t \in Sockets \ {s} : waiting'[t] = waiting[t]
      BY <3>4 DEF BlockInv, BlockType
    <3> QED  BY <1>0, <2>0, <3>6, <3>7, <3>8, <3>9, OneConnection
  <2> QED  BY <1>2, <2>1, <2>2, <2>3 DEF Enqueue
<1> QED  BY <1>1, <1>2 DEF Ask

(* A refused block makes way for the next, answered.                       *)
LEMMA StartKeeps ==
    ASSUME BlockInv, NEW s \in Sockets, StartBlock(s)
    PROVE  BlockInv'
<1> DEFINE b == running[s].block
<1>0. /\ polishing' \in [Sockets -> SUBSET [block : Shapes, words : SUBSET Cuts]]
      /\ gone' = gone /\ running[s].stage = "taken" /\ s \notin gone /\ b \in Shapes
      /\ reads' = [c \in Sockets |-> reads'[c]]
  BY DEF StartBlock, BlockInv, BlockType, TakenForSomebody
<1>1. CASE Answer(s, b, Refusal) /\ TakeNext(s)
  <2>1. /\ pending' \in [Sockets -> SUBSET Shapes]
        /\ \A t \in Sockets \ {s} : pending'[t] = pending[t]
        /\ pending'[s] \subseteq pending[s] \ {b}
    BY <1>0, <1>1, AnswerSettles DEF BlockInv
  <2>2. pending'[s] \subseteq Carried(s)'
    <3>1. pending[s] \subseteq {b} \cup ToSet(waiting[s])
      BY <1>0 DEF BlockInv, NoAskIsLost, Carried
    <3>2. ToSet(waiting[s]) \subseteq Carried(s)'
      BY <1>0, <1>1, TakeNextTakes DEF BlockInv
    <3> QED  BY <2>1, <3>1, <3>2
  <2>3. /\ running' \in [Sockets -> [stage : {"idle", "taken", "reading", "translating"},
                                block : Shapes \cup {<<>>},
                                words : SUBSET Cuts, retried : BOOLEAN]]
        /\ waiting' \in [Sockets -> Seq(Shapes)]
        /\ QueueIsKeyed'
        /\ \A t \in Sockets \ {s} : running'[t] = running[t] /\ waiting'[t] = waiting[t]
        /\ running'[s].stage # "idle" => running'[s].block \in Shapes
    BY <1>0, <1>1, TakeNextTakes DEF BlockInv
  <2> QED  BY <1>0, <2>1, <2>2, <2>3, OneConnection
<1>2. CASE /\ \/ Translating(s, seamRead[s])
              \/ running' = [running EXCEPT ![s].stage = "reading"]
           /\ UNCHANGED <<waiting, pending>>
  <2>1. /\ running' \in [Sockets -> [stage : {"idle", "taken", "reading", "translating"},
                                block : Shapes \cup {<<>>},
                                words : SUBSET Cuts, retried : BOOLEAN]]
        /\ \A t \in Sockets \ {s} : running'[t] = running[t]
        /\ running'[s].stage \in {"reading", "translating"}
        /\ running'[s].block = b
    <3>1. CASE Translating(s, seamRead[s])
      BY <1>0, <3>1, TranslatingKeeps DEF BlockInv
    <3>2. CASE running' = [running EXCEPT ![s].stage = "reading"]
      BY <3>2 DEF BlockInv, BlockType
    <3> QED  BY <1>2, <3>1, <3>2
  <2>2. pending'[s] \subseteq Carried(s)' /\ QueueIsKeyed'
    BY <1>0, <1>2, <2>1 DEF BlockInv, NoAskIsLost, Carried, QueueIsKeyed
  <2>3. waiting' \in [Sockets -> Seq(Shapes)] /\ pending' \in [Sockets -> SUBSET Shapes]
    BY <1>2 DEF BlockInv, BlockType
  <2> QED  BY <1>0, <1>2, <2>1, <2>2, <2>3, OneConnection
<1> QED  BY <1>0, <1>1, <1>2 DEF StartBlock

(* The reads end in a translation, or in nothing for a client that left.   *)
LEMMA ReadsKeep ==
    ASSUME BlockInv, NEW s \in Sockets, ReadAnswers(s) \/ ReadBudgetEnds(s)
    PROVE  BlockInv'
<1>0. /\ polishing' \in [Sockets -> SUBSET [block : Shapes, words : SUBSET Cuts]]
      /\ gone' = gone /\ pending' = pending /\ running[s].block \in Shapes
      /\ pending' \in [Sockets -> SUBSET Shapes]
      /\ reads' = [c \in Sockets |-> reads'[c]]
  BY DEF ReadAnswers, ReadBudgetEnds, BlockInv, BlockType
<1>1. (\E read : AfterReads(s, read)) \/ UNCHANGED <<running, waiting>>
  BY DEF ReadAnswers, ReadBudgetEnds
<1>2. CASE \E read : AfterReads(s, read)
  <2>1. PICK read : AfterReads(s, read)
    BY <1>2
  <2>2. /\ running' \in [Sockets -> [stage : {"idle", "taken", "reading", "translating"},
                                block : Shapes \cup {<<>>},
                                words : SUBSET Cuts, retried : BOOLEAN]]
        /\ waiting' \in [Sockets -> Seq(Shapes)]
        /\ QueueIsKeyed'
        /\ \A t \in Sockets \ {s} : running'[t] = running[t] /\ waiting'[t] = waiting[t]
        /\ s \in gone => running'[s].stage = "idle"
        /\ s \notin gone => /\ running'[s].stage = "translating"
                           /\ running'[s].block = running[s].block
                           /\ Carried(s)' = Carried(s)
    BY <1>0, <2>1, AfterReadsGoesOn DEF BlockInv
  <2>3. s \notin gone => pending'[s] \subseteq Carried(s)'
    BY <1>0, <2>2 DEF BlockInv, NoAskIsLost
  <2> QED  BY <1>0, <2>2, <2>3, OneConnection
<1>3. CASE UNCHANGED <<running, waiting>>
  BY <1>0, <1>3
     DEF BlockInv, BlockType, TakenForSomebody, NoAskIsLost, QueueIsKeyed, Carried
<1> QED  BY <1>1, <1>2, <1>3

(* An answer, of a translation or of a later polish, settles its block; the*)
(* translation's makes way for the next.                                   *)
LEMMA TranslationKeeps ==
    ASSUME BlockInv, NEW s \in Sockets, TranslateAnswers(s)
    PROVE  BlockInv'
<1> DEFINE b == running[s].block
<1>0. /\ gone' = gone /\ running[s].stage = "translating" /\ b \in Shapes
      /\ reads' = [c \in Sockets |-> reads'[c]]
      /\ running[s].words \subseteq Cuts
  BY DEF TranslateAnswers, BlockInv, BlockType
<1>1. polishing' \in [Sockets -> SUBSET [block : Shapes, words : SUBSET Cuts]]
  <2> DEFINE P == [block : Shapes, words : SUBSET Cuts]
             p == [block |-> b, words |-> running[s].words]
  <2>1. \/ UNCHANGED polishing
        \/ polishing' = [polishing EXCEPT ![s] = @ \cup {p}]
    BY DEF TranslateAnswers
  <2>2. p \in P /\ polishing \in [Sockets -> SUBSET P]
    BY <1>0 DEF BlockInv, BlockType
  <2> HIDE DEF P, p
  <2>3. polishing' \in [Sockets -> SUBSET P]
    BY <2>1, <2>2
  <2> QED  BY <2>3 DEF P
<1>2. PICK answer : Answer(s, b, answer) /\ TakeNext(s)
  BY DEF TranslateAnswers
<1>3. /\ pending' \in [Sockets -> SUBSET Shapes]
      /\ \A t \in Sockets \ {s} : pending'[t] = pending[t]
      /\ pending'[s] \subseteq pending[s]
      /\ s \notin gone => b \notin pending'[s]
  BY <1>2, AnswerSettles DEF BlockInv
<1>4. s \notin gone => pending'[s] \subseteq Carried(s)'
  <2> SUFFICES ASSUME s \notin gone PROVE pending'[s] \subseteq Carried(s)'
    OBVIOUS
  <2>1. pending[s] \subseteq {b} \cup ToSet(waiting[s])
    BY DEF BlockInv, NoAskIsLost, Carried
  <2>2. ToSet(waiting[s]) \subseteq Carried(s)'
    BY <1>0, <1>2, TakeNextTakes DEF BlockInv
  <2> QED  BY <1>3, <2>1, <2>2
<1>5. /\ running' \in [Sockets -> [stage : {"idle", "taken", "reading", "translating"},
                                block : Shapes \cup {<<>>},
                                words : SUBSET Cuts, retried : BOOLEAN]]
      /\ waiting' \in [Sockets -> Seq(Shapes)]
      /\ QueueIsKeyed'
      /\ \A t \in Sockets \ {s} : running'[t] = running[t] /\ waiting'[t] = waiting[t]
      /\ running'[s].stage # "idle" => running'[s].block \in Shapes
      /\ s \in gone => running'[s].stage = "idle"
  BY <1>0, <1>2, TakeNextTakes DEF BlockInv
<1> QED  BY <1>0, <1>1, <1>3, <1>4, <1>5, OneConnection

LEMMA PolishKeeps ==
    ASSUME BlockInv, NEW s \in Sockets, PolishAnswers(s)
    PROVE  BlockInv'
<1>1. PICK p \in polishing[s] :
          /\ polishing' = [polishing EXCEPT ![s] = @ \ {p}]
          /\ Answer(s, p.block, Told("polished", p.words)) \/ UNCHANGED <<pending, shown>>
  BY DEF PolishAnswers
<1>2. polishing' \in [Sockets -> SUBSET [block : Shapes, words : SUBSET Cuts]]
  BY <1>1 DEF BlockInv, BlockType
<1>3. /\ pending' \in [Sockets -> SUBSET Shapes]
      /\ \A t \in Sockets : pending'[t] \subseteq pending[t]
  <2>1. CASE Answer(s, p.block, Told("polished", p.words))
    BY <2>1, AnswerSettles DEF BlockInv
  <2>2. CASE UNCHANGED <<pending, shown>>
    BY <2>2 DEF BlockInv, BlockType
  <2> QED  BY <1>1, <2>1, <2>2
<1>4. UNCHANGED <<running, reads, waiting, gone>>
  BY DEF PolishAnswers
<1>5. NoAskIsLost'
  BY <1>3, <1>4 DEF BlockInv, NoAskIsLost, Carried
<1> QED
  BY <1>2, <1>3, <1>4, <1>5 DEF BlockInv, BlockType, TakenForSomebody, QueueIsKeyed

LEMMA StepKeepsBlockInv == BlockInv /\ [Next]_vars => BlockInv'
<1> SUFFICES ASSUME BlockInv, [Next]_vars PROVE BlockInv'
  OBVIOUS
<1>1. ASSUME NEW s \in Sockets, NEW b \in Shapes, Ask(s, b) PROVE BlockInv'
  BY <1>1, AskKeeps
<1>2. ASSUME NEW s \in Sockets, StartBlock(s) PROVE BlockInv'
  BY <1>2, StartKeeps
<1>3. ASSUME NEW s \in Sockets, ReadAnswers(s) \/ ReadBudgetEnds(s) PROVE BlockInv'
  BY <1>3, ReadsKeep
<1>4. ASSUME NEW s \in Sockets, TranslateAnswers(s) PROVE BlockInv'
  BY <1>4, TranslationKeeps
<1>5. ASSUME NEW s \in Sockets, PolishAnswers(s) PROVE BlockInv'
  BY <1>5, PolishKeeps
<1>6. ASSUME NEW s \in Sockets, ScriptRetry(s) PROVE BlockInv'
  <2>1. /\ running' = [running EXCEPT ![s].retried = TRUE]
        /\ running[s].stage = "translating"
        /\ UNCHANGED <<reads, waiting, polishing, pending, gone>>
    BY <1>6 DEF ScriptRetry
  <2>2. /\ running' \in [Sockets -> [stage : {"idle", "taken", "reading", "translating"},
                  block : Shapes \cup {<<>>}, words : SUBSET Cuts, retried : BOOLEAN]]
        /\ \A t \in Sockets : /\ running'[t].stage = running[t].stage
                              /\ running'[t].block = running[t].block
    BY ZenonT(40), <2>1 DEF BlockInv, BlockType
  <2> QED
    BY <2>1, <2>2 DEF BlockInv, BlockType, TakenForSomebody, NoAskIsLost, QueueIsKeyed, Carried
<1>7. ASSUME Drained, NEW s \in Sockets, Leave(s) PROVE BlockInv'
  BY <1>7 DEF Leave, Drained, BlockInv, BlockType, TakenForSomebody, NoAskIsLost,
              QueueIsKeyed, Carried
<1>8. ASSUME NEW s \in Sockets, FinishSegment(s) PROVE BlockInv'
  BY <1>8 DEF FinishSegment, BlockInv, BlockType, TakenForSomebody, NoAskIsLost,
              QueueIsKeyed, Carried
<1>9. ASSUME NEW s \in Sockets, NEW c \in Cuts, LateReadAnswers(s, c) PROVE BlockInv'
  BY <1>9 DEF LateReadAnswers, BlockInv, BlockType, TakenForSomebody, NoAskIsLost,
              QueueIsKeyed, Carried
<1>10. ASSUME NEW u \in Users, MinutePasses(u) PROVE BlockInv'
  BY <1>10 DEF MinutePasses, BlockInv, BlockType, TakenForSomebody, NoAskIsLost,
               QueueIsKeyed, Carried
<1>11. CASE UNCHANGED vars
  BY <1>11 DEF vars, BlockInv, BlockType, TakenForSomebody, NoAskIsLost,
               QueueIsKeyed, Carried
<1> QED
  BY <1>1, <1>2, <1>3, <1>4, <1>5, <1>6, <1>7, <1>8, <1>9, <1>10, <1>11
     DEF Next, Event

(* The places a request can be in are as the arguments below need them.    *)
THEOREM BlocksCorrect == Spec => []BlockInv
BY InitBlockInv, StepKeepsBlockInv, PTL DEF Spec

(* Whatever the client waits for is being translated or queued: no refusal,*)
(* no replacement by a grown block and no failed call drops a request.     *)
THEOREM NoAskIsEverLost == Spec => []NoAskIsLost
<1>1. BlockInv => NoAskIsLost
  BY DEF BlockInv
<1> QED  BY <1>1, BlocksCorrect, PTL

(* At most one block waits under each first segment, so a request that grew*)
(* has a single place to take.                                             *)
THEOREM QueueStaysKeyed == Spec => []QueueIsKeyed
<1>1. BlockInv => QueueIsKeyed
  BY DEF BlockInv
<1> QED  BY <1>1, BlocksCorrect, PTL

(* A client that left is never translated for, nor a cut read for it: the  *)
(* translation of a block starts only in a step that saw its client there. *)
THEOREM NothingIsDoneForNobody == Spec => NothingForNobody
<1> DEFINE Idler(s) == /\ running'[s].stage = "translating" => running[s].stage = "translating"
                       /\ reads'[s] # {} => reads'[s] = reads[s]
<1>1. BlockInv /\ [Next]_vars => [\A s \in gone : Idler(s)]_vars
  <2> SUFFICES ASSUME BlockInv, Next, NEW g \in gone PROVE Idler(g)
    OBVIOUS
  <2>0. g \in Sockets /\ running[g].stage # "taken"
    BY DEF BlockInv, BlockType, TakenForSomebody
  <2>1. ASSUME NEW s \in Sockets, NEW b \in Shapes, Ask(s, b) PROVE Idler(g)
    <3>1. s # g /\ reads' = reads
      BY <2>1 DEF Ask
    <3>2. running' = running \/ running' = [running EXCEPT ![s] = Taken(b)]
      BY <2>1 DEF Ask
    <3> QED  BY <2>0, <3>1, <3>2 DEF BlockInv, BlockType
  <2>2. ASSUME NEW s \in Sockets, StartBlock(s) PROVE Idler(g)
    <3>1. s # g  BY <2>0, <2>2 DEF StartBlock
    <3>2. reads'[g] = reads[g]
      BY <2>0, <2>2, <3>1 DEF StartBlock, BlockInv, BlockType
    <3>3. running'[g] = running[g]
      BY <2>0, <2>2, <3>1, TakeNextTakes
         DEF StartBlock, BlockInv, BlockType, Translating
    <3> QED  BY <3>2, <3>3
  <2>3. ASSUME NEW s \in Sockets, ReadAnswers(s) \/ ReadBudgetEnds(s) PROVE Idler(g)
    <3>1. running[s].block \in Shapes /\ gone' = gone
      BY <2>3 DEF ReadAnswers, ReadBudgetEnds, BlockInv, BlockType
    <3>2. /\ s # g => running'[g] = running[g]
          /\ s = g => running'[g].stage = "idle" \/ running' = running
      <4>1. (\E read : AfterReads(s, read)) \/ UNCHANGED <<running, waiting>>
        BY <2>3 DEF ReadAnswers, ReadBudgetEnds
      <4> QED  BY <2>0, <3>1, <4>1, AfterReadsGoesOn DEF BlockInv
    <3>3. /\ s # g => reads'[g] = reads[g]
          /\ s = g => reads'[g] = {}
      BY <2>0, <2>3 DEF ReadAnswers, ReadBudgetEnds, BlockInv, BlockType
    <3> QED  BY <3>2, <3>3
  <2>4. ASSUME NEW s \in Sockets, TranslateAnswers(s) PROVE Idler(g)
    <3>1. TakeNext(s) /\ reads' = reads /\ gone' = gone
      BY <2>4 DEF TranslateAnswers
    <3> QED  BY <2>0, <3>1, TakeNextTakes DEF BlockInv
  <2>5. ASSUME NEW s \in Sockets, ScriptRetry(s) PROVE Idler(g)
    BY <2>0, <2>5 DEF ScriptRetry, BlockInv, BlockType
  <2>6. ASSUME UNCHANGED <<running, reads>> PROVE Idler(g)
    BY <2>6
  <2> QED
    BY <2>1, <2>2, <2>3, <2>4, <2>5, <2>6
       DEF Next, Event, FinishSegment, Leave, LateReadAnswers, PolishAnswers, MinutePasses
<1> QED  BY <1>1, BlocksCorrect, PTL DEF Spec, NothingForNobody

-----------------------------------------------------------------------------
(* The cuts that lie within some block.                                    *)
ShapeCuts == UNION {CutsOf(b) : b \in Shapes}

Answers == [text : {"none", "empty", "draft", "polished"}, words : SUBSET Cuts]

(* What is read, and what was, are cuts of blocks.                         *)
DataInv ==
    /\ finished \in [Sockets -> 0 .. MaxSegments]
    /\ seamRead \in [Sockets -> SUBSET ShapeCuts]
    /\ reads \in [Sockets -> SUBSET Nat]
    /\ late \in [Sockets -> [Cuts -> Nat]]
    /\ spent \in [Users -> Nat]
    /\ asks \in [Sockets -> [Shapes -> Nat]]
    /\ shown \in [Sockets -> [Shapes -> Answers]]
    /\ \A s \in Sockets :
          /\ running[s].stage = "reading" => reads[s] \subseteq 1 .. Len(running[s].block) - 1
          /\ \A c \in Cuts : late[s][c] > 0 => c \in ShapeCuts

LEMMA ShapeCutsAreCuts == ShapeCuts \subseteq Cuts
BY CutsOfBlocks DEF ShapeCuts

(* The reading in flight is that of a cut of the running block.            *)
LEMMA InFlightIsACut ==
    ASSUME BlockInv, DataInv, NEW s \in Sockets, running[s].stage = "reading",
           NEW i \in InFlight(s)
    PROVE  Cut(running[s].block, i) \in ShapeCuts
<1>1. running[s].block \in Shapes
  BY DEF BlockInv, BlockType
<1>2. i \in 1 .. Len(running[s].block) - 1
  BY DEF InFlight, DataInv
<1> QED  BY <1>1, <1>2, CutsOfBlocks DEF ShapeCuts

LEMMA ReadsType ==
    ASSUME DataInv, NEW s \in Sockets, NEW c \in ShapeCuts, Reads(s, c)
    PROVE  /\ seamRead' \in [Sockets -> SUBSET ShapeCuts]
           /\ \A t \in Sockets \ {s} : seamRead'[t] = seamRead[t]
           /\ seamRead'[s] \in {seamRead[s], RememberSeamRead(s, c)}
<1>1. RememberSeamRead(s, c) \subseteq ShapeCuts
  BY DEF RememberSeamRead, DataInv
<1> QED  BY <1>1 DEF Reads, DataInv

(* An answer is all that changes of what a client was told.                *)
LEMMA AnswerTells ==
    ASSUME DataInv, NEW s \in Sockets, NEW b \in Shapes,
           NEW answer \in Answers,
           Answer(s, b, answer)
    PROVE  /\ shown' \in [Sockets -> [Shapes -> Answers]]
           /\ \A t \in Sockets \ {s} : shown'[t] = shown[t]
           /\ \A a \in Shapes \ {b} : shown'[s][a] = shown[s][a]
           /\ shown'[s][b] \in {shown[s][b], answer}
<1>1. CASE shown' = [shown EXCEPT ![s][b] = answer]
  <2> DEFINE told == [shown[s] EXCEPT ![b] = answer]
  <2>1. told \in [Shapes -> Answers] /\ told[b] = answer /\ \A a \in Shapes \ {b} : told[a] = shown[s][a]
    <3>1. shown[s] \in [Shapes -> Answers]
      BY DEF DataInv
    <3> QED  BY <3>1
  <2>2. shown' = [shown EXCEPT ![s] = told]
    BY <1>1
  <2> HIDE DEF told
  <2> QED  BY <2>1, <2>2 DEF DataInv
<1>2. CASE shown' = shown
  BY <1>2 DEF DataInv
<1> QED  BY <1>1, <1>2 DEF Answer

LEMMA SpendType ==
    ASSUME DataInv, NEW s \in Sockets, Spend(s) PROVE spent' \in [Users -> Nat]
<1> DEFINE u == UserOf[s]
<1>1. u \in Users
  BY UserOfType
<1>2. spent' = [spent EXCEPT ![u] = @ + 1]
  BY DEF Spend
<1> HIDE DEF u
<1> QED  BY <1>1, <1>2 DEF DataInv

LEMMA RefusalType ==
    Refusal \in Answers /\ Refusal.text = "empty" /\ Refusal.words = {}
BY DEF Refusal, Answers

LEMMA ToldType ==
    ASSUME NEW text \in {"draft", "polished"}, NEW words \in SUBSET Cuts
    PROVE  /\ Told(text, words) \in Answers
           /\ Told(text, words).text = text /\ Told(text, words).words = words
BY DEF Told, Answers

LEMMA InitDataInv == Init => DataInv
<1> SUFFICES ASSUME Init PROVE DataInv
  OBVIOUS
<1>1. Unanswered \in Answers
  BY DEF Unanswered, Answers
<1>2. \A s \in Sockets : running[s].stage = "idle" /\ \A c \in Cuts : late[s][c] = 0
  BY DEF Init, Idle
<1>3. finished \in [Sockets -> 0 .. MaxSegments]
  BY SegmentBounds DEF Init
<1> QED  BY <1>1, <1>2, <1>3 DEF Init, DataInv

(* Neither the next block nor a translation is at its reads.               *)
LEMMA NothingIsRead ==
    ASSUME BlockInv, NEW s \in Sockets, running[s].block \in Shapes, UNCHANGED gone,
           TakeNext(s) \/ \E read : AfterReads(s, read) \/ Translating(s, read)
    PROVE  /\ running'[s].stage # "reading"
           /\ \A t \in Sockets \ {s} : running'[t] = running[t]
<1>1. CASE TakeNext(s)
  BY <1>1, TakeNextTakes DEF BlockInv
<1>2. CASE \E read : AfterReads(s, read)
  BY <1>2, AfterReadsGoesOn DEF BlockInv
<1>3. CASE \E read : Translating(s, read)
  BY <1>3, TranslatingKeeps DEF BlockInv
<1> QED  BY <1>1, <1>2, <1>3

(* Only the places of a block at its reads depend on the running block.    *)
LEMMA PlacesKept ==
    ASSUME DataInv, NEW s \in Sockets,
           \A t \in Sockets \ {s} : running'[t] = running[t] /\ reads'[t] = reads[t],
           running'[s].stage = "reading"
              => reads'[s] \subseteq 1 .. Len(running'[s].block) - 1
    PROVE  \A t \in Sockets : running'[t].stage = "reading"
              => reads'[t] \subseteq 1 .. Len(running'[t].block) - 1
<1> SUFFICES ASSUME NEW t \in Sockets, running'[t].stage = "reading"
             PROVE  reads'[t] \subseteq 1 .. Len(running'[t].block) - 1
  OBVIOUS
<1>1. CASE t = s  BY <1>1
<1>2. CASE t # s  BY <1>2 DEF DataInv
<1> QED  BY <1>1, <1>2

LEMMA AskKeepsData ==
    ASSUME BlockInv, DataInv, NEW s \in Sockets, NEW b \in Shapes, Ask(s, b)
    PROVE  DataInv'
<1>1. /\ UNCHANGED <<finished, seamRead, reads, late, spent>>
      /\ asks' = [asks EXCEPT ![s][b] = @ + 1]
  BY DEF Ask
<1>2. asks' \in [Sockets -> [Shapes -> Nat]]
  BY <1>1 DEF DataInv
<1>3. \A t \in Sockets : running'[t].stage = "reading" => running'[t] = running[t]
  <2>1. CASE running' = [running EXCEPT ![s] = Taken(b)]
    BY <2>1 DEF BlockInv, BlockType, Taken, Idle
  <2> QED  BY <2>1 DEF Ask
<1>4. shown' \in [Sockets -> [Shapes -> Answers]]
  <2>1. CASE Answer(s, b, Refusal)
    BY <2>1, AnswerTells, RefusalType
  <2>2. CASE \E i \in PlaceOf(s, b) : shown' = [shown EXCEPT ![s][waiting[s][i]] = Refusal]
    <3>1. PICK i \in PlaceOf(s, b) : shown' = [shown EXCEPT ![s][waiting[s][i]] = Refusal]
      BY <2>2
    <3> DEFINE d == waiting[s][i]
               told == [shown[s] EXCEPT ![d] = Refusal]
    <3>2. shown[s] \in [Shapes -> Answers]
      BY DEF DataInv
    <3>3. shown' = [shown EXCEPT ![s] = told]
      BY <3>1
    <3>4. told \in [Shapes -> Answers]
      BY <3>2, RefusalType
    <3> HIDE DEF told
    <3> QED  BY <3>3, <3>4 DEF DataInv
  <2>3. CASE UNCHANGED shown
    BY <2>3 DEF DataInv
  <2> QED  BY <2>1, <2>2, <2>3 DEF Ask, Enqueue
<1> QED  BY <1>1, <1>2, <1>3, <1>4 DEF DataInv

LEMMA StartKeepsData ==
    ASSUME BlockInv, DataInv, NEW s \in Sockets, StartBlock(s)
    PROVE  DataInv'
<1> DEFINE b == running[s].block
<1>1. /\ UNCHANGED <<finished, seamRead, late, asks, gone>>
      /\ running[s].stage = "taken" /\ b \in Shapes
  BY DEF StartBlock, BlockInv, BlockType
<1>2. CASE Answer(s, b, Refusal) /\ TakeNext(s) /\ UNCHANGED <<reads, spent>>
  <2>1. shown' \in [Sockets -> [Shapes -> Answers]]
    BY <1>1, <1>2, AnswerTells, RefusalType
  <2>2. /\ running'[s].stage # "reading"
        /\ \A t \in Sockets \ {s} : running'[t] = running[t]
    BY <1>1, <1>2, NothingIsRead
  <2> QED  BY <1>1, <1>2, <2>1, <2>2 DEF DataInv
<1>3. CASE /\ Spend(s)
           /\ reads' = [reads EXCEPT ![s] = UnreadSeams(s, b)]
           /\ \/ Translating(s, seamRead[s])
              \/ running' = [running EXCEPT ![s].stage = "reading"]
           /\ UNCHANGED shown
  <2>1. UnreadSeams(s, b) \subseteq 1 .. Len(b) - 1 /\ Len(b) \in Nat
    BY <1>1, ShapesAreBlocks DEF UnreadSeams
  <2>2. /\ reads' \in [Sockets -> SUBSET Nat] /\ reads'[s] = UnreadSeams(s, b)
        /\ \A t \in Sockets \ {s} : reads'[t] = reads[t]
    BY <1>3, <2>1 DEF DataInv
  <2>3. spent' \in [Users -> Nat]
    BY <1>3, SpendType
  <2>4. /\ \A t \in Sockets \ {s} : running'[t] = running[t]
        /\ running'[s].stage = "reading" => running'[s].block = b
    <3>1. CASE Translating(s, seamRead[s])
      BY <1>1, <3>1, NothingIsRead
    <3>2. CASE running' = [running EXCEPT ![s].stage = "reading"]
      BY <3>2 DEF BlockInv, BlockType
    <3> QED  BY <1>3, <3>1, <3>2
  <2>5. \A t \in Sockets : running'[t].stage = "reading"
              => reads'[t] \subseteq 1 .. Len(running'[t].block) - 1
    BY <2>1, <2>2, <2>4, PlacesKept
  <2> QED  BY <1>1, <1>3, <2>2, <2>3, <2>5 DEF DataInv
<1> QED  BY <1>2, <1>3 DEF StartBlock

LEMMA ReadsKeepData ==
    ASSUME BlockInv, DataInv, NEW s \in Sockets, ReadAnswers(s) \/ ReadBudgetEnds(s)
    PROVE  DataInv'
<1> DEFINE b == running[s].block
<1>1. /\ UNCHANGED <<finished, spent, asks, shown, gone>>
      /\ running[s].stage = "reading" /\ b \in Shapes
  BY DEF ReadAnswers, ReadBudgetEnds, BlockInv, BlockType
<1>2. CASE ReadAnswers(s)
  <2>1. PICK i \in InFlight(s) :
            /\ Reads(s, Cut(b, i))
            /\ reads' = [reads EXCEPT ![s] = IF s \in gone THEN {} ELSE @ \ {i}]
    BY <1>2 DEF ReadAnswers
  <2>2. seamRead' \in [Sockets -> SUBSET ShapeCuts]
    BY <1>1, <2>1, InFlightIsACut, ReadsType
  <2>3. /\ reads' \in [Sockets -> SUBSET Nat] /\ reads'[s] \subseteq reads[s]
        /\ \A t \in Sockets \ {s} : reads'[t] = reads[t]
    BY <2>1 DEF DataInv
  <2>4. /\ \A t \in Sockets \ {s} : running'[t] = running[t]
        /\ running'[s].stage = "reading" => running' = running
    <3>1. (\E read : AfterReads(s, read)) \/ UNCHANGED running
      BY <1>2 DEF ReadAnswers
    <3> QED  BY <1>1, <3>1, NothingIsRead
  <2>5. \A t \in Sockets : running'[t].stage = "reading"
              => reads'[t] \subseteq 1 .. Len(running'[t].block) - 1
    <3>1. reads[s] \subseteq 1 .. Len(b) - 1
      BY <1>1 DEF DataInv
    <3> QED  BY <2>3, <2>4, <3>1, PlacesKept
  <2>6. late' = late
    BY <1>2 DEF ReadAnswers
  <2> QED  BY <1>1, <2>2, <2>3, <2>5, <2>6 DEF DataInv
<1>3. CASE ReadBudgetEnds(s)
  <2>1. PICK i \in InFlight(s) : late' = [late EXCEPT ![s][Cut(b, i)] = @ + 1]
    BY <1>3 DEF ReadBudgetEnds
  <2> DEFINE d == Cut(b, i)
  <2>2. d \in ShapeCuts /\ d \in Cuts
    BY <1>1, InFlightIsACut, ShapeCutsAreCuts
  <2> HIDE DEF d
  <2>3. late' = [late EXCEPT ![s][d] = @ + 1]
    BY <2>1 DEF d
  <2>4. /\ late' \in [Sockets -> [Cuts -> Nat]]
        /\ \A t \in Sockets : \A c \in Cuts : late'[t][c] > 0 => c \in ShapeCuts
    <3> DEFINE more == [late[s] EXCEPT ![d] = @ + 1]
    <3>0. late[s] \in [Cuts -> Nat]
      BY DEF DataInv
    <3>1. late' \in [Sockets -> [Cuts -> Nat]]
      <4>1. more \in [Cuts -> Nat] /\ late' = [late EXCEPT ![s] = more]
        BY <2>2, <2>3, <3>0
      <4> HIDE DEF more
      <4> QED  BY <4>1 DEF DataInv
    <3>2. \A t \in Sockets : \A c \in Cuts : c = d \/ late'[t][c] = late[t][c]
      BY <2>3 DEF DataInv
    <3> QED  BY <2>2, <3>1, <3>2 DEF DataInv
  <2>5. /\ reads' \in [Sockets -> SUBSET Nat] /\ seamRead' = seamRead
        /\ \A t \in Sockets \ {s} : reads'[t] = reads[t]
    BY <1>3 DEF ReadBudgetEnds, DataInv
  <2>6. /\ \A t \in Sockets \ {s} : running'[t] = running[t]
        /\ running'[s].stage # "reading"
    BY <1>1, <1>3, NothingIsRead DEF ReadBudgetEnds
  <2>7. \A t \in Sockets : running'[t].stage = "reading"
              => reads'[t] \subseteq 1 .. Len(running'[t].block) - 1
    BY <2>5, <2>6, PlacesKept
  <2> QED  BY <1>1, <2>4, <2>5, <2>7 DEF DataInv
<1> QED  BY <1>2, <1>3

LEMMA TranslationKeepsData ==
    ASSUME BlockInv, DataInv, NEW s \in Sockets, TranslateAnswers(s)
    PROVE  DataInv'
<1> DEFINE b == running[s].block
<1>1. /\ UNCHANGED <<finished, seamRead, reads, late, spent, asks, gone>>
      /\ b \in Shapes /\ running[s].words \in SUBSET Cuts
      /\ TakeNext(s)
      /\ Answer(s, b, Refusal) \/ Answer(s, b, Told("draft", running[s].words))
  BY DEF TranslateAnswers, BlockInv, BlockType
<1>2. shown' \in [Sockets -> [Shapes -> Answers]]
  BY <1>1, AnswerTells, RefusalType, ToldType
<1>3. /\ running'[s].stage # "reading"
      /\ \A t \in Sockets \ {s} : running'[t] = running[t]
  BY <1>1, NothingIsRead
<1> QED  BY <1>1, <1>2, <1>3 DEF DataInv

LEMMA StepKeepsDataInv == BlockInv /\ DataInv /\ [Next]_vars => DataInv'
<1> SUFFICES ASSUME BlockInv, DataInv, [Next]_vars PROVE DataInv'
  OBVIOUS
<1>1. ASSUME NEW s \in Sockets, NEW b \in Shapes, Ask(s, b) PROVE DataInv'
  BY <1>1, AskKeepsData
<1>2. ASSUME NEW s \in Sockets, StartBlock(s) PROVE DataInv'
  BY <1>2, StartKeepsData
<1>3. ASSUME NEW s \in Sockets, ReadAnswers(s) \/ ReadBudgetEnds(s) PROVE DataInv'
  BY <1>3, ReadsKeepData
<1>4. ASSUME NEW s \in Sockets, TranslateAnswers(s) PROVE DataInv'
  BY <1>4, TranslationKeepsData
<1>5. ASSUME NEW s \in Sockets, PolishAnswers(s) PROVE DataInv'
  <2>1. /\ UNCHANGED <<finished, seamRead, running, reads, late, spent, asks>>
        /\ \E p \in polishing[s] :
              \/ Answer(s, p.block, Told("polished", p.words))
              \/ UNCHANGED shown
    BY <1>5 DEF PolishAnswers
  <2>2. \A p \in polishing[s] : p.block \in Shapes /\ p.words \in SUBSET Cuts
    BY DEF BlockInv, BlockType
  <2>3. shown' \in [Sockets -> [Shapes -> Answers]]
    <3>1. PICK p \in polishing[s] :
              \/ Answer(s, p.block, Told("polished", p.words))
              \/ UNCHANGED shown
      BY <2>1
    <3>2. p.block \in Shapes /\ Told("polished", p.words) \in Answers
      BY <2>2, ToldType
    <3> QED  BY <3>1, <3>2, AnswerTells DEF DataInv
  <2> QED  BY <2>1, <2>3 DEF DataInv
<1>6. ASSUME NEW s \in Sockets, ScriptRetry(s) PROVE DataInv'
  <2>1. /\ running' = [running EXCEPT ![s].retried = TRUE]
        /\ Spend(s) /\ running[s].stage = "translating"
        /\ UNCHANGED <<finished, seamRead, reads, late, asks, shown>>
    BY <1>6 DEF ScriptRetry
  <2>2. \A t \in Sockets : /\ running'[t].stage = running[t].stage
                           /\ running'[t].block = running[t].block
    BY ZenonT(40), <2>1 DEF BlockInv, BlockType
  <2>3. spent' \in [Users -> Nat]
    BY <2>1, SpendType
  <2> QED  BY <2>1, <2>2, <2>3 DEF DataInv
<1>7. ASSUME NEW s \in Sockets, FinishSegment(s) PROVE DataInv'
  <2>1. /\ UNCHANGED <<running, reads, late, spent, asks, shown>>
        /\ finished[s] < MaxSegments
        /\ finished' = [finished EXCEPT ![s] = @ + 1]
        /\ seamRead' = [seamRead EXCEPT ![s] =
                          {c \in @ : c[1] + Remembered > finished[s] + 1}]
    BY <1>7 DEF FinishSegment
  <2>2. finished' \in [Sockets -> 0 .. MaxSegments]
    BY <2>1, SegmentBounds DEF DataInv
  <2>3. seamRead' \in [Sockets -> SUBSET ShapeCuts]
    <3> DEFINE kept == {c \in seamRead[s] : c[1] + Remembered > finished[s] + 1}
    <3>1. seamRead' = [seamRead EXCEPT ![s] = kept] /\ kept \subseteq ShapeCuts
      BY <2>1 DEF DataInv
    <3> HIDE DEF kept
    <3> QED  BY <3>1 DEF DataInv
  <2> QED  BY <2>1, <2>2, <2>3 DEF DataInv
<1>8. ASSUME NEW s \in Sockets, NEW c \in Cuts, LateReadAnswers(s, c) PROVE DataInv'
  <2>1. /\ UNCHANGED <<finished, running, reads, spent, asks, shown>>
        /\ late[s][c] > 0 /\ Reads(s, c)
        /\ late' = [late EXCEPT ![s][c] = @ - 1]
    BY <1>8 DEF LateReadAnswers
  <2>2. c \in ShapeCuts
    BY <2>1 DEF DataInv
  <2>3. seamRead' \in [Sockets -> SUBSET ShapeCuts]
    BY <2>1, <2>2, ReadsType
  <2>4. late' \in [Sockets -> [Cuts -> Nat]]
    BY <2>1 DEF DataInv
  <2>5. \A t \in Sockets : \A d \in Cuts : d = c \/ late'[t][d] = late[t][d]
    BY <2>1 DEF DataInv
  <2> QED  BY <2>1, <2>2, <2>3, <2>4, <2>5 DEF DataInv
<1>9. ASSUME NEW u \in Users, MinutePasses(u) PROVE DataInv'
  BY <1>9 DEF MinutePasses, DataInv
<1>10. ASSUME NEW s \in Sockets, Leave(s) PROVE DataInv'
  BY <1>10 DEF Leave, DataInv
<1>11. CASE UNCHANGED vars
  BY <1>11 DEF vars, DataInv
<1> QED
  BY <1>1, <1>2, <1>3, <1>4, <1>5, <1>6, <1>7, <1>8, <1>9, <1>10, <1>11
     DEF Next, Event

(* Every variable keeps its type; what is read, or was, are cuts of blocks.*)
THEOREM TypesHold == Spec => []TypeOK
<1>1. BlockInv /\ DataInv => TypeOK
  BY ShapeCutsAreCuts DEF BlockInv, BlockType, DataInv, TypeOK, Answers
<1>2. Spec => []DataInv
  BY InitDataInv, StepKeepsDataInv, BlocksCorrect, PTL DEF Spec
<1> QED  BY <1>1, <1>2, BlocksCorrect, PTL

-----------------------------------------------------------------------------
(* A segment has one neighbour on its right: no two blocks are cut behind  *)
(* the same segment into different ones.                                   *)
OneNeighbour == \A c, d \in ShapeCuts : c[1] = d[1] => c = d

(* The words a block was answered with, or will be by a polish under way.  *)
Kept(s, a) == shown[s][a].words \cup UNION {p.words : p \in {q \in polishing[s] : q.block = a}}

(* Words lost at a block's cuts, of readings remembered or aged out.       *)
Backed(s, a, words) ==
    /\ words \subseteq CutsOf(a) \cap LostAt
    /\ \A c \in words : c \in seamRead[s] \/ c[1] + Remembered <= finished[s]

(* A block under translation has every word a shorter self was given.      *)
SocketWords(s) ==
    /\ \A a \in Shapes : Backed(s, a, Kept(s, a))
    /\ running[s].stage \in {"reading", "translating"} =>
          \A i \in 1 .. Len(running[s].block) : running[s].block[i] <= finished[s]
    /\ running[s].stage = "translating" =>
          /\ Backed(s, running[s].block, running[s].words)
          /\ Joinable(s, running[s].block) =>
                \A a \in Shapes : IsStrictPrefix(a, running[s].block)
                                     => Kept(s, a) \subseteq running[s].words

WordsInv == \A s \in Sockets : SocketWords(s)

(* What a step may do to a connection: time passes and readings come back, *)
Settled(s) ==
    /\ finished[s] <= finished'[s]
    /\ \A c \in seamRead[s] : c \in seamRead'[s] \/ c[1] + Remembered <= finished'[s]

(* answers repeat what was kept, or withdraw it,                           *)
Retold(s) ==
    /\ polishing'[s] \subseteq polishing[s]
    /\ \A a \in Shapes : /\ shown'[s][a].words \subseteq Kept(s, a)
                         /\ shown'[s][a] = shown[s][a] \/ shown'[s][a].text # "draft"

(* the running block stays, ends, or comes to its reads,                   *)
RunsOn(s) ==
    \/ running'[s].stage \in {"idle", "taken"}
    \/ /\ running'[s].stage = running[s].stage
       /\ running'[s].block = running[s].block
       /\ running'[s].words = running[s].words
    \/ /\ running'[s].stage = "reading"
       /\ Joinable(s, running'[s].block)

(* or it is translated with what was read by now,                          *)
Begins(s) ==
    /\ finished'[s] = finished[s]
    /\ running[s].block \in Shapes
    /\ running[s].stage = "reading" \/ Joinable(s, running[s].block)
    /\ running'[s].stage = "translating"
    /\ running'[s].block = running[s].block
    /\ running'[s].words = Recovered(s, running[s].block, seamRead'[s])

(* or its translation answers it.                                          *)
Answered(s) ==
    LET r == running[s]
    IN  /\ r.stage = "translating"
        /\ running'[s].stage \in {"idle", "taken"}
        /\ polishing'[s] \subseteq polishing[s] \cup {[block |-> r.block, words |-> r.words]}
        /\ \A a \in Shapes :
              \/ shown'[s][a] = shown[s][a]
              \/ shown'[s][a].words = {} /\ shown'[s][a].text # "draft"
              \/ a = r.block /\ shown'[s][a].words = r.words

WordStep(s) == Settled(s) /\ (Answered(s) \/ (Retold(s) /\ (RunsOn(s) \/ Begins(s))))

LEMMA StillBacked ==
    ASSUME DataInv, DataInv', NEW s \in Sockets, Settled(s),
           NEW a \in Shapes, NEW words, Backed(s, a, words)
    PROVE  Backed(s, a, words)'
<1> SUFFICES ASSUME NEW c \in words
             PROVE  c \in seamRead'[s] \/ c[1] + Remembered <= finished'[s]
  BY DEF Backed
<1>1. finished[s] \in Nat /\ finished'[s] \in Nat /\ Remembered \in Nat /\ c[1] \in Nat
  <2>1. c \in Cuts
    BY CutsOfBlocks DEF Backed
  <2> QED  BY <2>1, SegmentBounds DEF DataInv, Cuts, Segments
<1>2. c \in seamRead[s] \/ c[1] + Remembered <= finished[s]
  BY DEF Backed
<1> QED  BY <1>1, <1>2 DEF Settled

(* A block whose segments had finished was joinable if it is.              *)
LEMMA JoinableBefore ==
    ASSUME DataInv, DataInv', NEW s \in Sockets, NEW b \in Shapes,
           finished[s] <= finished'[s],
           \A i \in 1 .. Len(b) : b[i] <= finished[s],
           Joinable(s, b)'
    PROVE  Joinable(s, b)
<1>1. ASSUME NEW i \in 1 .. Len(b) PROVE b[i] \in Known(s)
  <2>1. /\ finished[s] \in Nat /\ finished'[s] \in Nat /\ Remembered \in Nat
        /\ b[i] \in Nat /\ b[i] >= 1
    BY ShapesAreBlocks, SegmentBounds DEF DataInv, Segments
  <2>2. b[i] + Remembered > finished'[s]
    BY DEF Joinable, Known
  <2> QED  BY <2>1, <2>2 DEF Known
<1> QED  BY <1>1 DEF Joinable

(* The cut of a block whose segments are known was not forgotten.          *)
LEMMA KnownCuts ==
    ASSUME DataInv, NEW s \in Sockets, NEW b \in Shapes, Joinable(s, b), NEW c \in CutsOf(b)
    PROVE  ~(c[1] + Remembered <= finished[s])
<1>1. PICK i \in 1 .. Len(b) - 1 : c = Cut(b, i)
  BY DEF CutsOf
<1>2. Len(b) \in Nat /\ i \in 1 .. Len(b) /\ c[1] = b[i]
  BY <1>1, ShapesAreBlocks DEF Cut
<1>3. b[i] + Remembered > finished[s] /\ b[i] \in Nat
  BY <1>2, ShapesAreBlocks DEF Joinable, Known, Segments
<1> QED  BY <1>2, <1>3, SegmentBounds DEF DataInv

LEMMA PrefixCuts ==
    ASSUME NEW a \in Shapes, NEW b \in Shapes, IsStrictPrefix(a, b)
    PROVE  CutsOf(a) \subseteq CutsOf(b)
<1>1. /\ Len(a) \in Nat /\ Len(b) \in Nat /\ Len(a) <= Len(b)
      /\ \A i \in 1 .. Len(a) : a[i] = b[i]
  <2>1. Len(a) <= Len(b) /\ SubSeq(a, 1, Len(a)) = SubSeq(b, 1, Len(a))
    BY DEF IsStrictPrefix, IsPrefix
  <2>2. a \in Seq(Segments) /\ b \in Seq(Segments)
    BY ShapesAreBlocks
  <2>3. \A i \in 1 .. Len(a) : SubSeq(a, 1, Len(a))[i] = a[i] /\ SubSeq(b, 1, Len(a))[i] = b[i]
    BY <2>1, <2>2
  <2> QED  BY <2>1, <2>2, <2>3
<1>2. \A i \in 1 .. Len(a) - 1 : i \in 1 .. Len(b) - 1 /\ Cut(a, i) = Cut(b, i)
  BY <1>1 DEF Cut
<1> QED  BY <1>2 DEF CutsOf

(* What a connection keeps grows only by the answer of its translation.    *)
LEMMA KeptGrows ==
    ASSUME NEW s \in Sockets, NEW a \in Shapes, Retold(s) \/ Answered(s)
    PROVE  \/ Kept(s, a)' \subseteq Kept(s, a)
           \/ /\ Answered(s) /\ a = running[s].block
              /\ Kept(s, a)' \subseteq Kept(s, a) \cup running[s].words
<1>1. CASE Retold(s)
  BY <1>1 DEF Retold, Kept
<1>2. CASE Answered(s)
  <2>1. shown'[s][a].words \subseteq Kept(s, a)
           \/ (a = running[s].block /\ shown'[s][a].words = running[s].words)
    BY <1>2 DEF Answered, Kept
  <2>2. ASSUME NEW p \in polishing'[s], p.block = a
        PROVE  \/ p.words \subseteq Kept(s, a)
               \/ a = running[s].block /\ p.words = running[s].words
    <3>1. p \in polishing[s] \/ p = [block |-> running[s].block, words |-> running[s].words]
      BY <1>2 DEF Answered
    <3> QED  BY <2>2, <3>1 DEF Kept
  <2>3. CASE a = running[s].block
    BY <1>2, <2>1, <2>2, <2>3 DEF Kept
  <2>4. CASE a # running[s].block
    BY <2>1, <2>2, <2>4 DEF Kept
  <2> QED  BY <2>3, <2>4
<1> QED  BY <1>1, <1>2

(* Every such step keeps the words of the connection.                      *)
LEMMA WordStepKeeps ==
    ASSUME BlockInv, DataInv, DataInv', NEW s \in Sockets, SocketWords(s), WordStep(s)
    PROVE  SocketWords(s)'
<1>b. PICK b, w : b = running[s].block /\ w = running[s].words
  OBVIOUS
<1>0. Settled(s) /\ finished[s] <= finished'[s] /\ (Retold(s) \/ Answered(s))
  BY DEF WordStep, Settled
<1>1. ASSUME NEW a \in Shapes PROVE Backed(s, a, Kept(s, a))'
  <2>1. Backed(s, a, Kept(s, a)')
    <3>1. Backed(s, a, Kept(s, a))
      BY DEF SocketWords
    <3>2. Answered(s) /\ a = b => Backed(s, a, running[s].words)
      BY <1>b DEF SocketWords, Answered
    <3> QED  BY <1>b, <1>0, <3>1, <3>2, KeptGrows DEF Backed
  <2> QED  BY <1>0, <2>1, StillBacked DEF Backed
<1>2. CASE Answered(s)
  BY <1>1, <1>2 DEF Answered, SocketWords
<1>3. CASE Retold(s) /\ RunsOn(s)
  <2>1. CASE running'[s].stage \in {"idle", "taken"}
    BY <1>1, <2>1 DEF SocketWords
  <2>2. CASE /\ running'[s].stage = running[s].stage
             /\ running'[s].block = b
             /\ running'[s].words = running[s].words
    <3>1. ASSUME running[s].stage \in {"reading", "translating"}
          PROVE  b \in Shapes /\ \A i \in 1 .. Len(b) : b[i] <= finished[s] /\ b[i] <= finished'[s]
      <4>1. b \in Shapes /\ \A i \in 1 .. Len(b) : b[i] <= finished[s]
        BY <1>b, <3>1 DEF BlockInv, BlockType, SocketWords
      <4>2. finished[s] \in Nat /\ finished'[s] \in Nat
        BY DEF DataInv
      <4>3. \A i \in 1 .. Len(b) : b[i] \in Nat
        <5>1. b \in Seq(Segments)
          BY <4>1, ShapesAreBlocks
        <5>2. \A i \in 1 .. Len(b) : b[i] \in Segments
          BY <5>1
        <5> QED  BY <5>2, SegmentBounds DEF Segments
      <4> QED  BY <1>0, <4>1, <4>2, <4>3
    <3>2. ASSUME running[s].stage = "translating"
          PROVE  /\ Backed(s, b, w)'
                 /\ Joinable(s, b)' =>
                       \A a \in Shapes : IsStrictPrefix(a, b) => Kept(s, a)' \subseteq w
      <4>1. Backed(s, b, w)
        BY <1>b, <3>2 DEF SocketWords
      <4>2. Joinable(s, b)' => Joinable(s, b)
        BY <1>0, <3>1, <3>2, JoinableBefore
      <4>3. \A a \in Shapes : Kept(s, a)' \subseteq Kept(s, a)
        BY <1>3 DEF Retold, Kept
      <4>4. Backed(s, b, w)'
        BY <1>0, <3>1, <3>2, <4>1, StillBacked
      <4> QED  BY <1>b, <3>2, <4>2, <4>3, <4>4 DEF SocketWords
    <3>3. /\ running'[s].stage \in {"reading", "translating"} =>
               \A i \in 1 .. Len(b) : b[i] <= finished'[s]
          /\ running'[s].stage = "translating" => running[s].stage = "translating"
      BY <2>2, <3>1
    <3> QED  BY <1>b, <1>1, <2>2, <3>2, <3>3 DEF SocketWords
  <2>3. CASE running'[s].stage = "reading" /\ Joinable(s, running'[s].block)
    <3>1. \A i \in 1 .. Len(running'[s].block) : running'[s].block[i] \in 1 .. finished[s]
      BY <2>3 DEF Joinable, Known
    <3>2. \A i \in 1 .. Len(running'[s].block) : running'[s].block[i] <= finished'[s]
      BY <1>0, <3>1 DEF DataInv
    <3> QED  BY <1>1, <2>3, <3>2 DEF SocketWords
  <2> QED  BY <1>b, <1>3, <2>1, <2>2, <2>3 DEF RunsOn
<1>4. CASE Retold(s) /\ Begins(s)
  <2>1. /\ finished'[s] = finished[s] /\ b \in Shapes
        /\ running'[s].stage = "translating" /\ running'[s].block = b
        /\ running'[s].words = Recovered(s, b, seamRead'[s])
    BY <1>b, <1>4 DEF Begins
  <2>2. \A i \in 1 .. Len(b) : b[i] <= finished'[s]
    <3>1. CASE running[s].stage = "reading"
      BY <1>b, <2>1, <3>1 DEF SocketWords
    <3>2. CASE Joinable(s, b)
      BY <2>1, <3>2 DEF Joinable, Known, DataInv
    <3> QED  BY <1>b, <1>4, <3>1, <3>2 DEF Begins
  <2>3. Backed(s, b, running[s].words)'
    BY <2>1 DEF Backed, Recovered
  <2>4. Joinable(s, b)' = Joinable(s, b)
    BY <2>1 DEF Joinable, Known
  <2>5. ASSUME Joinable(s, b), NEW a \in Shapes, IsStrictPrefix(a, b)
        PROVE  Kept(s, a)' \subseteq running'[s].words
    <3> SUFFICES ASSUME NEW c \in Kept(s, a)' PROVE c \in running'[s].words
      OBVIOUS
    <3>1. c \in CutsOf(a) \cap LostAt /\ (c \in seamRead'[s] \/ c[1] + Remembered <= finished'[s])
      BY <1>1 DEF Backed
    <3>2. c \in CutsOf(b)
      BY <2>1, <2>5, <3>1, PrefixCuts
    <3>3. c \in seamRead'[s]
      BY <2>1, <2>5, <3>1, <3>2, KnownCuts
    <3> QED  BY <2>1, <2>5, <3>1, <3>2, <3>3 DEF Recovered
  <2> QED  BY <1>1, <2>1, <2>2, <2>3, <2>4, <2>5 DEF SocketWords, Joinable, Backed
<1> QED  BY <1>2, <1>3, <1>4 DEF WordStep

-----------------------------------------------------------------------------
(* Readings only add to what a connection remembers.                       *)
LEMMA ReadsSettle ==
    ASSUME OneNeighbour, DataInv, NEW s \in Sockets, NEW c \in ShapeCuts, Reads(s, c)
    PROVE  \A t \in Sockets : seamRead[t] \subseteq seamRead'[t]
<1>1. seamRead[s] \subseteq RememberSeamRead(s, c)
  BY DEF OneNeighbour, RememberSeamRead, DataInv
<1> QED  BY <1>1, ReadsType

LEMMA SettledIfKept ==
    ASSUME DataInv, NEW t \in Sockets, finished'[t] = finished[t],
           seamRead[t] \subseteq seamRead'[t]
    PROVE  Settled(t)
<1>1. finished[t] \in Nat
  BY DEF DataInv
<1> QED  BY <1>1 DEF Settled

LEMMA RetoldIfTold ==
    ASSUME NEW t \in Sockets, polishing'[t] = polishing[t],
           \A a \in Shapes : shown'[t][a] = shown[t][a] \/ shown'[t][a] = Refusal
    PROVE  Retold(t)
BY RefusalType DEF Retold, Kept

LEMMA AskIsAWordStep ==
    ASSUME BlockInv, DataInv, NEW s \in Sockets, NEW b \in Shapes, Ask(s, b),
           NEW t \in Sockets
    PROVE  WordStep(t)
<1>1. Settled(t)
  BY SettledIfKept DEF Ask
<1>2. RunsOn(t)
  <2>1. running' = running \/ running' = [running EXCEPT ![s] = Taken(b)]
    BY DEF Ask
  <2> QED  BY <2>1 DEF RunsOn, BlockInv, BlockType, Taken, Idle
<1>3. \A a \in Shapes : shown'[t][a] = shown[t][a] \/ shown'[t][a] = Refusal
  <2>1. CASE Answer(s, b, Refusal)
    BY <2>1, AnswerTells, RefusalType
  <2>2. CASE \E i \in PlaceOf(s, b) : shown' = [shown EXCEPT ![s][waiting[s][i]] = Refusal]
    BY <2>2 DEF DataInv
  <2>3. CASE UNCHANGED shown
    BY <2>3
  <2> QED  BY <2>1, <2>2, <2>3 DEF Ask, Enqueue
<1>4. polishing' = polishing
  BY DEF Ask
<1> QED  BY <1>1, <1>2, <1>3, <1>4, RetoldIfTold DEF WordStep

(* A translation starts with the words recovered by then.                  *)
LEMMA TranslatingBegins ==
    ASSUME BlockInv, NEW s \in Sockets, running[s].block \in Shapes,
           running[s].stage = "reading" \/ Joinable(s, running[s].block),
           finished'[s] = finished[s], Translating(s, seamRead'[s])
    PROVE  Begins(s) /\ \A t \in Sockets \ {s} : running'[t] = running[t]
<1> DEFINE w == Recovered(s, running[s].block, seamRead'[s])
           r == [running[s] EXCEPT !.stage = "translating", !.words = w]
<1>1. r.stage = "translating" /\ r.words = w /\ r.block = running[s].block
  BY DEF BlockInv, BlockType
<1>2. running' = [running EXCEPT ![s] = r]
  BY DEF Translating, BlockInv, BlockType
<1>3. running'[s] = r /\ \A t \in Sockets \ {s} : running'[t] = running[t]
  <2> HIDE DEF r, w
  <2> QED  BY <1>2 DEF BlockInv, BlockType
<1> HIDE DEF r
<1> QED  BY <1>1, <1>3 DEF Begins

LEMMA StartIsAWordStep ==
    ASSUME BlockInv, DataInv, NEW s \in Sockets, StartBlock(s), NEW t \in Sockets
    PROVE  WordStep(t)
<1> DEFINE b == running[s].block
<1>1. /\ UNCHANGED <<finished, seamRead, polishing, gone>>
      /\ running[s].stage = "taken" /\ b \in Shapes
  BY DEF StartBlock, BlockInv, BlockType
<1>2. Settled(t)
  BY <1>1, SettledIfKept
<1>3. CASE Answer(s, b, Refusal) /\ TakeNext(s)
  <2>1. RunsOn(t)
    BY <1>1, <1>3, TakeNextTakes DEF BlockInv, RunsOn
  <2>2. \A a \in Shapes : shown'[t][a] = shown[t][a] \/ shown'[t][a] = Refusal
    BY <1>1, <1>3, AnswerTells, RefusalType
  <2> QED  BY <1>1, <1>2, <2>1, <2>2, RetoldIfTold DEF WordStep
<1>4. CASE /\ Joinable(s, b) /\ UNCHANGED shown
           /\ \/ Translating(s, seamRead[s])
              \/ running' = [running EXCEPT ![s].stage = "reading"]
  <2>1. Retold(t)
    BY <1>1, <1>4, RetoldIfTold
  <2>2. CASE Translating(s, seamRead[s])
    <3>1. Begins(s) /\ \A u \in Sockets \ {s} : running'[u] = running[u]
      BY <1>1, <1>4, <2>2, TranslatingBegins
    <3>2. Begins(t) \/ RunsOn(t)
      BY <3>1 DEF RunsOn
    <3> QED  BY <1>2, <2>1, <3>2 DEF WordStep
  <2>3. CASE running' = [running EXCEPT ![s].stage = "reading"]
    <3>1. /\ running'[s].stage = "reading" /\ running'[s].block = b
          /\ \A u \in Sockets \ {s} : running'[u] = running[u]
      BY <2>3 DEF BlockInv, BlockType
    <3>2. RunsOn(t)
      BY <1>4, <3>1 DEF RunsOn
    <3> QED  BY <1>2, <2>1, <3>2 DEF WordStep
  <2> QED  BY <1>4, <2>2, <2>3
<1> QED  BY <1>3, <1>4 DEF StartBlock

LEMMA ReadsAreAWordStep ==
    ASSUME OneNeighbour, BlockInv, DataInv, NEW s \in Sockets,
           ReadAnswers(s) \/ ReadBudgetEnds(s), NEW t \in Sockets
    PROVE  WordStep(t)
<1> DEFINE b == running[s].block
<1>1. /\ UNCHANGED <<finished, polishing, shown, gone>>
      /\ running[s].stage = "reading" /\ b \in Shapes
  BY DEF ReadAnswers, ReadBudgetEnds, BlockInv, BlockType
<1>2. seamRead[t] \subseteq seamRead'[t]
  <2>1. CASE ReadAnswers(s)
    <3>1. PICK i \in InFlight(s) : Reads(s, Cut(b, i))
      BY <2>1 DEF ReadAnswers
    <3> QED  BY <1>1, <3>1, InFlightIsACut, ReadsSettle
  <2>2. CASE ReadBudgetEnds(s)
    BY <2>2 DEF ReadBudgetEnds
  <2> QED  BY <2>1, <2>2
<1>3. Settled(t) /\ Retold(t)
  BY <1>1, <1>2, SettledIfKept, RetoldIfTold
<1>4. AfterReads(s, seamRead'[s]) \/ UNCHANGED running
  BY DEF ReadAnswers, ReadBudgetEnds
<1>5. Begins(t) \/ RunsOn(t)
  <2>1. CASE s \notin gone /\ Translating(s, seamRead'[s])
    <3>1. Begins(s) /\ \A u \in Sockets \ {s} : running'[u] = running[u]
      BY <1>1, <2>1, TranslatingBegins
    <3> QED  BY <3>1 DEF RunsOn
  <2>2. CASE TakeNext(s)
    BY <1>1, <2>2, TakeNextTakes DEF BlockInv, RunsOn
  <2>3. CASE UNCHANGED running
    BY <2>3 DEF RunsOn
  <2> QED  BY <1>4, <2>1, <2>2, <2>3 DEF AfterReads
<1> QED  BY <1>3, <1>5 DEF WordStep

LEMMA TranslationIsAWordStep ==
    ASSUME BlockInv, DataInv, NEW s \in Sockets, TranslateAnswers(s), NEW t \in Sockets
    PROVE  WordStep(t) /\ (t # s => Retold(t)) /\ (t = s => Answered(t))
<1> DEFINE b == running[s].block
           w == running[s].words
           p == [block |-> b, words |-> w]
<1>1. /\ UNCHANGED <<finished, seamRead, gone>>
      /\ running[s].stage = "translating" /\ b \in Shapes /\ w \in SUBSET Cuts
      /\ Answer(s, b, Refusal) \/ Answer(s, b, Told("draft", w))
      /\ polishing' = polishing \/ polishing' = [polishing EXCEPT ![s] = @ \cup {p}]
      /\ TakeNext(s)
  BY DEF TranslateAnswers, BlockInv, BlockType
<1>2. Settled(t)
  BY <1>1, SettledIfKept
<1>3. /\ running'[s].stage \in {"idle", "taken"}
      /\ \A u \in Sockets \ {s} : running'[u] = running[u]
  BY <1>1, TakeNextTakes DEF BlockInv
<1>4. /\ \A u \in Sockets \ {s} : shown'[u] = shown[u]
      /\ \A a \in Shapes \ {b} : shown'[s][a] = shown[s][a]
      /\ shown'[s][b] \in {shown[s][b], Refusal, Told("draft", w)}
  <2> HIDE DEF b, w
  <2> QED  BY <1>1, AnswerTells, RefusalType, ToldType
<1>5. /\ polishing'[s] \subseteq polishing[s] \cup {p}
      /\ \A u \in Sockets \ {s} : polishing'[u] = polishing[u]
  <2> HIDE DEF p
  <2> QED  BY <1>1 DEF BlockInv, BlockType
<1>6. CASE t # s
  <2>1. Retold(t) /\ RunsOn(t)
    BY <1>3, <1>4, <1>5, <1>6, RetoldIfTold DEF RunsOn
  <2> QED  BY <1>2, <1>6, <2>1 DEF WordStep
<1>7. CASE t = s
  <2>1. \A a \in Shapes :
              \/ shown'[s][a] = shown[s][a]
              \/ shown'[s][a].words = {} /\ shown'[s][a].text # "draft"
              \/ a = b /\ shown'[s][a].words = w
    <3> HIDE DEF b, w
    <3> QED  BY <1>1, <1>4, RefusalType, ToldType
  <2>2. Answered(t)
    BY <1>1, <1>3, <1>5, <1>7, <2>1 DEF Answered
  <2> QED  BY <1>2, <1>7, <2>2 DEF WordStep
<1> QED  BY <1>6, <1>7

LEMMA PolishIsAWordStep ==
    ASSUME BlockInv, DataInv, NEW s \in Sockets, PolishAnswers(s), NEW t \in Sockets
    PROVE  WordStep(t) /\ Retold(t)
<1>1. PICK p \in polishing[s] :
          /\ polishing' = [polishing EXCEPT ![s] = @ \ {p}]
          /\ Answer(s, p.block, Told("polished", p.words)) \/ UNCHANGED <<pending, shown>>
  BY DEF PolishAnswers
<1>2. p.block \in Shapes /\ p.words \in SUBSET Cuts
  BY DEF BlockInv, BlockType
<1>3. /\ \A u \in Sockets \ {s} : shown'[u] = shown[u]
      /\ \A a \in Shapes \ {p.block} : shown'[s][a] = shown[s][a]
      /\ shown'[s][p.block] \in {shown[s][p.block], Told("polished", p.words)}
  <2>1. Told("polished", p.words) \in Answers
    BY <1>2, ToldType
  <2> QED  BY <1>1, <1>2, <2>1, AnswerTells
<1>4. polishing'[t] \subseteq polishing[t]
  BY <1>1 DEF BlockInv, BlockType
<1>5. Retold(t)
  <2> SUFFICES ASSUME NEW a \in Shapes
               PROVE  /\ shown'[t][a].words \subseteq Kept(t, a)
                      /\ shown'[t][a] = shown[t][a] \/ shown'[t][a].text # "draft"
    BY <1>4 DEF Retold
  <2>1. CASE shown'[t][a] = shown[t][a]
    BY <2>1 DEF Kept
  <2>2. CASE t = s /\ a = p.block /\ shown'[t][a] = Told("polished", p.words)
    BY <1>2, <2>2, ToldType DEF Kept
  <2> QED  BY <1>3, <2>1, <2>2
<1>6. UNCHANGED <<finished, seamRead, running>>
  BY DEF PolishAnswers
<1> QED  BY <1>5, <1>6, SettledIfKept DEF WordStep, RunsOn

LEMMA StepIsAWordStep ==
    ASSUME OneNeighbour, BlockInv, DataInv, [Next]_vars, NEW t \in Sockets
    PROVE  WordStep(t)
<1>1. ASSUME NEW s \in Sockets, NEW b \in Shapes, Ask(s, b) PROVE WordStep(t)
  BY <1>1, AskIsAWordStep
<1>2. ASSUME NEW s \in Sockets, StartBlock(s) PROVE WordStep(t)
  BY <1>2, StartIsAWordStep
<1>3. ASSUME NEW s \in Sockets, ReadAnswers(s) \/ ReadBudgetEnds(s) PROVE WordStep(t)
  BY <1>3, ReadsAreAWordStep
<1>4. ASSUME NEW s \in Sockets, TranslateAnswers(s) PROVE WordStep(t)
  BY <1>4, TranslationIsAWordStep
<1>5. ASSUME NEW s \in Sockets, PolishAnswers(s) PROVE WordStep(t)
  BY <1>5, PolishIsAWordStep
<1>6. ASSUME NEW s \in Sockets, ScriptRetry(s) PROVE WordStep(t)
  <2>1. /\ running' = [running EXCEPT ![s].retried = TRUE]
        /\ UNCHANGED <<finished, seamRead, polishing, shown>>
    BY <1>6 DEF ScriptRetry
  <2>2. /\ running'[t].stage = running[t].stage
        /\ running'[t].block = running[t].block
        /\ running'[t].words = running[t].words
    BY ZenonT(40), <2>1 DEF BlockInv, BlockType
  <2> QED  BY <2>1, <2>2, SettledIfKept, RetoldIfTold DEF WordStep, RunsOn
<1>7. ASSUME NEW s \in Sockets, FinishSegment(s) PROVE WordStep(t)
  <2>1. /\ UNCHANGED <<running, polishing, shown>>
        /\ finished' = [finished EXCEPT ![s] = @ + 1]
        /\ seamRead' = [seamRead EXCEPT ![s] =
                          {c \in @ : c[1] + Remembered > finished[s] + 1}]
    BY <1>7 DEF FinishSegment
  <2>2. /\ finished[t] \in Nat /\ finished[s] \in Nat /\ Remembered \in Nat
        /\ \A c \in seamRead[t] : c[1] \in Nat
    <3>1. \A c \in Cuts : c[1] \in Nat
      BY SegmentBounds DEF Cuts, Segments
    <3> QED  BY <3>1, ShapeCutsAreCuts, SegmentBounds DEF DataInv
  <2>3. Settled(t)
    <3>1. CASE t = s
      <4>1. /\ finished'[s] = finished[s] + 1
            /\ seamRead'[s] = {c \in seamRead[s] : c[1] + Remembered > finished[s] + 1}
        BY <2>1 DEF DataInv
      <4> QED  BY <2>2, <3>1, <4>1 DEF Settled
    <3>2. CASE t # s
      <4>1. finished'[t] = finished[t] /\ seamRead'[t] = seamRead[t]
        BY <2>1, <3>2 DEF DataInv
      <4> QED  BY <4>1, SettledIfKept
    <3> QED  BY <3>1, <3>2
  <2> QED  BY <2>1, <2>3, RetoldIfTold DEF WordStep, RunsOn
<1>8. ASSUME NEW s \in Sockets, NEW c \in Cuts, LateReadAnswers(s, c) PROVE WordStep(t)
  <2>1. /\ UNCHANGED <<finished, running, polishing, shown>>
        /\ late[s][c] > 0 /\ Reads(s, c)
    BY <1>8 DEF LateReadAnswers
  <2>2. seamRead[t] \subseteq seamRead'[t]
    BY <2>1, ReadsSettle DEF DataInv
  <2> QED  BY <2>1, <2>2, SettledIfKept, RetoldIfTold DEF WordStep, RunsOn
<1>9. ASSUME UNCHANGED <<finished, seamRead, running, polishing, shown>> PROVE WordStep(t)
  BY <1>9, SettledIfKept, RetoldIfTold DEF WordStep, RunsOn
<1> QED
  BY <1>1, <1>2, <1>3, <1>4, <1>5, <1>6, <1>7, <1>8, <1>9
     DEF Next, Event, MinutePasses, Leave, vars

LEMMA InitWords == Init => WordsInv
<1> SUFFICES ASSUME Init, NEW s \in Sockets PROVE SocketWords(s)
  BY DEF WordsInv
<1>1. running[s].stage = "idle"
  BY DEF Init, Idle
<1>2. \A a \in Shapes : Kept(s, a) = {}
  BY DEF Init, Kept, Unanswered
<1> QED  BY <1>1, <1>2 DEF SocketWords, Backed

LEMMA StepKeepsWords ==
    ASSUME OneNeighbour, BlockInv, DataInv, WordsInv, [Next]_vars
    PROVE  WordsInv'
<1>1. DataInv'
  BY StepKeepsDataInv
<1>2. ASSUME NEW s \in Sockets PROVE SocketWords(s)'
  BY <1>1, <1>2, StepIsAWordStep, WordStepKeeps DEF WordsInv
<1> QED  BY <1>2 DEF WordsInv

(* A draft that answers a block holds what its shorter selves were given.  *)
LEMMA DraftHasTheWords ==
    ASSUME OneNeighbour, BlockInv, DataInv, WordsInv, [Next]_vars,
           NEW s \in Sockets, NEW b \in Shapes, NEW a \in Shapes,
           shown'[s][b] # shown[s][b], shown'[s][b].text = "draft", Joinable(s, b),
           IsStrictPrefix(a, b)
    PROVE  shown[s][a].words \subseteq shown'[s][b].words
<1>1. Answered(s)
  BY StepIsAWordStep DEF WordStep, Retold
<1>2. /\ running[s].stage = "translating" /\ b = running[s].block
      /\ shown'[s][b].words = running[s].words
  BY <1>1 DEF Answered
<1>3. Kept(s, a) \subseteq running[s].words
  BY <1>2 DEF WordsInv, SocketWords
<1> QED  BY <1>2, <1>3 DEF Kept

(* No repair comes and goes, for any blocks in which a segment has one     *)
(* right neighbour, any window, losses, budgets, readings that hang or come*)
(* late: a block that grew is answered with the words of its shorter self. *)
THEOREM RepairsNeverGo ==
    ASSUME OneNeighbour PROVE Spec => RepairsStay
<1>1. Spec => []DataInv
  BY InitDataInv, StepKeepsDataInv, BlocksCorrect, PTL DEF Spec
<1>2. BlockInv /\ DataInv /\ WordsInv /\ [Next]_vars => WordsInv'
  BY StepKeepsWords
<1>3. Spec => []WordsInv
  BY <1>1, <1>2, InitWords, BlocksCorrect, PTL DEF Spec
<1>4. BlockInv /\ DataInv /\ WordsInv /\ [Next]_vars =>
        [\A s \in Sockets, b \in Shapes :
          shown'[s][b] # shown[s][b] /\ shown'[s][b].text = "draft" /\ Joinable(s, b)
          => \A a \in Shapes : IsStrictPrefix(a, b) => shown[s][a].words \subseteq shown'[s][b].words]_vars
  BY DraftHasTheWords
<1> QED  BY <1>1, <1>3, <1>4, BlocksCorrect, PTL DEF Spec, RepairsStay
=============================================================================
