------------------------- MODULE BlockRetranslation -------------------------
(***************************************************************************)
(* A run of finished segments translated again as one text                 *)
(* (client.block.retranslate): BlockRetranslator with its per-connection   *)
(* queue and budget, FinishedSegments with the window it remembers and the *)
(* cuts it had read again, and what the client was told of each block.     *)
(*                                                                         *)
(* Segments are numbered on each connection in the order they finished; a  *)
(* number not finished yet stands for an id the connection does not know.  *)
(* A block is a sequence of segments and its key is the whole sequence.    *)
(* Each await of retranslate() is a stage; one block runs per connection,  *)
(* but a read of a cut that outlived its budget is still in flight beside  *)
(* whatever the connection does next, and so is a polish.                  *)
(*                                                                         *)
(* Left out: what a text says, the display's typesetting, the restore      *)
(* beside the translation (it cannot reject and is awaited with it) and    *)
(* the polishes' own budget, which only decides whether one is asked.      *)
(***************************************************************************)
EXTENDS Naturals, Sequences, SequencesExt, FiniteSetsExt

CONSTANTS
    Sockets,
    Users,
    UserOf,         \* the account each socket's requests are charged to
    MaxSegments,    \* bound: segments a connection finishes
    Remembered,     \* REMEMBERED_SEGMENTS
    PlanOf,         \* the languages of each segment, or NoPlan for a blank one
    NoPlan,
    Audible,        \* the segments kept with their audio, in a measured language
    LostAt,         \* the cuts at which a word was lost
    Shapes,         \* the blocks a client may ask for
    MaxAsks,        \* bound: how often a connection asks for each of them
    PerUser,        \* BLOCK_RETRANSLATION_RPM
    Global          \* BLOCK_RETRANSLATION_GLOBAL_RPM

Segments == 1 .. MaxSegments

Cuts == Segments \X Segments

ASSUME UserOfType == UserOf \in [Sockets -> Users]
ASSUME SegmentBounds == MaxSegments \in Nat /\ Remembered \in Nat \ {0}
ASSUME AudibleType == Audible \subseteq Segments /\ LostAt \subseteq Cuts
ASSUME ShapesType ==
    /\ Shapes \subseteq Seq(Segments)
    /\ \A b \in Shapes : Len(b) >= 2
    /\ MaxAsks \in [Shapes -> Nat]
ASSUME BudgetType == PerUser \in Nat \ {0} /\ Global \in Nat

VARIABLES
    finished,   \* how many segments each connection finished
    seamRead,   \* the cuts whose reading answered, by their left segment
    running,    \* the block retranslate() is at and where, one per connection
    reads,      \* readSeams(): the places in the running block of the cuts
                \* still to read, the first in flight
    late,       \* reads of each cut in flight that nobody waits for any more
    waiting,    \* the blocks queued behind the running one
    polishing,  \* the answered blocks whose polish is in flight
    spent,      \* the requests of each account in the last minute
    asks,       \* how often each block was asked for
    pending,    \* the client's pendingBlocks: asked for and not answered
    shown,      \* the last answer the client was sent for each block
    gone        \* the connections whose client left

vars == <<finished, seamRead, running, reads, late, waiting, polishing, spent,
          asks, pending, shown, gone>>

Idle == [stage |-> "idle", block |-> <<>>, words |-> {}, retried |-> FALSE]

Taken(b) == [Idle EXCEPT !.stage = "taken", !.block = b]

Unanswered == [text |-> "none", words |-> {}]
Refusal == [text |-> "empty", words |-> {}]
Told(text, words) == [text |-> text, words |-> words]

-----------------------------------------------------------------------------
(* FinishedSegments: the newest Remembered segments of a connection. *)
Known(s) == {i \in 1 .. finished[s] : i + Remembered > finished[s]}

(* block(): one text, when every piece is known, said something and shares  *)
(* its plan with the first.                                                 *)
Joinable(s, b) ==
    /\ \A i \in 1 .. Len(b) :
          /\ b[i] \in Known(s)
          /\ PlanOf[b[i]] # NoPlan /\ PlanOf[b[i]] = PlanOf[b[1]]
    /\ \A i, j \in 1 .. Len(b) : b[i] = b[j] => i = j

Cut(b, i) == <<b[i], b[i + 1]>>

CutsOf(b) == {Cut(b, i) : i \in 1 .. Len(b) - 1}

(* unreadSeams(): a cut whose reading is in flight was not read yet. *)
UnreadSeams(s, b) ==
    {i \in 1 .. Len(b) - 1 :
        {b[i], b[i + 1]} \subseteq Known(s) \cap Audible /\ Cut(b, i) \notin seamRead[s]}

(* Keeps one reading for the whole connection. *)
RememberLastRead(s, c) == IF c[1] \in Known(s) THEN {c} ELSE seamRead[s]

(* rememberSeamRead(): with the left segment, if it is still known. *)
RememberSeamRead(s, c) ==
    IF c[1] \in Known(s) THEN {d \in seamRead[s] : d[1] # c[1]} \cup {c}
                         ELSE seamRead[s]

(* recoveredWords() joined in, unless a segment aged out during the reads. *)
Recovered(s, b, read) ==
    IF Joinable(s, b) THEN CutsOf(b) \cap read \cap LostAt ELSE {}

CanSpend(s) ==
    /\ spent[UserOf[s]] < PerUser
    /\ MapThenSumSet(LAMBDA u : spent[u], Users) < Global

Spend(s) == spent' = [spent EXCEPT ![UserOf[s]] = @ + 1]

(* MAX_WAITING_BLOCKS *)
MaxWaiting == PerUser - 1

-----------------------------------------------------------------------------
(* answer(): a connection that went away has nobody to answer. *)
Answer(s, b, answer) ==
    IF s \in gone
    THEN UNCHANGED <<pending, shown>>
    ELSE /\ pending' = [pending EXCEPT ![s] = @ \ {b}]
         /\ shown' = [shown EXCEPT ![s][b] = answer]

(* The loop of retranslate(): the next block of the queue, unless the       *)
(* client left; an empty queue ends it.                                     *)
TakeNext(s) ==
    IF s \in gone \/ waiting[s] = <<>>
    THEN /\ running' = [running EXCEPT ![s] = Idle]
         /\ waiting' = [waiting EXCEPT ![s] = <<>>]
    ELSE /\ running' = [running EXCEPT ![s] = Taken(Head(waiting[s]))]
         /\ waiting' = [waiting EXCEPT ![s] = Tail(@)]

Translating(s, read) ==
    running' = [running EXCEPT ![s].stage = "translating",
                               ![s].words = Recovered(s, running[s].block, read)]

(* Translates whoever is still there to be answered. *)
TranslateRegardless(s, read) == Translating(s, read) /\ UNCHANGED waiting

(* translateBlock() after its reads: no model call for a client that left. *)
AfterReads(s, read) ==
    IF s \in gone THEN TakeNext(s)
                  ELSE Translating(s, read) /\ UNCHANGED waiting

-----------------------------------------------------------------------------
Init ==
    /\ finished = [s \in Sockets |-> 0]
    /\ seamRead = [s \in Sockets |-> {}]
    /\ running = [s \in Sockets |-> Idle]
    /\ reads = [s \in Sockets |-> {}]
    /\ late = [s \in Sockets |-> [c \in Cuts |-> 0]]
    /\ waiting = [s \in Sockets |-> <<>>]
    /\ polishing = [s \in Sockets |-> {}]
    /\ spent = [u \in Users |-> 0]
    /\ asks = [s \in Sockets |-> [b \in Shapes |-> 0]]
    /\ pending = [s \in Sockets |-> {}]
    /\ shown = [s \in Sockets |-> [b \in Shapes |-> Unanswered]]
    /\ gone = {}

(* A turn of the connection finished: record() forgets the oldest segment   *)
(* past the window, and what was read at its cut with it.                   *)
FinishSegment(s) ==
    /\ s \notin gone
    /\ finished[s] < MaxSegments
    /\ finished' = [finished EXCEPT ![s] = @ + 1]
    /\ seamRead' = [seamRead EXCEPT ![s] =
                      {c \in @ : c[1] + Remembered > finished[s] + 1}]
    /\ UNCHANGED <<running, reads, late, waiting, polishing, spent, asks,
                   pending, shown, gone>>

(* Where a block that starts as b does is queued. *)
PlaceOf(s, b) == {i \in 1 .. Len(waiting[s]) : waiting[s][i][1] = b[1]}

(* Replaces the shorter copy without a word about it. *)
EnqueueSilently(s, b) ==
    LET place == PlaceOf(s, b)
        refused == \/ ~Joinable(s, b)
                   \/ place = {} /\ Len(waiting[s]) >= MaxWaiting
    IN  /\ waiting' = IF refused THEN waiting
                      ELSE IF place = {} THEN [waiting EXCEPT ![s] = Append(@, b)]
                      ELSE [waiting EXCEPT ![s] =
                              [i \in DOMAIN @ |-> IF i \in place THEN b ELSE @[i]]]
        /\ pending' = [pending EXCEPT ![s] = IF refused THEN @ \ {b} ELSE @ \cup {b}]
        /\ shown' = IF refused THEN [shown EXCEPT ![s][b] = Refusal] ELSE shown

(* enqueue(): refused at once, or in the place of the block it grew from,   *)
(* which is answered empty, or behind the others.                           *)
Enqueue(s, b) ==
    LET place == PlaceOf(s, b)
    IN  \/ /\ ~Joinable(s, b) \/ (place = {} /\ Len(waiting[s]) >= MaxWaiting)
           /\ Answer(s, b, Refusal)
           /\ UNCHANGED waiting
        \/ /\ Joinable(s, b)
           /\ place = {} /\ Len(waiting[s]) < MaxWaiting
           /\ waiting' = [waiting EXCEPT ![s] = Append(@, b)]
           /\ pending' = [pending EXCEPT ![s] = @ \cup {b}]
           /\ UNCHANGED shown
        \/ /\ Joinable(s, b)
           /\ \E i \in place :
                LET displaced == waiting[s][i]
                IN  /\ waiting' = [waiting EXCEPT ![s][i] = b]
                    /\ IF displaced = b
                       THEN /\ pending' = [pending EXCEPT ![s] = @ \cup {b}]
                            /\ UNCHANGED shown
                       ELSE /\ pending' = [pending EXCEPT ![s] = (@ \cup {b}) \ {displaced}]
                            /\ shown' = [shown EXCEPT ![s][displaced] = Refusal]

(* retranslateBlock() of the client and retranslate() up to its first await *)
Ask(s, b) ==
    /\ s \notin gone
    /\ asks[s][b] < MaxAsks[b]
    /\ asks' = [asks EXCEPT ![s][b] = @ + 1]
    /\ \/ /\ running[s] = Idle
          /\ running' = [running EXCEPT ![s] = Taken(b)]
          /\ pending' = [pending EXCEPT ![s] = @ \cup {b}]
          /\ UNCHANGED <<waiting, shown>>
       \/ /\ running[s] # Idle
          /\ Enqueue(s, b)
          /\ UNCHANGED running
    /\ UNCHANGED <<finished, seamRead, reads, late, polishing, spent, gone>>

(* translateBlock() up to its first await: a block that aged out while it   *)
(* waited or finds the budget spent is refused; the cuts not read yet are   *)
(* read first.                                                              *)
StartBlock(s) ==
    LET b == running[s].block
        unread == UnreadSeams(s, b)
    IN  /\ running[s].stage = "taken"
        /\ \/ /\ ~(Joinable(s, b) /\ CanSpend(s))
              /\ Answer(s, b, Refusal)
              /\ TakeNext(s)
              /\ UNCHANGED <<reads, spent>>
           \/ /\ Joinable(s, b) /\ CanSpend(s)
              /\ Spend(s)
              /\ reads' = [reads EXCEPT ![s] = unread]
              /\ IF unread = {} THEN Translating(s, seamRead[s])
                 ELSE running' = [running EXCEPT ![s].stage = "reading"]
              /\ UNCHANGED <<waiting, pending, shown>>
        /\ UNCHANGED <<finished, seamRead, late, polishing, asks, gone>>

(* A reading that came back, heard or not: a failure leaves the cut unread. *)
Reads(s, c) ==
    \E heard \in BOOLEAN :
        seamRead' = IF heard THEN [seamRead EXCEPT ![s] = RememberSeamRead(s, c)]
                    ELSE seamRead

InFlight(s) == {i \in reads[s] : \A j \in reads[s] : i <= j}

(* readSeams(): one cut after the other, while the client is there. *)
ReadAnswers(s) ==
    /\ running[s].stage = "reading"
    /\ \E i \in InFlight(s) :
          /\ Reads(s, Cut(running[s].block, i))
          /\ reads' = [reads EXCEPT ![s] = IF s \in gone THEN {} ELSE @ \ {i}]
    /\ IF reads'[s] = {} THEN AfterReads(s, seamRead'[s])
       ELSE UNCHANGED <<running, waiting>>
    /\ UNCHANGED <<finished, late, polishing, spent, asks, pending, shown, gone>>

(* SEAM_READ_BUDGET_MS passed: no further cut is read, and the reading in   *)
(* flight is left to answer when it does.                                   *)
ReadBudgetEnds(s) ==
    /\ running[s].stage = "reading"
    /\ \E i \in InFlight(s) :
          late' = [late EXCEPT ![s][Cut(running[s].block, i)] = @ + 1]
    /\ reads' = [reads EXCEPT ![s] = {}]
    /\ AfterReads(s, seamRead[s])
    /\ UNCHANGED <<finished, seamRead, polishing, spent, asks, pending, shown,
                   gone>>

LateReadAnswers(s, c) ==
    /\ late[s][c] > 0
    /\ Reads(s, c)
    /\ late' = [late EXCEPT ![s][c] = @ - 1]
    /\ UNCHANGED <<finished, running, reads, waiting, polishing, spent, asks,
                   pending, shown, gone>>

(* A translation that leaked a foreign script is asked once more. *)
ScriptRetry(s) ==
    /\ running[s].stage = "translating"
    /\ ~running[s].retried
    /\ CanSpend(s)
    /\ Spend(s)
    /\ running' = [running EXCEPT ![s].retried = TRUE]
    /\ UNCHANGED <<finished, seamRead, reads, late, waiting, polishing, asks,
                   pending, shown, gone>>

(* translateAll() answers: the draft goes out and its polish may be asked,  *)
(* or the block is answered empty; then the next block is taken.            *)
TranslateAnswers(s) ==
    LET b == running[s].block
        words == running[s].words
    IN  /\ running[s].stage = "translating"
        /\ \/ /\ Answer(s, b, Refusal)
              /\ UNCHANGED polishing
           \/ /\ Answer(s, b, Told("draft", words))
              /\ \/ UNCHANGED polishing
                 \/ polishing' = [polishing EXCEPT ![s] =
                                    @ \cup {[block |-> b, words |-> words]}]
        /\ TakeNext(s)
        /\ UNCHANGED <<finished, seamRead, reads, late, spent, asks, gone>>

(* polish(): answered again if it changed anything. *)
PolishAnswers(s) ==
    /\ \E p \in polishing[s] :
          /\ polishing' = [polishing EXCEPT ![s] = @ \ {p}]
          /\ \/ Answer(s, p.block, Told("polished", p.words))
             \/ UNCHANGED <<pending, shown>>
    /\ UNCHANGED <<finished, seamRead, running, reads, late, waiting, spent,
                   asks, gone>>

(* The oldest request of an account leaves the budget's minute. *)
MinutePasses(u) ==
    /\ spent[u] > 0
    /\ spent' = [spent EXCEPT ![u] = @ - 1]
    /\ UNCHANGED <<finished, seamRead, running, reads, late, waiting, polishing,
                   asks, pending, shown, gone>>

Leave(s) ==
    /\ s \notin gone
    /\ gone' = gone \cup {s}
    /\ UNCHANGED <<finished, seamRead, running, reads, late, waiting, polishing,
                   spent, asks, pending, shown>>

-----------------------------------------------------------------------------
(* A block is taken and started in the same turn of the event loop. *)
Drained == \A s \in Sockets : running[s].stage # "taken"

Event ==
    /\ Drained
    /\ \/ \E s \in Sockets :
            \/ FinishSegment(s) \/ Leave(s)
            \/ \E b \in Shapes : Ask(s, b)
            \/ ReadAnswers(s) \/ ReadBudgetEnds(s)
            \/ \E c \in Cuts : LateReadAnswers(s, c)
            \/ ScriptRetry(s) \/ TranslateAnswers(s) \/ PolishAnswers(s)
       \/ \E u \in Users : MinutePasses(u)

Next == Event \/ \E s \in Sockets : StartBlock(s)

Spec == Init /\ [][Next]_vars

(* Promises that settled run, the read budget is a timer, and a model call  *)
(* has a deadline of its own.  Nothing is assumed of the sidecar's reads.   *)
Fairness ==
    \A s \in Sockets :
        /\ WF_vars(StartBlock(s))
        /\ WF_vars(Drained /\ ReadBudgetEnds(s))
        /\ WF_vars(Drained /\ TranslateAnswers(s))

FairSpec == Spec /\ Fairness

-----------------------------------------------------------------------------
TypeOK ==
    /\ finished \in [Sockets -> 0 .. MaxSegments]
    /\ seamRead \in [Sockets -> SUBSET Cuts]
    /\ running \in [Sockets -> [stage : {"idle", "taken", "reading", "translating"},
                                block : Shapes \cup {<<>>},
                                words : SUBSET Cuts, retried : BOOLEAN]]
    /\ reads \in [Sockets -> SUBSET Nat]
    /\ late \in [Sockets -> [Cuts -> Nat]]
    /\ waiting \in [Sockets -> Seq(Shapes)]
    /\ polishing \in [Sockets -> SUBSET [block : Shapes, words : SUBSET Cuts]]
    /\ spent \in [Users -> Nat]
    /\ asks \in [Sockets -> [Shapes -> Nat]]
    /\ pending \in [Sockets -> SUBSET Shapes]
    /\ shown \in [Sockets -> [Shapes -> [text : {"none", "empty", "draft", "polished"},
                                         words : SUBSET Cuts]]]
    /\ gone \subseteq Sockets

(* What the server still has to answer on a connection. *)
Carried(s) == {running[s].block} \cup ToSet(waiting[s])

(* No request is lost between the running block and the queue: a client     *)
(* waits for every block it asked for before it closes its socket.          *)
NoAskIsLost ==
    \A s \in Sockets \ gone : pending[s] \subseteq Carried(s)

(* Every request is answered, also one superseded by a block that grew, one *)
(* whose cut the sidecar never reads, and one that finds the budget spent.  *)
EveryAskIsAnswered ==
    \A s \in Sockets, b \in Shapes :
        b \in pending[s] ~> b \notin pending[s] \/ s \in gone

(* A repair cannot come and go: a block that grew is answered with every    *)
(* word its shorter self was answered with, while its segments are known.   *)
RepairsStay ==
    [][\A s \in Sockets, b \in Shapes :
          shown'[s][b] # shown[s][b] /\ shown'[s][b].text = "draft" /\ Joinable(s, b)
          => \A a \in Shapes : IsStrictPrefix(a, b) => shown[s][a].words \subseteq shown'[s][b].words]_vars

(* Nothing is begun for a client that left: no reading, which a live turn   *)
(* would have to wait behind, and no translation, which it could have had.  *)
NothingForNobody ==
    [][\A s \in gone :
          /\ running'[s].stage = "translating" => running[s].stage = "translating"
          /\ reads'[s] # {} => reads'[s] = reads[s]]_vars

=============================================================================
