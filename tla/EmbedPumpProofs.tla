-------------------------- MODULE EmbedPumpProofs ---------------------------
(***************************************************************************)
(* EmbedPump for every set of texts, number of slots, of searches and of   *)
(* deaths: what holds of its slots and its log, that every caller is given *)
(* the vector of its own text or none, and that the callers of a group are *)
(* given all theirs or none.                                               *)
(***************************************************************************)
EXTENDS EmbedPump, RecursionLemmas

-----------------------------------------------------------------------------
(* The cutting of a batch. *)

\* The places a batch of `len` is cut at, for `parts` chunks.
Cuts(len, parts) ==
  [i \in 1..(parts + 1) |->
     (i - 1) * (len \div parts) + (IF i - 1 < len % parts THEN i - 1 ELSE len % parts)]

\* They start with nothing, end with all of it, and go up.
LEMMA CutsGoUp ==
    ASSUME NEW len \in Nat, NEW parts \in 1..len
    PROVE  /\ Cuts(len, parts) \in [1..(parts + 1) -> 0..len]
           /\ Cuts(len, parts)[1] = 0
           /\ Cuts(len, parts)[parts + 1] = len
           /\ \A i \in 1..parts : Cuts(len, parts)[i] <= Cuts(len, parts)[i + 1]
<1> DEFINE b == len \div parts
           x == len % parts
           Before(i) == (i - 1) * b + (IF i - 1 < x THEN i - 1 ELSE x)
<1>1. b \in Nat /\ x \in 0..(parts - 1) /\ len = parts * b + x /\ parts \in Nat
  OBVIOUS
<1>2. Cuts(len, parts) = [i \in 1..(parts + 1) |-> Before(i)]
  BY DEF Cuts
<1> HIDE DEF b, x
<1>3. Before(1) = 0 /\ Before(parts + 1) = len
  <2>1. 0 * b = 0 /\ (1 - 1) * b = 0 /\ (parts + 1) - 1 = parts
    BY <1>1
  <2>2. QED
    BY <1>1, <2>1
<1>4. ASSUME NEW i \in 1..parts PROVE Before(i) <= Before(i + 1)
  <2>1. (i + 1) - 1 = i /\ i * b = (i - 1) * b + b /\ (i - 1) * b \in Int /\ i * b \in Int
    BY <1>1
  <2>2. QED
    BY <1>1, <2>1
<1>5. ASSUME NEW i \in 1..(parts + 1) PROVE Before(i) \in 0..len
  <2>1. i - 1 \in 0..parts /\ (i - 1) * b \in Nat /\ parts * b \in Nat
    BY <1>1
  <2>2. (i - 1) * b <= parts * b
    <3>1. \A k \in Nat : k * b \in Nat
      BY <1>1
    <3>2. (parts - (i - 1)) * b \in Nat
      BY <1>1, <2>1, <3>1
    <3>3. (parts - (i - 1)) * b = parts * b - (i - 1) * b
      BY <1>1, <2>1
    <3>4. QED
      BY <2>1, <3>2, <3>3
  <2> DEFINE u == (i - 1) * b
             v == parts * b
             w == IF i - 1 < x THEN i - 1 ELSE x
  <2>3. w \in 0..x
    BY <1>1, <2>1
  <2>4. u \in Nat /\ v \in Nat /\ u <= v /\ len = v + x
    BY <1>1, <2>1, <2>2
  <2> HIDE DEF u, v, w
  <2>5. u + w \in 0..len
    BY <1>1, <2>3, <2>4
  <2>6. QED
    BY <2>5 DEF u, w
<1> HIDE DEF Before
<1>6. \A i \in 1..(parts + 1) : Cuts(len, parts)[i] = Before(i)
  BY <1>2
<1>7. \A i \in 1..parts : Cuts(len, parts)[i] <= Cuts(len, parts)[i + 1]
  <2>1. \A i \in 1..parts : i \in 1..(parts + 1) /\ i + 1 \in 1..(parts + 1)
    BY <1>1
  <2>2. QED
    BY <1>4, <1>6, <2>1
<1>8. Cuts(len, parts) \in [1..(parts + 1) -> 0..len]
  BY <1>2, <1>5
<1>9. 1 \in 1..(parts + 1) /\ parts + 1 \in 1..(parts + 1)
  BY <1>1
<1>10. QED
  BY <1>3, <1>6, <1>7, <1>8, <1>9

\* A batch is the chunks it was cut into, one after the other.
LEMMA ChunksAreTheBatch ==
    ASSUME NEW S, NEW jobs \in Seq(S), NEW slots \in Nat \ {0}
    PROVE  /\ PlanChunks(jobs, slots) \in Seq(Seq(S))
           /\ FlattenSeq(PlanChunks(jobs, slots)) = jobs
<1>1. Len(jobs) \in Nat
  OBVIOUS
<1>2. CASE jobs = <<>>
  <2>1. Len(jobs) = 0
    BY <1>2
  <2>2. PlanChunks(jobs, slots) = <<>>
    BY <2>1 DEF PlanChunks
  <2>3. FlattenSeq(<<>>) = <<>>
    BY DEF FlattenSeq
  <2>4. <<>> \in Seq(Seq(S))
    <3> DEFINE T == Seq(S)
    <3> HIDE DEF T
    <3>1. <<>> \in Seq(T)
      OBVIOUS
    <3>2. QED
      BY <3>1 DEF T
  <2>5. QED
    BY <1>2, <2>2, <2>3, <2>4
<1>3. CASE jobs # <<>>
  <2> DEFINE parts == IF Len(jobs) < slots THEN Len(jobs) ELSE slots
             cut == Cuts(Len(jobs), parts)
  <2>1. parts \in 1..Len(jobs)
    BY <1>1, <1>3
  <2>2. PlanChunks(jobs, slots) = [i \in 1..parts |-> SubSeq(jobs, cut[i] + 1, cut[i + 1])]
    <3>1. ASSUME NEW i \in 1..parts PROVE i \in 1..(parts + 1) /\ i + 1 \in 1..(parts + 1)
      BY <2>1
    <3> HIDE DEF parts
    <3>2. ASSUME NEW i \in 1..(parts + 1)
          PROVE  cut[i] = (i - 1) * (Len(jobs) \div parts)
                            + (IF i - 1 < Len(jobs) % parts THEN i - 1 ELSE Len(jobs) % parts)
      BY DEF Cuts
    <3>3. QED
      BY <3>1, <3>2 DEF PlanChunks, parts
  <2> HIDE DEF parts
  <2>3. /\ cut \in [1..(parts + 1) -> 0..Len(jobs)]
        /\ cut[1] = 0 /\ cut[parts + 1] = Len(jobs)
        /\ \A i \in 1..parts : cut[i] <= cut[i + 1]
    BY <1>1, <2>1, CutsGoUp
  <2>4. parts \in Nat \ {0}
    BY <1>1, <2>1
  <2> HIDE DEF cut
  <2>5. FlattenSeq([i \in 1..parts |-> SubSeq(jobs, cut[i] + 1, cut[i + 1])]) = jobs
    BY <2>3, <2>4, FlattenOfCuts
  <2>6. ASSUME NEW i \in 1..parts PROVE SubSeq(jobs, cut[i] + 1, cut[i + 1]) \in Seq(S)
    <3>1. cut[i] \in 0..Len(jobs) /\ cut[i + 1] \in 0..Len(jobs)
      BY <2>3, <2>4
    <3>2. \A k \in (cut[i] + 1)..cut[i + 1] : jobs[k] \in S
      BY <1>1, <3>1
    <3>3. QED
      BY <3>1, <3>2, SubSeqProperties
  <2>7. [i \in 1..parts |-> SubSeq(jobs, cut[i] + 1, cut[i + 1])] \in Seq(Seq(S))
    <3> DEFINE T == Seq(S)
               pieces == [i \in 1..parts |-> SubSeq(jobs, cut[i] + 1, cut[i + 1])]
    <3>1. pieces \in [1..parts -> T]
      BY <2>6
    <3> HIDE DEF T, pieces
    <3>2. pieces \in Seq(T)
      BY <2>4, <3>1, SeqDef
    <3>3. QED
      BY <3>2 DEF T, pieces
  <2>8. QED
    BY <2>2, <2>5, <2>7
<1>4. QED
  BY <1>2, <1>3

-----------------------------------------------------------------------------
(* The invariant.  What a text says more than TypeOK is that the queue,    *)
(* the batch and the chunks are sequences, that the chunks are the group   *)
(* that is being sent, cut, and that nothing was logged since an answer.   *)

Places == {"lock", "check", "asked", "vectors", "failed"}
Chunk  == [jobs : Seq(Jobs), slot : 0..Slots, at : Places, tries : 0..1]

ChunksTyped ==
  /\ chunks \in Seq(Chunk)
  /\ \A k \in DOMAIN chunks : chunks[k].at \in {"check", "asked"} <=> chunks[k].slot # 0

CallsTyped ==
  /\ call \in [Jobs -> {"idle", "waiting", "answered"}]
  /\ answer \in [Jobs -> Jobs \cup {None}]
  /\ queue \in Seq(Jobs) /\ batch \in Seq(Jobs)
  /\ pump \in {"look", "asleep", "nap", "group"}
  /\ side \in 0..2

RestTyped ==
  /\ child \in [1..Slots -> {"none", "alive", "dead"}]
  /\ found \in {"unasked", "missed", "found"} /\ onDisk \in BOOLEAN
  /\ stage \in [Searches -> {"idle", "waiting", "asked", "again", "scored", "without"}]
  /\ ranker \in {"none", "alive", "dead"} /\ deaths \in 0..MaxDeaths

LogIsQuiet ==
  /\ last \in {"unasked", "answered", "did_not"} /\ said \in 0..1
  /\ last # "did_not" => said = 0

JobsOf(some) == [k \in DOMAIN some |-> some[k].jobs]

ChunksAreTheGroup ==
  side # 0 => \E n \in Nat \ {0} : JobsOf(chunks) = PlanChunks(Group(side), n)

PumpInv ==
  /\ CallsTyped /\ ChunksTyped /\ RestTyped
  /\ LogIsQuiet
  /\ SlotsAreExclusive
  /\ ChunksAreTheGroup
  /\ AnswersAreOwn

\* It implies the invariant the runs check.
LEMMA PumpInvIsEnough == PumpInv => Inv
<1> SUFFICES ASSUME PumpInv PROVE Inv
  OBVIOUS
<1>1. \A s \in Seq(Jobs) : ToSet(s) \subseteq Jobs
  BY DEF ToSet
<1>2. ASSUME NEW k \in DOMAIN chunks
      PROVE  /\ ToSet(chunks[k].jobs) \subseteq Jobs
             /\ chunks[k].slot \in 0..Slots
             /\ chunks[k].at \in Places
             /\ chunks[k].tries \in 0..1
  <2>1. chunks[k] \in Chunk
    BY DEF PumpInv, ChunksTyped
  <2>2. QED
    BY <1>1, <2>1 DEF Chunk
<1>3. TypeOK
  BY <1>1, <1>2 DEF TypeOK, PumpInv, CallsTyped, ChunksTyped, RestTyped, LogIsQuiet, Places
<1>4. SaidOnce
  BY DEF SaidOnce, PumpInv, LogIsQuiet
<1>5. QED
  BY <1>3, <1>4 DEF Inv, PumpInv

LEMMA PumpStarts == Init => PumpInv
<1> SUFFICES ASSUME Init PROVE PumpInv
  OBVIOUS
<1> USE PumpAssumption DEF Init
<1>1. CallsTyped
  BY DEF CallsTyped
<1>2. ChunksTyped
  BY DEF ChunksTyped
<1>3. RestTyped
  <2>1. onDisk \in BOOLEAN
    <3>1. Installs = TRUE \/ Installs = FALSE
      OBVIOUS
    <3>2. QED
      BY <3>1
  <2>2. QED
    BY <2>1 DEF RestTyped
<1>4. LogIsQuiet /\ SlotsAreExclusive /\ ChunksAreTheGroup /\ AnswersAreOwn
  BY DEF LogIsQuiet, SlotsAreExclusive, ChunksAreTheGroup, AnswersAreOwn
<1>5. QED
  BY <1>1, <1>2, <1>3, <1>4 DEF PumpInv

\* What an action that leaves the chunks alone keeps of them.
LEMMA ChunksStay ==
    ASSUME PumpInv, UNCHANGED <<chunks, batch, side>>
    PROVE  ChunksTyped' /\ SlotsAreExclusive' /\ ChunksAreTheGroup'
<1>1. ChunksTyped'
  BY DEF PumpInv, ChunksTyped
<1>2. SlotsAreExclusive'
  BY DEF PumpInv, SlotsAreExclusive
<1>3. Group(side)' = Group(side)
  BY DEF Group
<1>4. ChunksAreTheGroup'
  BY <1>3 DEF PumpInv, ChunksAreTheGroup, JobsOf
<1>5. QED
  BY <1>1, <1>2, <1>4

-----------------------------------------------------------------------------
(* The callers, the children and the second stage.                         *)

LEMMA CallersStep ==
    ASSUME PumpInv, LookAgain \/ Install \/ \E j \in Jobs : Encode(j)
    PROVE  PumpInv'
<1>1. UNCHANGED <<chunks, batch, side, last, said, answer, child, stage, ranker, deaths>>
  BY DEF LookAgain, Install, Encode, pumpVars, rankVars
<1>2. CallsTyped'
  <2>1. CASE LookAgain \/ Install
    BY <2>1 DEF LookAgain, Install, pumpVars, PumpInv, CallsTyped
  <2>2. ASSUME NEW j \in Jobs, Encode(j) PROVE CallsTyped'
    <3>1. queue' \in Seq(Jobs)
      BY <2>2, AppendProperties DEF Encode, PumpInv, CallsTyped
    <3>2. QED
      BY <1>1, <2>2, <3>1 DEF Encode, PumpInv, CallsTyped
  <2>3. QED
    BY <2>1, <2>2
<1>3. RestTyped'
  BY <1>1 DEF LookAgain, Install, Encode, PumpInv, RestTyped
<1>4. LogIsQuiet' /\ AnswersAreOwn'
  BY <1>1 DEF PumpInv, LogIsQuiet, AnswersAreOwn
<1>5. QED
  BY <1>1, <1>2, <1>3, <1>4, ChunksStay DEF PumpInv

\* What changes is a child, the second stage, or the count of deaths.
LEMMA RestStep ==
    ASSUME PumpInv, UNCHANGED <<pumpVars, callVars>>, RestTyped'
    PROVE  PumpInv'
<1>1. CallsTyped' /\ LogIsQuiet' /\ AnswersAreOwn'
  BY DEF pumpVars, callVars, PumpInv, CallsTyped, LogIsQuiet, AnswersAreOwn
<1>2. QED
  BY <1>1, ChunksStay DEF PumpInv, pumpVars

LEMMA ChildrenStep ==
    ASSUME PumpInv, RankerDies \/ \E s \in 1..Slots : Die(s)
    PROVE  PumpInv'
<1>1. UNCHANGED <<pumpVars, callVars>>
  BY DEF RankerDies, Die
<1>2. deaths' \in 0..MaxDeaths
  BY PumpAssumption DEF RankerDies, Die, PumpInv, RestTyped
<1>3. RestTyped'
  BY <1>1, <1>2 DEF RankerDies, Die, PumpInv, RestTyped, callVars, rankVars
<1>4. QED
  BY <1>1, <1>3, RestStep

LEMMA SearchesStep ==
    ASSUME PumpInv, NEW s \in Searches,
           Rerank(s) \/ Search(s) \/ RerankAnswers(s) \/ RerankFails(s)
    PROVE  PumpInv'
<1>1. UNCHANGED <<pumpVars, callVars, child, deaths>>
  BY DEF Rerank, Search, RerankAsks, RerankGivesUp, RerankAnswers, RerankFails
<1>2. stage' \in [Searches -> {"idle", "waiting", "asked", "again", "scored", "without"}]
  BY DEF Rerank, Search, RerankAsks, RerankGivesUp, RerankAnswers, RerankFails, PumpInv, RestTyped
<1>3. ranker' \in {"none", "alive", "dead"}
  BY DEF Rerank, Search, RerankAsks, RerankGivesUp, RerankAnswers, RerankFails, PumpInv, RestTyped
<1>4. RestTyped'
  BY <1>1, <1>2, <1>3 DEF callVars, PumpInv, RestTyped
<1>5. QED
  BY <1>1, <1>4, RestStep

-----------------------------------------------------------------------------
(* The threads of the chunks.                                              *)

Moved(k, place, s, n) ==
  chunks' = [chunks EXCEPT ![k] = [jobs |-> chunks[k].jobs, slot |-> s, at |-> place, tries |-> n]]

\* One field or two of a chunk change.
LEMMA MovedByFields ==
    ASSUME PumpInv, NEW k \in DOMAIN chunks, NEW place, NEW s, NEW n
    PROVE  /\ chunks' = [chunks EXCEPT ![k].at = place] => Moved(k, place, chunks[k].slot, chunks[k].tries)
           /\ chunks' = [chunks EXCEPT ![k].at = place, ![k].slot = s] => Moved(k, place, s, chunks[k].tries)
           /\ chunks' = [chunks EXCEPT ![k].at = place, ![k].tries = n] => Moved(k, place, chunks[k].slot, n)
<1>c. PICK c \in Chunk : c = chunks[k]
  BY DEF PumpInv, ChunksTyped
<1> DEFINE one == [c EXCEPT !.at = place]
           mid == [chunks EXCEPT ![k] = one]
<1>1. chunks \in Seq(Chunk) /\ chunks[k] \in Chunk
  BY DEF PumpInv, ChunksTyped
<1>2. /\ one = [jobs |-> c.jobs, slot |-> c.slot, at |-> place, tries |-> c.tries]
      /\ [one EXCEPT !.slot = s] = [jobs |-> c.jobs, slot |-> s, at |-> place, tries |-> c.tries]
      /\ [one EXCEPT !.tries = n] = [jobs |-> c.jobs, slot |-> c.slot, at |-> place, tries |-> n]
  <2> DEFINE d == [jobs |-> c.jobs, slot |-> c.slot, at |-> place, tries |-> c.tries]
  <2>1. one = d
    BY DEF Chunk
  <2>2. /\ [d EXCEPT !.slot = s] = [jobs |-> c.jobs, slot |-> s, at |-> place, tries |-> c.tries]
        /\ [d EXCEPT !.tries = n] = [jobs |-> c.jobs, slot |-> c.slot, at |-> place, tries |-> n]
    OBVIOUS
  <2> HIDE DEF d, one
  <2>3. QED
    BY <2>1, <2>2 DEF d
<1>3. /\ [chunks EXCEPT ![k].at = place] = mid
      /\ [chunks EXCEPT ![k].at = place, ![k].slot = s] = [mid EXCEPT ![k] = [mid[k] EXCEPT !.slot = s]]
      /\ [chunks EXCEPT ![k].at = place, ![k].tries = n] = [mid EXCEPT ![k] = [mid[k] EXCEPT !.tries = n]]
  BY <1>c, Zenon
<1> HIDE DEF one
<1>4. mid[k] = one
  BY <1>1
<1>5. ASSUME NEW x PROVE [mid EXCEPT ![k] = x] = [chunks EXCEPT ![k] = x]
  BY <1>1
<1> HIDE DEF mid
<1>6. [mid EXCEPT ![k] = [mid[k] EXCEPT !.slot = s]] = [chunks EXCEPT ![k] = [one EXCEPT !.slot = s]]
  BY <1>4, <1>5
<1>7. [mid EXCEPT ![k] = [mid[k] EXCEPT !.tries = n]] = [chunks EXCEPT ![k] = [one EXCEPT !.tries = n]]
  BY <1>4, <1>5
<1>8. mid = [chunks EXCEPT ![k] = one]
  BY DEF mid
<1>9. QED
  BY <1>c, <1>2, <1>3, <1>6, <1>7, <1>8 DEF Moved

\* One chunk goes to another place, with a slot only where it needs one and
\* never with one that another has.
LEMMA OneChunkMoves ==
    ASSUME PumpInv, NEW k \in DOMAIN chunks, NEW place \in Places,
           NEW s \in 0..Slots, NEW n \in 0..1,
           Moved(k, place, s, n), UNCHANGED <<batch, side>>,
           place \in {"check", "asked"} <=> s # 0,
           s # 0 => \A l \in DOMAIN chunks : l # k => chunks[l].slot # s
    PROVE  ChunksTyped' /\ SlotsAreExclusive' /\ ChunksAreTheGroup'
<1> DEFINE c == [jobs |-> chunks[k].jobs, slot |-> s, at |-> place, tries |-> n]
<1>1. chunks \in Seq(Chunk) /\ chunks[k] \in Chunk
  BY DEF PumpInv, ChunksTyped
<1>2. c \in Chunk /\ c.jobs = chunks[k].jobs /\ c.slot = s /\ c.at = place
  BY <1>1 DEF Chunk
<1>3. chunks' = [chunks EXCEPT ![k] = c]
  BY DEF Moved
<1> HIDE DEF c
<1>4. /\ chunks' \in Seq(Chunk) /\ DOMAIN chunks' = DOMAIN chunks
      /\ chunks'[k] = c
      /\ \A l \in DOMAIN chunks : l # k => chunks'[l] = chunks[l]
  BY <1>1, <1>2, <1>3
<1>5. ChunksTyped'
  BY <1>2, <1>4 DEF PumpInv, ChunksTyped
<1>6. SlotsAreExclusive'
  BY <1>2, <1>4 DEF PumpInv, SlotsAreExclusive
<1>7. ChunksAreTheGroup'
  <2>1. \A l \in DOMAIN chunks : chunks'[l].jobs = chunks[l].jobs
    BY <1>2, <1>4
  <2>2. JobsOf(chunks') = JobsOf(chunks)
    BY <1>4, <2>1 DEF JobsOf
  <2>3. Group(side)' = Group(side)
    BY DEF Group
  <2>4. QED
    BY <2>2, <2>3 DEF PumpInv, ChunksAreTheGroup, JobsOf
<1>8. QED
  BY <1>5, <1>6, <1>7

LEMMA LockStep ==
    ASSUME PumpInv, NEW k \in DOMAIN chunks, Lock(k)
    PROVE  PumpInv'
<1> DEFINE free == 1..Slots \ Held
           s == CHOOSE s \in free : \A t \in free : s <= t
<1>1. chunks[k] \in Chunk
  BY DEF PumpInv, ChunksTyped
<1>2. s \in 1..Slots /\ s \notin Held
  <2>1. free \in SUBSET Nat /\ free # {}
    <3>1. 1..Slots \ Held # {}
      BY Zenon DEF Lock
    <3>2. QED
      BY <3>1, PumpAssumption
  <2>2. \E x \in free : \A y \in free : x <= y
    BY <2>1, LeastOf
  <2> HIDE DEF free
  <2>3. s \in free
    BY <2>2
  <2>4. QED
    BY <2>3 DEF free
<1>3. Moved(k, "check", s, chunks[k].tries)
  <2>1. chunks' = [chunks EXCEPT ![k].at = "check", ![k].slot = s]
    BY DEF Lock
  <2> HIDE DEF s
  <2>2. QED
    BY <2>1, MovedByFields
<1> HIDE DEF s
<1>4. s \in 0..Slots /\ s # 0 /\ chunks[k].tries \in 0..1 /\ "check" \in Places
  BY <1>1, <1>2, PumpAssumption DEF Chunk, Places
<1>5. \A l \in DOMAIN chunks : l # k => chunks[l].slot # s
  BY <1>2, <1>4 DEF Held
<1>6. UNCHANGED <<batch, side>>
  BY DEF Lock
<1>7. ChunksTyped' /\ SlotsAreExclusive' /\ ChunksAreTheGroup'
  BY <1>3, <1>4, <1>5, <1>6, OneChunkMoves
<1>8. CallsTyped' /\ RestTyped' /\ LogIsQuiet' /\ AnswersAreOwn'
  BY DEF Lock, callVars, rankVars, PumpInv, CallsTyped, RestTyped, LogIsQuiet, AnswersAreOwn
<1>9. QED
  BY <1>7, <1>8 DEF PumpInv

\* A chunk that asks has its slot, and no other has it.
LEMMA SlotOfChunk ==
    ASSUME PumpInv, NEW k \in DOMAIN chunks, chunks[k].at \in {"check", "asked"}
    PROVE  /\ chunks[k] \in Chunk
           /\ chunks[k].slot \in 1..Slots
           /\ \A l \in DOMAIN chunks : l # k => chunks[l].slot # chunks[k].slot
<1>1. chunks[k] \in Chunk /\ chunks[k].slot # 0
  BY DEF PumpInv, ChunksTyped
<1>2. chunks[k].slot \in 1..Slots
  BY <1>1, PumpAssumption DEF Chunk
<1>3. QED
  BY <1>1, <1>2 DEF PumpInv, SlotsAreExclusive

\* A chunk that gives up lets go of its slot and says an outage once.
LEMMA GivingUp ==
    ASSUME PumpInv, NEW k \in DOMAIN chunks, GiveUp(k), UNCHANGED <<batch, side>>
    PROVE  LogIsQuiet' /\ ChunksTyped' /\ SlotsAreExclusive' /\ ChunksAreTheGroup'
<1>1. chunks[k] \in Chunk
  BY DEF PumpInv, ChunksTyped
<1>2. Moved(k, "failed", 0, chunks[k].tries)
  BY MovedByFields DEF GiveUp
<1>3. 0 \in 0..Slots /\ chunks[k].tries \in 0..1 /\ "failed" \in Places
  BY <1>1, PumpAssumption DEF Chunk, Places
<1>4. ChunksTyped' /\ SlotsAreExclusive' /\ ChunksAreTheGroup'
  BY <1>2, <1>3, OneChunkMoves
<1>5. LogIsQuiet'
  BY DEF GiveUp, Say, PumpInv, LogIsQuiet
<1>6. QED
  BY <1>4, <1>5

LEMMA CheckStep ==
    ASSUME PumpInv, NEW k \in DOMAIN chunks, Check(k)
    PROVE  PumpInv'
<1>1. /\ chunks[k] \in Chunk
      /\ chunks[k].slot \in 1..Slots
      /\ \A l \in DOMAIN chunks : l # k => chunks[l].slot # chunks[k].slot
  BY SlotOfChunk DEF Check
<1>2. UNCHANGED <<queue, pump, batch, side, callVars, rankVars, deaths>>
  BY DEF Check
<1>3. CallsTyped' /\ AnswersAreOwn'
  BY <1>2 DEF callVars, PumpInv, CallsTyped, AnswersAreOwn
<1>4. RestTyped'
  <2>1. child' \in [1..Slots -> {"none", "alive", "dead"}]
    BY <1>1 DEF Check, PumpInv, RestTyped
  <2>2. QED
    BY <1>2, <2>1 DEF callVars, rankVars, PumpInv, RestTyped
<1>5. LogIsQuiet' /\ ChunksTyped' /\ SlotsAreExclusive' /\ ChunksAreTheGroup'
  <2>1. CASE chunks' = [chunks EXCEPT ![k].at = "asked"] /\ UNCHANGED <<last, said>>
    <3>1. Moved(k, "asked", chunks[k].slot, chunks[k].tries)
      BY <2>1, MovedByFields
    <3>2. chunks[k].slot \in 0..Slots /\ chunks[k].slot # 0 /\ chunks[k].tries \in 0..1 /\ "asked" \in Places
      BY <1>1, PumpAssumption DEF Chunk, Places
    <3>3. ChunksTyped' /\ SlotsAreExclusive' /\ ChunksAreTheGroup'
      BY <1>1, <1>2, <3>1, <3>2, OneChunkMoves
    <3>4. QED
      BY <2>1, <3>3 DEF PumpInv, LogIsQuiet
  <2>2. CASE GiveUp(k)
    BY <1>2, <2>2, GivingUp
  <2>3. QED
    BY <2>1, <2>2 DEF Check
<1>6. QED
  BY <1>3, <1>4, <1>5 DEF PumpInv

LEMMA AnswerStep ==
    ASSUME PumpInv, NEW k \in DOMAIN chunks, Answer(k)
    PROVE  PumpInv'
<1>1. chunks[k] \in Chunk
  BY DEF PumpInv, ChunksTyped
<1>2. Moved(k, "vectors", 0, chunks[k].tries)
  BY MovedByFields DEF Answer
<1>3. 0 \in 0..Slots /\ chunks[k].tries \in 0..1 /\ "vectors" \in Places /\ UNCHANGED <<batch, side>>
  BY <1>1, PumpAssumption DEF Answer, Chunk, Places
<1>4. ChunksTyped' /\ SlotsAreExclusive' /\ ChunksAreTheGroup'
  BY <1>2, <1>3, OneChunkMoves
<1>5. CallsTyped' /\ RestTyped' /\ LogIsQuiet' /\ AnswersAreOwn'
  BY DEF Answer, callVars, rankVars, PumpInv, CallsTyped, RestTyped, LogIsQuiet, AnswersAreOwn
<1>6. QED
  BY <1>4, <1>5 DEF PumpInv

LEMMA FailStep ==
    ASSUME PumpInv, NEW k \in DOMAIN chunks, Fail(k)
    PROVE  PumpInv'
<1>1. /\ chunks[k] \in Chunk
      /\ chunks[k].slot \in 1..Slots
      /\ \A l \in DOMAIN chunks : l # k => chunks[l].slot # chunks[k].slot
  BY SlotOfChunk DEF Fail
<1>2. UNCHANGED <<queue, pump, batch, side, callVars, rankVars, deaths>>
  BY DEF Fail
<1>3. CallsTyped' /\ AnswersAreOwn'
  BY <1>2 DEF callVars, PumpInv, CallsTyped, AnswersAreOwn
<1>4. RestTyped'
  <2>1. child' \in [1..Slots -> {"none", "alive", "dead"}]
    BY <1>1 DEF Fail, PumpInv, RestTyped
  <2>2. QED
    BY <1>2, <2>1 DEF callVars, rankVars, PumpInv, RestTyped
<1>5. LogIsQuiet' /\ ChunksTyped' /\ SlotsAreExclusive' /\ ChunksAreTheGroup'
  <2>1. CASE chunks[k].tries = 0
    <3>1. Moved(k, "check", chunks[k].slot, 1)
      BY <2>1, MovedByFields DEF Fail
    <3>2. chunks[k].slot \in 0..Slots /\ chunks[k].slot # 0 /\ "check" \in Places
      BY <1>1, PumpAssumption DEF Chunk, Places
    <3>3. ChunksTyped' /\ SlotsAreExclusive' /\ ChunksAreTheGroup'
      BY <1>1, <1>2, <3>1, <3>2, OneChunkMoves
    <3>4. QED
      BY <2>1, <3>3 DEF Fail, PumpInv, LogIsQuiet
  <2>2. CASE chunks[k].tries # 0
    BY <1>2, <2>2, GivingUp DEF Fail
  <2>3. QED
    BY <2>1, <2>2
<1>6. QED
  BY <1>3, <1>4, <1>5 DEF PumpInv

-----------------------------------------------------------------------------
(* The pump.                                                               *)

LEMMA PumpTurns ==
    ASSUME PumpInv, PumpLooks \/ PumpWakes \/ PumpTakes
    PROVE  PumpInv'
<1>1. UNCHANGED <<last, said, callVars, child, rankVars, deaths>>
  BY DEF PumpLooks, PumpWakes, PumpTakes
<1>2. RestTyped' /\ LogIsQuiet' /\ AnswersAreOwn'
  BY <1>1 DEF callVars, rankVars, PumpInv, RestTyped, LogIsQuiet, AnswersAreOwn
<1>3. CallsTyped'
  <2>1. call' = call /\ answer' = answer
    BY <1>1 DEF callVars
  <2>2. CASE PumpTakes
    <3>1. queue' = <<>> /\ batch' = queue /\ side' = 0 /\ pump' = "group"
      BY <2>2 DEF PumpTakes
    <3>2. QED
      BY <2>1, <3>1 DEF PumpInv, CallsTyped
  <2>3. CASE PumpLooks \/ PumpWakes
    <3>1. UNCHANGED <<queue, batch, side>> /\ pump' \in {"look", "asleep", "nap", "group"}
      BY <2>3 DEF PumpLooks, PumpWakes
    <3>2. QED
      BY <2>1, <3>1 DEF PumpInv, CallsTyped
  <2>4. QED
    BY <2>2, <2>3
<1>4. ChunksTyped' /\ SlotsAreExclusive' /\ ChunksAreTheGroup'
  <2>1. CASE PumpTakes
    <3>1. chunks' = <<>> /\ side' = 0
      BY <2>1 DEF PumpTakes
    <3>2. QED
      BY <3>1 DEF ChunksTyped, SlotsAreExclusive, ChunksAreTheGroup
  <2>2. CASE PumpLooks \/ PumpWakes
    BY <2>2, ChunksStay DEF PumpLooks, PumpWakes
  <2>3. QED
    BY <2>1, <2>2
<1>5. QED
  BY <1>2, <1>3, <1>4 DEF PumpInv

\* A group is a sequence of the jobs of its side.
LEMMA GroupTyped ==
    ASSUME PumpInv, NEW which
    PROVE  Group(which) \in Seq(Jobs)
  BY AmongKeeps DEF PumpInv, CallsTyped, Group

\* Put together again, the chunks of a group are the group.
LEMMA GroupPutTogether ==
    ASSUME PumpInv, side # 0
    PROVE  FlattenSeq(JobsOf(chunks)) = Group(side)
<1>1. PICK n \in Nat \ {0} : JobsOf(chunks) = PlanChunks(Group(side), n)
  BY DEF PumpInv, ChunksAreTheGroup
<1> DEFINE g == Group(side)
<1>2. g \in Seq(Jobs)
  BY GroupTyped
<1> HIDE DEF g
<1>3. FlattenSeq(PlanChunks(g, n)) = g
  BY <1>2, ChunksAreTheBatch
<1>4. QED
  BY <1>1, <1>3 DEF g

AllAnswered == \A k \in DOMAIN chunks : chunks[k].at = "vectors"

\* What a group's callers are answered: each its own vector when every chunk
\* of it has answered, and none of them one otherwise.
LEMMA AnswersOfGroup ==
    ASSUME PumpInv, side # 0, NEW j \in ToSet(Group(side)), j \in Jobs
    PROVE  Answers[j] = IF AllAnswered THEN j ELSE None
<1> DEFINE asked == Group(side)
           given == IF AllAnswered THEN FlattenSeq(JobsOf(chunks)) ELSE <<>>
<1>1. Answers[j] = IF \E i \in DOMAIN given : asked[i] = j
                   THEN given[CHOOSE i \in DOMAIN given : asked[i] = j] ELSE None
  BY DEF Answers, AllAnswered, JobsOf
<1>2. CASE AllAnswered
  <2>1. given = asked
    BY <1>2, GroupPutTogether
  <2>2. PICK i \in DOMAIN asked : asked[i] = j
    BY DEF ToSet
  <2> HIDE DEF asked, given
  <2>3. QED
    BY <1>1, <1>2, <2>1, <2>2
<1>3. CASE ~ AllAnswered
  BY <1>1, <1>3
<1>4. QED
  BY <1>2, <1>3

\* The threads that are started for a group.
LEMMA NewChunks ==
    ASSUME PumpInv, NEW which \in 1..2, side' = which, batch' = batch,
           chunks' = [k \in DOMAIN PlanChunks(Group(which), SpreadSlots(which)) |->
                        Idle(PlanChunks(Group(which), SpreadSlots(which))[k])]
    PROVE  ChunksTyped' /\ SlotsAreExclusive' /\ ChunksAreTheGroup'
<1> DEFINE g == Group(which)
           n == SpreadSlots(which)
           P == PlanChunks(g, n)
<1>1. g \in Seq(Jobs) /\ n \in Nat \ {0}
  BY GroupTyped, PumpAssumption DEF SpreadSlots
<1>2. Group(side)' = g
  BY DEF Group
<1> HIDE DEF g, n
<1>3. P \in Seq(Seq(Jobs))
  BY <1>1, ChunksAreTheBatch
<1>4. chunks' = [k \in DOMAIN P |-> Idle(P[k])]
  BY DEF g, n
<1> DEFINE T == Seq(Jobs)
<1> HIDE DEF P, T
<1>5. P \in Seq(T)
  BY <1>3 DEF T
<1>6. ASSUME NEW k \in DOMAIN P
      PROVE  /\ Idle(P[k]) \in Chunk
             /\ Idle(P[k]).jobs = P[k] /\ Idle(P[k]).slot = 0 /\ Idle(P[k]).at = "lock"
  <2>1. P[k] \in Seq(Jobs)
    BY <1>5 DEF T
  <2>2. QED
    BY <2>1, PumpAssumption DEF Idle, Chunk, Places
<1>7. chunks' \in Seq(Chunk) /\ DOMAIN chunks' = DOMAIN P
  <2>1. DOMAIN P = 1..Len(P) /\ Len(P) \in Nat
    BY <1>5
  <2>2. chunks' \in [1..Len(P) -> Chunk]
    BY <1>4, <1>6, <2>1
  <2>3. QED
    BY <1>4, <2>1, <2>2, SeqDef
<1>8. \A k \in DOMAIN P : chunks'[k].jobs = P[k] /\ chunks'[k].slot = 0 /\ chunks'[k].at = "lock"
  BY <1>4, <1>6
<1>9. ChunksTyped' /\ SlotsAreExclusive'
  BY <1>7, <1>8 DEF ChunksTyped, SlotsAreExclusive
<1>10. JobsOf(chunks)' = P
  <2>1. P = [k \in DOMAIN P |-> P[k]]
    BY <1>5
  <2>2. QED
    BY <1>7, <1>8, <2>1 DEF JobsOf
<1>11. ChunksAreTheGroup'
  BY <1>1, <1>2, <1>10 DEF ChunksAreTheGroup, P
<1>12. QED
  BY <1>9, <1>11

LEMMA NextGroupStep ==
    ASSUME PumpInv, NextGroup
    PROVE  PumpInv'
<1> DEFINE done == IF side = 0 THEN {} ELSE ToSet(Group(side))
<1>1. UNCHANGED <<queue, last, said, found, onDisk, child, rankVars, deaths>>
  BY DEF NextGroup
<1>2. /\ call' = [j \in Jobs |-> IF j \in done THEN "answered" ELSE call[j]]
      /\ answer' = [j \in Jobs |-> IF j \in done THEN Answers[j] ELSE answer[j]]
  BY DEF NextGroup
<1>3. ASSUME NEW j \in Jobs PROVE answer'[j] \in {j, None}
  <2>1. CASE j \in done
    <3>1. side # 0 /\ j \in ToSet(Group(side))
      BY <2>1
    <3>2. Answers[j] \in {j, None}
      BY <3>1, AnswersOfGroup
    <3>3. answer'[j] = Answers[j]
      BY <1>2, <2>1
    <3>4. QED
      BY <3>2, <3>3
  <2>2. CASE j \notin done
    BY <1>2, <2>2 DEF PumpInv, AnswersAreOwn
  <2>3. QED
    BY <2>1, <2>2
<1>4. AnswersAreOwn'
  BY <1>3 DEF AnswersAreOwn
<1>5. RestTyped' /\ LogIsQuiet'
  BY <1>1 DEF rankVars, PumpInv, RestTyped, LogIsQuiet
<1>6. call' \in [Jobs -> {"idle", "waiting", "answered"}] /\ answer' \in [Jobs -> Jobs \cup {None}]
  <2> HIDE DEF done
  <2>1. DOMAIN answer' = Jobs /\ answer' = [j \in Jobs |-> answer'[j]]
    BY <1>2
  <2>2. answer' \in [Jobs -> Jobs \cup {None}]
    BY <1>3, <2>1
  <2>3. call' \in [Jobs -> {"idle", "waiting", "answered"}]
    BY <1>2 DEF PumpInv, CallsTyped
  <2>4. QED
    BY <2>2, <2>3
<1>7. CASE side = 2
  <2>1. pump' = "look" /\ batch' = <<>> /\ chunks' = <<>> /\ side' = 0
    BY <1>7 DEF NextGroup
  <2>2. CallsTyped'
    BY <1>1, <1>6, <2>1 DEF PumpInv, CallsTyped
  <2>3. ChunksTyped' /\ SlotsAreExclusive' /\ ChunksAreTheGroup'
    BY <2>1 DEF ChunksTyped, SlotsAreExclusive, ChunksAreTheGroup
  <2>4. QED
    BY <1>4, <1>5, <2>2, <2>3 DEF PumpInv
<1>8. CASE side # 2
  <2> DEFINE which == side + 1
  <2>1. which \in 1..2
    BY <1>8 DEF PumpInv, CallsTyped
  <2>2. /\ side' = which
        /\ chunks' = [k \in DOMAIN PlanChunks(Group(which), SpreadSlots(which)) |->
                        Idle(PlanChunks(Group(which), SpreadSlots(which))[k])]
        /\ UNCHANGED <<pump, batch>>
    BY <1>8, Zenon DEF NextGroup
  <2> HIDE DEF which
  <2>3. CallsTyped'
    BY <1>1, <1>6, <2>1, <2>2 DEF PumpInv, CallsTyped
  <2>4. ChunksTyped' /\ SlotsAreExclusive' /\ ChunksAreTheGroup'
    BY <2>1, <2>2, NewChunks
  <2>5. QED
    BY <1>4, <1>5, <2>3, <2>4 DEF PumpInv
<1>9. QED
  BY <1>7, <1>8

-----------------------------------------------------------------------------
(* The theorems.                                                           *)

LEMMA PumpStep ==
    ASSUME PumpInv, [Next]_vars
    PROVE  PumpInv'
<1>1. CASE Pump \/ PumpWakes
  BY <1>1, PumpTurns, NextGroupStep DEF Pump
<1>2. CASE Thread
  BY <1>2, LockStep, CheckStep, AnswerStep, FailStep DEF Thread
<1>3. CASE LookAgain \/ Install \/ \E j \in Jobs : Encode(j)
  BY <1>3, CallersStep
<1>4. CASE RankerDies \/ \E s \in 1..Slots : Die(s)
  BY <1>4, ChildrenStep
<1>5. CASE \E s \in Searches : Rerank(s) \/ Search(s) \/ RerankAnswers(s) \/ RerankFails(s)
  BY <1>5, SearchesStep
<1>6. CASE UNCHANGED vars
  <2>1. UNCHANGED <<pumpVars, callVars>> /\ UNCHANGED <<child, stage, ranker, deaths>>
    BY <1>6 DEF vars, rankVars
  <2>2. RestTyped'
    BY <2>1 DEF callVars, PumpInv, RestTyped
  <2>3. QED
    BY <2>1, <2>2, RestStep
<1>7. QED
  BY <1>1, <1>2, <1>3, <1>4, <1>5, <1>6 DEF Next

(* PumpInv holds at every point, for any texts, slots, searches and deaths *)
(* (PumpThread::run, encode_spread, encode_now).                           *)
THEOREM PumpInvariant == Spec => []PumpInv
<1>1. Init => PumpInv
  BY PumpStarts
<1>2. PumpInv /\ [Next]_vars => PumpInv'
  BY PumpStep
<1>3. QED
  BY <1>1, <1>2, PTL DEF Spec

(* One thread has a slot at a time, and one message is logged for each     *)
(* outage (poll_slots, encode_now).                                        *)
THEOREM SlotsAndLog == Spec => []Inv
<1>1. PumpInv => Inv
  BY PumpInvIsEnough
<1>2. QED
  BY <1>1, PumpInvariant, PTL

(* A caller is given the vector of its own text or none, for batches of    *)
(* any length cut over any number of slots (encode_spread, plan_chunks).   *)
THEOREM OwnAnswers == Spec => []AnswersAreOwn
<1>1. PumpInv => AnswersAreOwn
  BY DEF PumpInv
<1>2. QED
  BY <1>1, PumpInvariant, PTL

\* The callers that one step answers, having waited, are of one group.
AllOrNothingStep ==
  \A i, j \in Jobs : /\ call[i] = "waiting" /\ call'[i] = "answered"
                     /\ call[j] = "waiting" /\ call'[j] = "answered"
                     => (answer'[i] = None <=> answer'[j] = None)

LEMMA AnsweredTogether ==
    ASSUME PumpInv, [Next]_vars
    PROVE  AllOrNothingStep
<1>1. CASE NextGroup
  <2> DEFINE done == IF side = 0 THEN {} ELSE ToSet(Group(side))
  <2>1. /\ call' = [j \in Jobs |-> IF j \in done THEN "answered" ELSE call[j]]
        /\ answer' = [j \in Jobs |-> IF j \in done THEN Answers[j] ELSE answer[j]]
    BY <1>1 DEF NextGroup
  <2>2. ASSUME NEW j \in Jobs, call[j] = "waiting", call'[j] = "answered"
        PROVE  answer'[j] = None <=> ~ AllAnswered
    <3>1. j \in done
      BY <2>1, <2>2
    <3>2. side # 0 /\ j \in ToSet(Group(side))
      BY <3>1
    <3>3. Answers[j] = IF AllAnswered THEN j ELSE None
      BY <3>2, AnswersOfGroup
    <3>4. answer'[j] = Answers[j]
      BY <2>1, <3>1
    <3>5. j # None
      BY PumpAssumption
    <3>6. QED
      BY <3>3, <3>4, <3>5
  <2>3. QED
    BY <2>2 DEF AllOrNothingStep
<1>2. CASE \E j \in Jobs : Encode(j)
  <2>1. PICK j \in Jobs : Encode(j)
    BY <1>2
  <2>2. \A i \in Jobs : i # j => call'[i] = call[i]
    BY <2>1 DEF Encode, PumpInv, CallsTyped
  <2>3. call[j] = "idle"
    BY <2>1 DEF Encode
  <2>4. QED
    BY <2>2, <2>3 DEF AllOrNothingStep
<1>3. CASE UNCHANGED call
  BY <1>3 DEF AllOrNothingStep
<1>4. CASE ~ NextGroup /\ ~ \E j \in Jobs : Encode(j)
  <2>1. UNCHANGED call
    <3>1. CASE PumpLooks \/ PumpTakes \/ PumpWakes
      BY <3>1 DEF PumpLooks, PumpTakes, PumpWakes, callVars
    <3>2. CASE Thread
      BY <3>2 DEF Thread, Lock, Check, Answer, Fail, callVars
    <3>3. CASE LookAgain \/ Install \/ RankerDies \/ \E s \in 1..Slots : Die(s)
      BY <3>3 DEF LookAgain, Install, RankerDies, Die, callVars
    <3>4. CASE \E s \in Searches : Rerank(s) \/ Search(s) \/ RerankAnswers(s) \/ RerankFails(s)
      BY <3>4 DEF Rerank, Search, RerankAsks, RerankGivesUp, RerankAnswers, RerankFails, callVars
    <3>5. CASE UNCHANGED vars
      BY <3>5 DEF vars, callVars
    <3>6. QED
      BY <1>4, <3>1, <3>2, <3>3, <3>4, <3>5 DEF Next, Pump
  <2>2. QED
    BY <1>3, <2>1
<1>5. QED
  BY <1>1, <1>2, <1>4

(* The callers of one group have all a vector or none has, whichever of    *)
(* the chunks fail (encode_spread).                                        *)
THEOREM NoPartialAnswers == Spec => AllOrNothing
<1>1. PumpInv /\ [Next]_vars => [AllOrNothingStep]_vars
  BY AnsweredTogether
<1>2. QED
  BY <1>1, PumpInvariant, PTL DEF Spec, AllOrNothing, AllOrNothingStep
=============================================================================
