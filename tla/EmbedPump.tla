----------------------------- MODULE EmbedPump -----------------------------
(***************************************************************************)
(* The dense encoder as the writer uses it (packsetd/embed.rs): callers    *)
(* put texts on a queue and wait; one pump thread takes the queue, sends   *)
(* the questions and then the documents of it as a batch each, spread over *)
(* a pool of kept child processes, and answers every caller.  Beside it,   *)
(* the cross-encoder, one child that a search waits a moment for.          *)
(*                                                                         *)
(* A vector is the job it was made for.  Children die at any time, at most *)
(* MaxDeaths of them, and starting one may fail.  A hang is a child that   *)
(* neither answers nor dies: no fairness is assumed of the cross-encoder,  *)
(* and the dense ones answer or die.                                       *)
(***************************************************************************)
EXTENDS Integers, FiniteSets, SequencesExt, Filter

CONSTANTS
  Questions, Documents,  \* the calls of encode, by side
  Slots,                 \* PACKSET_EMBED_QUERY_WORKERS: children of the pool
  Searches,              \* the searches that ask for the second stage
  MaxDeaths,             \* bound: children that die
  Installs               \* whether the binary may come after the writer starts

Jobs  == Questions \cup Documents
Sides == <<Questions, Documents>>   \* dispatch: the questions go first
None  == "none"

ASSUME PumpAssumption ==
  /\ Questions \cap Documents = {}
  /\ None \notin Jobs
  /\ Slots \in Nat \ {0}
  /\ MaxDeaths \in Nat
  /\ Installs \in BOOLEAN

VARIABLES
  call,    \* job -> "idle", "waiting" or "answered"
  answer,  \* job -> the job its vector was made for, or None
  queue,   \* PENDING
  pump,    \* "look", "asleep", "nap" or "group"
  batch,   \* what the pump took
  side,    \* which of Sides it is sending: 0 before the first
  chunks,  \* the chunks of that group, each with a thread of its own
  child,   \* slot -> "none", "alive" or "dead"
  last,    \* LAST_DENSE
  said,    \* times an outage was logged since the last answer
  found,   \* the kept discovery: "unasked", "missed" or "found"
  onDisk,  \* whether there is a binary to find
  stage,   \* search -> "idle", "waiting", "asked", "again", "scored", "without"
  ranker,  \* the cross-encoder: "none", "alive" or "dead"
  deaths

pumpVars  == <<queue, pump, batch, side, chunks, last, said>>
callVars  == <<call, answer, found, onDisk>>
rankVars  == <<stage, ranker>>
vars      == <<pumpVars, callVars, child, rankVars, deaths>>

-----------------------------------------------------------------------------
(* A batch in at most `slots` contiguous chunks, the first ones longer by  *)
(* one where it does not divide.                                           *)
\* Mutant: the start of a chunk is not moved on.
PlanChunksFromOne(jobs, slots) ==
  LET parts == IF Len(jobs) < slots THEN Len(jobs) ELSE slots
  IN [i \in 1..parts |-> SubSeq(jobs, 1, Len(jobs) \div parts)]

PlanChunks(jobs, slots) ==
  LET parts == IF Len(jobs) < slots THEN Len(jobs) ELSE slots
      base  == Len(jobs) \div parts
      extra == Len(jobs) % parts
      Before(i) == (i - 1) * base + (IF i - 1 < extra THEN i - 1 ELSE extra)
  IN [i \in 1..parts |-> SubSeq(jobs, Before(i) + 1, Before(i + 1))]

QuestionsPending == ToSet(queue) \cap Questions

(* Documents leave a slot free while a question waits.                     *)
SpreadSlots(which) ==
  IF which = 2 /\ Slots > 1 /\ QuestionsPending # {} THEN Slots - 1 ELSE Slots

-----------------------------------------------------------------------------
(* The callers.  A miss is kept for a while; what was found is for good.   *)
Encode(j) ==
  /\ call[j] = "idle"
  /\ found' = IF found = "unasked" THEN IF onDisk THEN "found" ELSE "missed" ELSE found
  /\ IF found' = "found"
     THEN /\ call' = [call EXCEPT ![j] = "waiting"]
          /\ queue' = Append(queue, j)
          /\ pump' = IF pump = "asleep" THEN "look" ELSE pump   \* notify_one
     ELSE /\ call' = [call EXCEPT ![j] = "answered"]
          /\ UNCHANGED <<queue, pump>>
  /\ UNCHANGED <<answer, onDisk, batch, side, chunks, last, said, child, rankVars, deaths>>

LookAgain ==
  /\ found = "missed"
  /\ found' = "unasked"
  /\ UNCHANGED <<call, answer, onDisk, pumpVars, child, rankVars, deaths>>

Install ==
  /\ Installs /\ ~onDisk
  /\ onDisk' = TRUE
  /\ UNCHANGED <<call, answer, found, pumpVars, child, rankVars, deaths>>

-----------------------------------------------------------------------------
(* The pump.                                                               *)
\* Mutant: it waits for a notification before it looks at the queue.
PumpWaits ==
  /\ pump = "look"
  /\ pump' = "asleep"
  /\ UNCHANGED <<queue, batch, side, chunks, last, said, callVars, child, rankVars, deaths>>

PumpLooks ==
  /\ pump = "look"
  /\ pump' = IF queue = <<>> THEN "asleep" ELSE "nap"
  /\ UNCHANGED <<queue, batch, side, chunks, last, said, callVars, child, rankVars, deaths>>

(* The condition variable may wake with nothing on the queue; a wait that  *)
(* looks again is safe from it.                                            *)
PumpWakes ==
  /\ pump = "asleep"
  /\ pump' = "look"
  /\ UNCHANGED <<queue, batch, side, chunks, last, said, callVars, child, rankVars, deaths>>

PumpTakes ==
  /\ pump = "nap"
  /\ pump' = "group"
  /\ batch' = queue
  /\ queue' = <<>>
  /\ side' = 0
  /\ chunks' = <<>>
  /\ UNCHANGED <<last, said, callVars, child, rankVars, deaths>>

Idle(jobs) == [jobs |-> jobs, slot |-> 0, at |-> "lock", tries |-> 0]

Group(which) == Among(batch, Sides[which])

Ended == \A k \in DOMAIN chunks : chunks[k].at \in {"vectors", "failed"}

(* encode_spread: a chunk that fails fails the batch.                      *)
\* Mutant: the chunks that answered are kept.
AnswersPartly == [j \in Jobs |->
  IF \E k \in DOMAIN chunks : j \in ToSet(chunks[k].jobs) /\ chunks[k].at = "vectors"
  THEN j ELSE None]

Answers ==
  LET asked == IF side = 0 THEN <<>> ELSE Group(side)
      given == IF \A k \in DOMAIN chunks : chunks[k].at = "vectors"
               THEN FlattenSeq([k \in DOMAIN chunks |-> chunks[k].jobs]) ELSE <<>>
  IN [j \in Jobs |->
        IF \E i \in DOMAIN given : asked[i] = j
        THEN given[CHOOSE i \in DOMAIN given : asked[i] = j] ELSE None]

(* The threads of a group are joined, its callers are answered, and the    *)
(* next group is spread over the slots.                                    *)
NextGroup ==
  /\ pump = "group"
  /\ Ended
  /\ LET done == IF side = 0 THEN {} ELSE ToSet(Group(side))
         given == Answers
         next == side + 1
         plan == PlanChunks(Group(next), SpreadSlots(next))
     IN /\ call' = [j \in Jobs |-> IF j \in done THEN "answered" ELSE call[j]]
        /\ answer' = [j \in Jobs |-> IF j \in done THEN given[j] ELSE answer[j]]
        /\ IF side = 2
           THEN /\ pump' = "look"
                /\ batch' = <<>> /\ chunks' = <<>> /\ side' = 0
           ELSE /\ side' = next
                /\ chunks' = [k \in DOMAIN plan |-> Idle(plan[k])]
                /\ UNCHANGED <<pump, batch>>
  /\ UNCHANGED <<queue, last, said, found, onDisk, child, rankVars, deaths>>

-----------------------------------------------------------------------------
(* One thread encoding one chunk (encode_now).                             *)
Held == {chunks[k].slot : k \in DOMAIN chunks} \ {0}

\* Mutant: the first slot, as query_slot gives when none is free.
LockFirst(k) ==
  /\ chunks[k].at = "lock"
  /\ chunks' = [chunks EXCEPT ![k].at = "check", ![k].slot = 1]
  /\ UNCHANGED <<queue, pump, batch, side, last, said, callVars, child, rankVars, deaths>>

(* poll_slots: the first free one.                                         *)
Lock(k) ==
  /\ chunks[k].at = "lock"
  /\ 1..Slots \ Held # {}
  /\ chunks' = [chunks EXCEPT ![k].at = "check",
                              ![k].slot = CHOOSE s \in 1..Slots \ Held :
                                            \A t \in 1..Slots \ Held : s <= t]
  /\ UNCHANGED <<queue, pump, batch, side, last, said, callVars, child, rankVars, deaths>>

(* An outage is said once; the next answer ends it.                        *)
Say == IF last # "did_not" THEN said + 1 ELSE said

GiveUp(k) ==
  /\ chunks' = [chunks EXCEPT ![k].at = "failed", ![k].slot = 0]
  /\ last' = "did_not"
  /\ said' = Say

(* A child that is not there is started, which may fail.                   *)
Check(k) ==
  /\ chunks[k].at = "check"
  /\ LET s == chunks[k].slot
     IN \/ /\ child[s] = "alive" \/ onDisk
           /\ child' = [child EXCEPT ![s] = "alive"]
           /\ chunks' = [chunks EXCEPT ![k].at = "asked"]
           /\ UNCHANGED <<last, said>>
        \/ /\ child[s] # "alive"
           /\ child' = [child EXCEPT ![s] = "none"]
           /\ GiveUp(k)
  /\ UNCHANGED <<queue, pump, batch, side, callVars, rankVars, deaths>>

Answer(k) ==
  /\ chunks[k].at = "asked"
  /\ child[chunks[k].slot] = "alive"
  /\ chunks' = [chunks EXCEPT ![k].at = "vectors", ![k].slot = 0]
  /\ last' = "answered"
  /\ said' = 0
  /\ UNCHANGED <<queue, pump, batch, side, callVars, child, rankVars, deaths>>

(* A child that died under the question is replaced and asked once more.   *)
Fail(k) ==
  /\ chunks[k].at = "asked"
  /\ child[chunks[k].slot] = "dead"
  /\ child' = [child EXCEPT ![chunks[k].slot] = "none"]
  /\ IF chunks[k].tries = 0
     THEN /\ chunks' = [chunks EXCEPT ![k].at = "check", ![k].tries = 1]
          /\ UNCHANGED <<last, said>>
     ELSE GiveUp(k)
  /\ UNCHANGED <<queue, pump, batch, side, callVars, rankVars, deaths>>

(* A child stops: killed for memory, or a text its model fails on.         *)
Die(s) ==
  /\ child[s] = "alive"
  /\ deaths < MaxDeaths
  /\ deaths' = deaths + 1
  /\ child' = [child EXCEPT ![s] = "dead"]
  /\ UNCHANGED <<pumpVars, callVars, rankVars>>

-----------------------------------------------------------------------------
(* The second stage: one child, one question at a time.                    *)
Holding == {s \in Searches : stage[s] \in {"asked", "again"}}

Rerank(s) ==
  /\ stage[s] = "idle"
  /\ found = "found"   \* else the stage is absent
  /\ stage' = [stage EXCEPT ![s] = "waiting"]
  /\ UNCHANGED <<pumpVars, callVars, child, ranker, deaths>>

(* The slot is free: a child that is not there is started, or cannot be.   *)
RerankAsks(s) ==
  /\ stage[s] = "waiting" /\ Holding = {}
  /\ \/ /\ stage' = [stage EXCEPT ![s] = "asked"]
        /\ ranker = "alive" \/ onDisk
        /\ ranker' = "alive"
     \/ /\ ranker # "alive"
        /\ stage' = [stage EXCEPT ![s] = "without"]
        /\ ranker' = "none"
  /\ UNCHANGED <<pumpVars, callVars, child, deaths>>

(* RERANK_WAIT is over and the slot is held.                               *)
\* Mutant: the wait ends only when the child of the holder is gone.
RerankQueues(s) ==
  /\ stage[s] = "waiting" /\ Holding # {} /\ ranker = "dead"
  /\ stage' = [stage EXCEPT ![s] = "without"]
  /\ UNCHANGED <<pumpVars, callVars, child, ranker, deaths>>

RerankGivesUp(s) ==
  /\ stage[s] = "waiting" /\ Holding # {}
  /\ stage' = [stage EXCEPT ![s] = "without"]
  /\ UNCHANGED <<pumpVars, callVars, child, ranker, deaths>>

RerankAnswers(s) ==
  /\ s \in Holding /\ ranker = "alive"
  /\ stage' = [stage EXCEPT ![s] = "scored"]
  /\ UNCHANGED <<pumpVars, callVars, child, ranker, deaths>>

RerankFails(s) ==
  /\ s \in Holding /\ ranker = "dead"
  /\ \/ /\ stage[s] = "asked"
        /\ stage' = [stage EXCEPT ![s] = "again"]
        /\ ranker' = "alive"
     \/ /\ stage' = [stage EXCEPT ![s] = "without"]
        /\ ranker' = "none"
  /\ UNCHANGED <<pumpVars, callVars, child, deaths>>

RankerDies ==
  /\ ranker = "alive"
  /\ deaths < MaxDeaths
  /\ deaths' = deaths + 1
  /\ ranker' = "dead"
  /\ UNCHANGED <<pumpVars, callVars, child, stage>>

-----------------------------------------------------------------------------
Init ==
  /\ call = [j \in Jobs |-> "idle"]
  /\ answer = [j \in Jobs |-> None]
  /\ queue = <<>> /\ pump = "look" /\ batch = <<>> /\ side = 0 /\ chunks = <<>>
  /\ child = [s \in 1..Slots |-> "none"]
  /\ last = "unasked" /\ said = 0
  /\ found = "unasked" /\ onDisk \in {TRUE, ~Installs}
  /\ stage = [s \in Searches |-> "idle"]
  /\ ranker = "none"
  /\ deaths = 0

Pump   == PumpLooks \/ PumpTakes \/ NextGroup
Thread == \E k \in DOMAIN chunks : Lock(k) \/ Check(k) \/ Answer(k) \/ Fail(k)
Search(s) == RerankAsks(s) \/ RerankGivesUp(s)

Next ==
  \/ Pump \/ PumpWakes \/ Thread
  \/ LookAgain \/ Install
  \/ \E j \in Jobs : Encode(j)
  \/ \E s \in 1..Slots : Die(s)
  \/ \E s \in Searches : Rerank(s) \/ Search(s) \/ RerankAnswers(s) \/ RerankFails(s)
  \/ RankerDies

(* The pump and its threads run, a dense child answers or dies, and the    *)
(* wait for the cross-encoder ends.  Nobody need call, wake without cause, *)
(* die, or answer as the cross-encoder.                                    *)
Spec ==
  /\ Init /\ [][Next]_vars
  /\ WF_vars(Pump) /\ WF_vars(Thread)
  /\ \A s \in Searches : WF_vars(Search(s))

-----------------------------------------------------------------------------
TypeOK ==
  /\ call \in [Jobs -> {"idle", "waiting", "answered"}]
  /\ answer \in [Jobs -> Jobs \cup {None}]
  /\ pump \in {"look", "asleep", "nap", "group"}
  /\ ToSet(queue) \cup ToSet(batch) \subseteq Jobs
  /\ side \in 0..2
  /\ \A k \in DOMAIN chunks :
       /\ ToSet(chunks[k].jobs) \subseteq Jobs
       /\ chunks[k].slot \in 0..Slots
       /\ chunks[k].at \in {"lock", "check", "asked", "vectors", "failed"}
       /\ chunks[k].tries \in 0..1
       /\ chunks[k].at \in {"check", "asked"} <=> chunks[k].slot # 0
  /\ child \in [1..Slots -> {"none", "alive", "dead"}]
  /\ last \in {"unasked", "answered", "did_not"} /\ said \in Nat
  /\ found \in {"unasked", "missed", "found"} /\ onDisk \in BOOLEAN
  /\ stage \in [Searches -> {"idle", "waiting", "asked", "again", "scored", "without"}]
  /\ ranker \in {"none", "alive", "dead"} /\ deaths \in 0..MaxDeaths

(* A caller is given the vector of its own text or none, however the       *)
(* batches were cut, spread and put together again (encode_spread: "one    *)
(* chunk per free slot at once, reassembled in order").                    *)
AnswersAreOwn == \A j \in Jobs : answer[j] \in {j, None}

(* The callers of one group have all a vector or none has: a partial       *)
(* answer would thin the panel (encode_spread).                            *)
AllOrNothing ==
  [][\A i, j \in Jobs : /\ call[i] = "waiting" /\ call'[i] = "answered"
                        /\ call[j] = "waiting" /\ call'[j] = "answered"
                        => (answer'[i] = None <=> answer'[j] = None)]_vars

(* Of the chunks that fail in one outage, one says it (encode_now: "Say it *)
(* once per outage; the next encode that answers ends the outage").        *)
SaidOnce == said <= 1

(* A slot has one thread at a time.                                        *)
SlotsAreExclusive ==
  \A k, l \in DOMAIN chunks : chunks[k].slot # 0 /\ chunks[k].slot = chunks[l].slot => k = l

(* What holds of the slots at every point: one thread in each, and one     *)
(* message per outage.                                                     *)
Inv ==
  /\ TypeOK
  /\ SlotsAreExclusive
  /\ SaidOnce

(* Whoever asks is answered, with children dying and wakes coming at any   *)
(* point: no text is lost between two batches.                             *)
EveryCallerAnswered == \A j \in Jobs : call[j] = "waiting" ~> call[j] = "answered"

(* A search waits a moment for the cross-encoder, however long the one     *)
(* before it is held (rerank: "rather than queue behind every other        *)
(* search").                                                               *)
NoSearchQueues == \A s \in Searches : stage[s] = "waiting" ~> stage[s] # "waiting"

=============================================================================
