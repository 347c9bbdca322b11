---------------------------- MODULE ProposalLog ----------------------------
(***************************************************************************)
(* The file one workspace's proposals are in (proposals.rs), with the      *)
(* threads that mine, hold and accept over it.  AtomLife has of a proposal *)
(* its last record; here is the file that record is read from.             *)
(*                                                                         *)
(* A record is appended by two writes, its text and the end of its line.   *)
(* A hold and an accept have the `writes` mutex; a miner has none, so a    *)
(* record can be written into a line another has not ended, and a line     *)
(* with two records in it does not parse.  Claims are only added: what     *)
(* withdraws them is AtomLife's.                                           *)
(***************************************************************************)
EXTENDS Integers, FiniteSets, SequencesExt, FiniteSetsExt

CONSTANTS
  Mineable,   \* claims
  Unfit,      \* those too short to propose, and dumps of a tool
  Alike,      \* pairs of claims of which one contains the other
  Gap,        \* a blank line, or nothing
  Transcripts, \* what may have been said: claims, or nothing
  Clerks,     \* threads that serve requests
  DayLen,     \* bound: lines of an archived day
  MaxIds,     \* bound: proposals filed
  MaxLog,     \* bound: writes to the file
  MaxStops    \* bound: how often the process stops

ASSUME ProposalLogAssumption ==
  /\ Unfit \subseteq Mineable /\ Gap \notin Mineable \cup Clerks /\ Transcripts \subseteq Mineable \cup {Gap}
  /\ \A pair \in Alike : pair \subseteq Mineable
  /\ {DayLen, MaxIds, MaxLog, MaxStops} \subseteq Nat

VARIABLES
  log,       \* the file: records and ends of lines, in the order written
  kept,      \* the claims that are stored
  labelled,  \* those whose atom carries a warning
  writing,   \* the thread that has the `writes` mutex, or Gap
  clerk,     \* thread -> what it is doing
  told,      \* the proposals an answer named, and the ids it said were accepted
  clean,     \* no record was written into another's line, and no stop left one open
  stops

logVars == <<log, kept, labelled, writing, clerk, told, clean, stops>>

-----------------------------------------------------------------------------
EndOfLine == [id |-> 0, claim |-> Gap, held |-> FALSE, verdict |-> "NEI", status |-> "end"]
Records   ==
  [id : 0..MaxIds, claim : Mineable \cup {Gap}, held : BOOLEAN,
   verdict : {"SUPPORTED", "NEI"}, status : {"open", "accepted", "end"}]
AtRest    == [pc |-> "rest", todo |-> <<>>, filed |-> {}, rec |-> EndOfLine]

(* What is read back of the file: the records alone on their line, the     *)
(* last of an id its answer.                                               *)
Readable(i) ==
  /\ log[i] # EndOfLine
  /\ i > 1 => log[i - 1] = EndOfLine
  /\ i < Len(log) => log[i + 1] = EndOfLine
ReadOf(id) == {i \in 1..Len(log) : log[i].id = id /\ Readable(i)}

\* Mutant: the first record of an id is its answer.
LatestFirst(id) == log[Min(ReadOf(id))]

Latest(id) == log[Max(ReadOf(id))]
ListOpen == {id \in 1..MaxIds : ReadOf(id) # {} /\ Latest(id).status = "open"}
Marked   == {id \in 1..MaxIds : ReadOf(id) # {} /\ Latest(id).status = "accepted"}

(* entries: the paragraphs of a day, each by the place of its first line.  *)
Entries(day) == {i \in 1..Len(day) : day[i] # Gap /\ (i = 1 \/ day[i - 1] = Gap)}

Same(c, d)       == c = d \/ {c, d} \in Alike
Fenced(c, wall)  == \E w \in wall : Same(c, w)
Fence            == kept   \* what the live atoms say; the cards are not in the model
Verdict(c, said) == IF said # Gap /\ Same(c, said) THEN "SUPPORTED" ELSE "NEI"

NewId == Cardinality({log[i].id : i \in 1..Len(log)} \ {0}) + 1
MidLine(t) == clerk[t].pc \in {"mined", "hold_end", "mark_end"}

GoTo(t, step)       == clerk' = [clerk EXCEPT ![t].pc = step]
Carries(t, step, r) == clerk' = [clerk EXCEPT ![t].pc = step, ![t].rec = r]
Rests(t)            == clerk' = [clerk EXCEPT ![t] = AtRest]

(* append, its first write and its second.                                 *)
Writes(t, rec) ==
  /\ Len(log) < MaxLog
  /\ log' = Append(log, rec)
  /\ clean' = (clean /\ \A u \in Clerks \ {t} : ~MidLine(u))
EndsLine == log' = Append(log, EndOfLine)

-----------------------------------------------------------------------------
(* Mining a day, or one text: what is stored or too little to say when it  *)
(* begins is passed over, and the answer names what was filed.             *)
Proposable(day) ==
  {i \in Entries(day) : day[i] \notin Unfit /\ ~Fenced(day[i], Fence)}

InTurn(places) ==
  {turn \in [1..Cardinality(places) -> places] : \A m, n \in DOMAIN turn : m < n => turn[m] < turn[n]}

Proposed(c, said) ==
  [id |-> 0, claim |-> c, held |-> FALSE, verdict |-> Verdict(c, said), status |-> "open"]

Mine(t) ==
  /\ clerk[t].pc = "rest"
  /\ \E day \in BoundedSeq(Mineable \cup {Gap}, DayLen), said \in Transcripts :
       /\ Proposable(day) # {}
       /\ \E turn \in InTurn(Proposable(day)) :
            clerk' = [clerk EXCEPT ![t].pc = "mine",
                                   ![t].todo = [n \in DOMAIN turn |-> Proposed(day[turn[n]], said)]]
  /\ UNCHANGED <<log, kept, labelled, writing, told, clean, stops>>

FileMined(t) ==
  LET rec == [Head(clerk[t].todo) EXCEPT !.id = NewId]
  IN /\ clerk[t].pc = "mine" /\ NewId <= MaxIds
     /\ Writes(t, rec) /\ Carries(t, "mined", rec)
     /\ UNCHANGED <<kept, labelled, writing, told, stops>>

EndMined(t) ==
  /\ clerk[t].pc = "mined"
  /\ EndsLine
  /\ LET filed == clerk[t].filed \cup {clerk[t].rec.id}
         rest  == Tail(clerk[t].todo)
     IN IF rest = <<>> THEN Rests(t) /\ told' = told \cup (filed \X {"open"})
        ELSE told' = told /\ clerk' = [clerk EXCEPT ![t] = [AtRest EXCEPT !.pc = "mine", !.todo = rest, !.filed = filed]]
  /\ UNCHANGED <<kept, labelled, writing, clean, stops>>

-----------------------------------------------------------------------------
(* A write that must wait for a person, or one that need not.              *)
TakeMutex(t) ==
  /\ clerk[t].pc = "rest" /\ writing = Gap
  /\ writing' = t
  /\ \/ \E c \in Mineable, step \in {"hold", "store"} : Carries(t, step, [EndOfLine EXCEPT !.claim = c])
     \/ \E id \in 1..MaxIds : Carries(t, "accept", [EndOfLine EXCEPT !.id = id])
  /\ UNCHANGED <<log, kept, labelled, told, clean, stops>>

StoreClaim(t) ==
  /\ clerk[t].pc = "store"
  /\ kept' = kept \cup {clerk[t].rec.claim}
  /\ writing' = Gap /\ Rests(t)
  /\ UNCHANGED <<log, labelled, told, clean, stops>>

(* hold: the open proposal that is this write, or a new one.               *)
HoldLooks(t) ==
  LET held == {id \in ListOpen : Latest(id).held /\ Latest(id).claim = clerk[t].rec.claim}
  IN /\ clerk[t].pc = "hold"
     /\ IF held = {} THEN GoTo(t, "hold_file") /\ UNCHANGED <<writing, told>>
        ELSE Rests(t) /\ writing' = Gap /\ told' = told \cup (held \X {"open"})
     /\ UNCHANGED <<log, kept, labelled, clean, stops>>

HoldFiles(t) ==
  LET rec == [id |-> NewId, claim |-> clerk[t].rec.claim, held |-> TRUE, verdict |-> "SUPPORTED", status |-> "open"]
  IN /\ clerk[t].pc = "hold_file" /\ NewId <= MaxIds
     /\ Writes(t, rec) /\ Carries(t, "hold_end", rec)
     /\ UNCHANGED <<kept, labelled, writing, told, stops>>

EndHeld(t) ==
  /\ clerk[t].pc = "hold_end"
  /\ EndsLine /\ Rests(t) /\ writing' = Gap
  /\ told' = told \cup {<<clerk[t].rec.id, "open">>}
  /\ UNCHANGED <<kept, labelled, clean, stops>>

(* accept: a retry is answered with the atom; an open proposal is stored,  *)
(* then marked; any other id is refused.                                   *)
AcceptLooks(t) ==
  LET id == clerk[t].rec.id
  IN /\ clerk[t].pc = "accept"
     /\ IF id \in Marked THEN Rests(t) /\ writing' = Gap ELSE GoTo(t, "accept_open") /\ writing' = writing
     /\ UNCHANGED <<log, kept, labelled, told, clean, stops>>

AcceptStores(t) ==
  LET id == clerk[t].rec.id
  IN /\ clerk[t].pc = "accept_open"
     /\ IF id \in ListOpen
        THEN /\ Carries(t, "mark", [Latest(id) EXCEPT !.status = "accepted"])
             /\ kept' = kept \cup {Latest(id).claim}
             /\ labelled' = IF Latest(id).verdict = "SUPPORTED" THEN labelled ELSE labelled \cup {Latest(id).claim}
             /\ writing' = writing
        ELSE Rests(t) /\ writing' = Gap /\ UNCHANGED <<kept, labelled>>
     /\ UNCHANGED <<log, told, clean, stops>>

MarkFiles(t) ==
  /\ clerk[t].pc = "mark"
  /\ Writes(t, clerk[t].rec) /\ GoTo(t, "mark_end")
  /\ UNCHANGED <<kept, labelled, writing, told, stops>>

EndMark(t) ==
  /\ clerk[t].pc = "mark_end"
  /\ EndsLine /\ Rests(t) /\ writing' = Gap
  /\ told' = told \cup {<<clerk[t].rec.id, "accepted">>}
  /\ UNCHANGED <<kept, labelled, clean, stops>>

(* The process stops; what was written stays.                              *)
Stop ==
  /\ stops < MaxStops /\ \E t \in Clerks : clerk[t].pc # "rest"
  /\ clerk' = [t \in Clerks |-> AtRest] /\ writing' = Gap /\ stops' = stops + 1
  /\ clean' = (clean /\ \A t \in Clerks : ~MidLine(t))
  /\ UNCHANGED <<log, kept, labelled, told>>

-----------------------------------------------------------------------------
LogInit ==
  /\ log = <<>> /\ kept = {} /\ labelled = {} /\ writing = Gap /\ told = {} /\ clean = TRUE /\ stops = 0
  /\ clerk = [t \in Clerks |-> AtRest]

LogNext ==
  \/ \E t \in Clerks :
       \/ Mine(t) \/ FileMined(t) \/ EndMined(t)
       \/ TakeMutex(t) \/ StoreClaim(t) \/ HoldLooks(t) \/ HoldFiles(t) \/ EndHeld(t)
       \/ AcceptLooks(t) \/ AcceptStores(t) \/ MarkFiles(t) \/ EndMark(t)
  \/ Stop

LogSpec == LogInit /\ [][LogNext]_logVars

-----------------------------------------------------------------------------
(* What a clerk does with the mutex, and without.                          *)
WriterSteps == {"store", "hold", "hold_file", "hold_end", "accept", "accept_open", "mark", "mark_end"}
MinerSteps  == {"mine", "mined"}

ClerkStates ==
  [pc : {"rest"} \cup WriterSteps \cup MinerSteps, todo : Seq(Records),
   filed : SUBSET (1..MaxIds), rec : Records]

LogTypeOK ==
  /\ log \in Seq(Records)
  /\ clerk \in [Clerks -> ClerkStates] /\ writing \in Clerks \cup {Gap}
  /\ told \subseteq (1..MaxIds) \X {"open", "accepted"}
  /\ clean \in BOOLEAN /\ stops \in Nat

OneWriter == \A t \in Clerks : clerk[t].pc \in WriterSteps => writing = t

(* No stop left a line open.                                               *)
Unbroken == clean \/ stops = 0

(* A line open at the end of the file has somebody to end it; while the    *)
(* records come one at a time each has its line to itself.                 *)
LastLine ==
  /\ Unbroken /\ log # <<>> /\ log[Len(log)] # EndOfLine =>
       \E t \in Clerks : MidLine(t) /\ clerk[t].rec = log[Len(log)]
  /\ clean =>
       /\ \A i \in 1..Len(log) : log[i] # EndOfLine => Readable(i)
       /\ \A t, u \in Clerks : MidLine(t) /\ MidLine(u) => t = u
       /\ \A t \in Clerks : MidLine(t) => log # <<>> /\ log[Len(log)] = clerk[t].rec

(* The ids are given in turn, and of an id the first record alone is open. *)
IdsOnFile == {log[i].id : i \in 1..Len(log)} \ {0}

SaysTheSame(r, q) == r.id = q.id /\ r.claim = q.claim /\ r.held = q.held /\ r.verdict = q.verdict

RecordsInTurn ==
  /\ \E n \in 0..MaxIds : IdsOnFile = 1..n
  /\ \A i \in 1..Len(log) : log[i] # EndOfLine => log[i].id # 0 /\ log[i].status \in {"open", "accepted"}
  /\ \A i, j \in 1..Len(log) :
       log[i].id = log[j].id /\ log[i].id # 0 =>
         SaysTheSame(log[i], log[j]) /\ (i < j => log[j].status = "accepted")

(* A claim that is stored, with its warning when the transcript does not   *)
(* carry it.                                                               *)
IsStored(r) == r.claim \in kept /\ (r.verdict # "SUPPORTED" => r.claim \in labelled)

OpenHeld(c) == {id \in ListOpen : Latest(id).held /\ Latest(id).claim = c}

(* What a clerk has in hand: a miner, claims that no hold made; a hold, a  *)
(* write that does not wait; a mark, a proposal that was accepted, which   *)
(* no other waits for.                                                     *)
InHand(t) ==
  LET c == clerk[t]
      ByMiner(r) == ~r.held /\ r.status = "open"
  IN /\ c.filed \subseteq IdsOnFile
     /\ c.pc \in MinerSteps => c.todo # <<>> /\ \A n \in 1..Len(c.todo) : ByMiner(c.todo[n])
     /\ c.pc = "mined" => ByMiner(c.rec)
     /\ c.pc = "hold_end" => c.rec.status = "open"
     /\ c.pc \in {"mined", "hold_end"} => c.rec.id \in IdsOnFile
     /\ Unbroken /\ c.pc = "hold_file" => OpenHeld(c.rec.claim) = {}
     /\ c.pc \in {"mark", "mark_end"} =>
          /\ c.rec.status = "accepted" /\ IsStored(c.rec) /\ c.rec.id # 0
          /\ \E i \in 1..Len(log) : SaysTheSame(log[i], c.rec)
          /\ Unbroken /\ c.rec.held => OpenHeld(c.rec.claim) \subseteq {c.rec.id}
     /\ c.pc = "mark_end" => \E i \in 1..Len(log) : log[i] = c.rec

(* What was accepted is stored, and what was answered is on file.          *)
OnFile ==
  /\ \A i \in 1..Len(log) : log[i].status = "accepted" => IsStored(log[i])
  /\ \A said \in told :
       /\ said[1] \in IdsOnFile
       /\ said[2] = "accepted" =>
            \E i \in 1..Len(log) : log[i].id = said[1] /\ log[i].status = "accepted"

(* One write waits as one open proposal, whatever a miner writes beside it *)
(* (proposals.rs, hold: "The same write again returns the open proposal"), *)
(* until a stop leaves a line open: a mark that a stop left at the end of  *)
(* the file is lost to the next record, its proposal is open again, and    *)
(* the same write may have been held anew before that.                     *)
HeldWaitsOnce ==
  Unbroken =>
    \A p, q \in ListOpen :
      p # q /\ Latest(p).held /\ Latest(q).held => Latest(p).claim # Latest(q).claim

(* What reads as accepted is stored, with its warning when the transcript  *)
(* does not carry it, wherever the process stopped.                        *)
MarkedIsStored == \A id \in Marked : IsStored(Latest(id))

(* While records were written one at a time, what an answer said of a      *)
(* proposal is what the file says, then and later.                         *)
ToldIsRead ==
  clean => \A said \in told : IF said[2] = "accepted" THEN said[1] \in Marked ELSE said[1] \in Marked \cup ListOpen

(* What holds of the file at every point: a write waits once, what reads   *)
(* as accepted is stored, and what was answered can be read.  It is        *)
(* inductive.                                                              *)
LogInv ==
  /\ LogTypeOK
  /\ OneWriter
  /\ LastLine
  /\ RecordsInTurn
  /\ \A t \in Clerks : InHand(t)
  /\ OnFile
  /\ HeldWaitsOnce
  /\ MarkedIsStored
  /\ ToldIsRead

(* What an answer named can be read back ("The file is append-only, so     *)
(* accepting one leaves both records and the later status is the answer.   *)
(* The history stays readable.").  It does not hold: a miner's record and  *)
(* another's can share a line.                                             *)
HistoryStaysReadable == \A said \in told : ReadOf(said[1]) # {}
=============================================================================
