------------------------------- MODULE Recall -------------------------------
(***************************************************************************)
(* What a search hands back of a live set, before any ballot is fused:     *)
(* the include-first recall (recall.rs) and one ballot of a search         *)
(* (search.rs): the candidates scored one by one, the best `limit` kept,   *)
(* the paragraphs of the two cards put among them, the due claims put in   *)
(* front; and the match of two words.                                      *)
(*                                                                         *)
(* A claim is a number, its place in the live set.  How well it answers    *)
(* the question is its relevance, the same for all that touch it; trust,   *)
(* odds of recall and age, which order a recall's claims of one tier, are  *)
(* one number, its worth.                                                  *)
(***************************************************************************)
EXTENDS Integers, Sequences, FiniteSets, SequencesExt, FiniteSetsExt

CONSTANTS
  Places,         \* bound: claims in the live set, 1..n
  Worth,          \* claim -> its trust, its odds of recall and its age
  Trust, Recency, \* claim -> what its trust and its age add to a ballot's score
  Name,           \* claim -> its id, as a number
  Webs,           \* the link graphs: sets of pairs
  Letters,        \* what words are made of
  WordLen,        \* bound: letters of a word
  DEFAULT_LIMIT,  \* claims recalled when no limit is named, and the most
  TEXT_BUDGET,    \* the text an answer may carry; a long claim takes it all
  SHORT_EXACT     \* a query word shorter than this must match exactly

ASSUME RecallAssumption ==
  /\ Places \subseteq Nat
  /\ {WordLen, DEFAULT_LIMIT, TEXT_BUDGET, SHORT_EXACT} \subseteq Nat

VARIABLES
  pack,   \* the live set: what is due, closed, long, mail, who links whom, how relevant
  asking,    \* what is asked of it
  next,   \* the place the ballot looks at next
  best,   \* the candidates it keeps
  reply   \* the answer, a sequence

recallVars == <<pack, asking, next, best, reply>>

-----------------------------------------------------------------------------
(* record.rs: mail is served only by name; a claim whose window has closed *)
(* since the live set was read is served while its review is due.          *)
Remembered(p, c, kind) == IF kind = "any" THEN c \notin p.mail ELSE (c \in p.mail) = (kind = "mail")
Served(p, a) == {c \in Places : Remembered(p, c, a.kind) /\ (c \notin p.closed \/ c \in p.due)}

(* recall.rs, sort_atoms.                                                  *)
Precedes(p, c, d) ==
  IF (c \in p.due) # (d \in p.due) THEN c \in p.due
  ELSE IF Worth[c] # Worth[d] THEN Worth[c] > Worth[d]
  ELSE Name[c] < Name[d]
Sorted(p, claims) == SetToSortSeq(claims, LAMBDA c, d : Precedes(p, c, d))

TextSize(p, c) == IF c \in p.long THEN TEXT_BUDGET ELSE 1

(* Until the budget is spent, always keeping the first.                    *)
ApplyBudget(p, seq) ==
  LET Used(n) == FoldLeft(LAMBDA sum, c : sum + TextSize(p, c), 0, SubSeq(seq, 1, n))
      fits == {n \in 0..Len(seq) : n <= 1 \/ Used(n) <= TEXT_BUDGET}
  IN SubSeq(seq, 1, Max(fits))

NoLimit == 99
CapLimit(limit) == IF limit < 0 THEN 0 ELSE Min({limit, DEFAULT_LIMIT})
DueShare(cap) == Max({cap \div 4, 1})

Hinted(a) == a.cue
HasSeeds(a) == a.seeds # {} \/ Hinted(a)

ResolveSeeds(p, a, live) ==
  IF a.seeds # {} THEN a.seeds \cap live
  ELSE IF Hinted(a) THEN p.touches \cap live ELSE {}

LiveLinks(p, live, c) == {d \in live : <<c, d>> \in p.web}
Neighbours(p, live, seeds) == UNION {LiveLinks(p, live, c) : c \in seeds} \ seeds

(* With a cue, the due that touch it, and a share of the places.           *)
DueQueue(p, a, live, cap) ==
  LET due == {c \in live \cap p.due : Hinted(a) => c \in p.touches}
  IN IF HasSeeds(a) THEN ToSet(SubSeq(Sorted(p, due), 1, Min({DueShare(cap), Cardinality(due)}))) ELSE due

Picked(ranked, cap) ==
  FoldLeft(LAMBDA out, c : IF c \in ToSet(out) \/ Len(out) >= cap THEN out ELSE Append(out, c), <<>>, ranked)

RecallOf(p, a) ==
  LET cap   == CapLimit(a.limit)
      live  == Served(p, a)
      seeds == ResolveSeeds(p, a, live)
      due   == DueQueue(p, a, live, cap)
  IN IF cap = 0 THEN <<>>
     ELSE IF Cardinality(live) <= cap THEN ApplyBudget(p, Sorted(p, live))
     ELSE ApplyBudget(p, Picked(Sorted(p, due) \o Sorted(p, Neighbours(p, live, seeds)) \o Sorted(p, seeds), cap))

-----------------------------------------------------------------------------
(* search.rs: who is scored by which ballot, and the score: trust counts   *)
(* in every ballot, age in the lexical ones (unless the rank is by         *)
(* relevance), being due in the scan; the dense ballot needs a vector.     *)
Serves(p, a, c) == c \notin p.closed /\ Remembered(p, c, a.kind)

Scored(p, a, c) ==
  /\ Serves(p, a, c)
  /\ c \in p.touches
  /\ a.ballot = "dense" => c \in p.vectors

ScoreOf(p, a, c) ==
  10 + Trust[c]
     + (IF a.ballot # "dense" /\ ~a.relevance THEN Recency[c] ELSE 0)
     + (IF a.ballot = "scan" /\ c \in p.due THEN 20 ELSE 0)

(* A candidate beats another by score, then id, then place.                *)
Beats(p, a, c, d) ==
  IF ScoreOf(p, a, c) # ScoreOf(p, a, d) THEN ScoreOf(p, a, c) > ScoreOf(p, a, d)
  ELSE IF Name[c] # Name[d] THEN Name[c] < Name[d]
  ELSE c < d

\* Mutant: a candidate displaces the weakest when it scores as much.
OfferTies(p, a, kept, c) ==
  IF a.limit <= 0 \/ ~Scored(p, a, c) THEN kept
  ELSE IF Cardinality(kept) < a.limit THEN kept \cup {c}
  ELSE LET weakest == CHOOSE d \in kept : \A e \in kept \ {d} : Beats(p, a, e, d)
       IN IF ScoreOf(p, a, c) >= ScoreOf(p, a, weakest) THEN (kept \ {weakest}) \cup {c} ELSE kept

(* TopK.offer.                                                             *)
Offer(p, a, kept, c) ==
  IF a.limit <= 0 \/ ~Scored(p, a, c) THEN kept
  ELSE IF Cardinality(kept) < a.limit THEN kept \cup {c}
  ELSE LET weakest == CHOOSE d \in kept : \A e \in kept \ {d} : Beats(p, a, e, d)
       IN IF Beats(p, a, c, weakest) THEN (kept \ {weakest}) \cup {c} ELSE kept

(* A paragraph of a card scores as a claim of no age, and a little more.   *)
Card == 0
CardScore == 12
HitScore(p, a, h) == IF h = Card THEN CardScore ELSE ScoreOf(p, a, h)
HitBefore(p, a, g, h) ==   \* sort_hits: score, the field, the id
  IF HitScore(p, a, g) # HitScore(p, a, h) THEN HitScore(p, a, g) > HitScore(p, a, h)
  ELSE IF Card \in {g, h} THEN h = Card
  ELSE Beats(p, a, g, h)

Leading(seq, n) == SubSeq(seq, 1, Min({n, Len(seq)}))
Ballot(p, a, kept) ==
  Leading(SetToSortSeq(kept \cup a.cards, LAMBDA g, h : HitBefore(p, a, g, h)), Max({a.limit, 0}))

(* due_hits and front_due.                                                 *)
DueHits(p) ==
  SetToSortSeq({c \in p.due : c \notin p.closed \cup p.mail},
    LAMBDA c, d : Worth[c] > Worth[d] \/ (Worth[c] = Worth[d] /\ Name[c] < Name[d]))

FrontDue(due, ranked, limit) ==
  LET room  == IF ranked = <<>> THEN limit ELSE (limit + 1) \div 2
      front == Leading(due, room)
      rest  == SelectSeq(ranked, LAMBDA h : h \notin ToSet(due))
  IN IF limit <= 0 THEN <<>> ELSE Leading(front \o rest \o SubSeq(due, room + 1, Len(due)), limit)

-----------------------------------------------------------------------------
(* edits: by position in words of one length; else by skipping in the      *)
(* longer one, at most once.                                               *)
EditsApart(short, long) ==
  IF Len(long) - Len(short) > 1 THEN 2
  ELSE IF Len(long) = Len(short) THEN Cardinality({i \in 1..Len(short) : short[i] # long[i]})
  ELSE LET walk == FoldLeft(LAMBDA w, letter :   \* how far in the shorter, and what was skipped
                     IF w.i <= Len(short) /\ w.skipped <= 1 THEN
                       IF short[w.i] = letter THEN [w EXCEPT !.i = @ + 1] ELSE [w EXCEPT !.skipped = @ + 1]
                     ELSE [w EXCEPT !.skipped = @ + 1], [i |-> 1, skipped |-> 0], long)
       IN walk.skipped

TokenScore(query, hay) ==
  CASE query = <<>> \/ hay = <<>>   -> 0
    [] hay = query                  -> 40
    [] Len(query) < SHORT_EXACT     -> 0
    [] IsPrefix(query, hay)         -> 30
    [] \E i \in 1..Len(hay) : IsPrefix(query, SubSeq(hay, i, Len(hay))) -> 20
    [] (IF Len(query) <= Len(hay) THEN EditsApart(query, hay) ELSE EditsApart(hay, query)) <= 1 -> 15
    [] OTHER -> 0

-----------------------------------------------------------------------------
NoReply == <<-1>>
NoAsk == [kind |-> "any", limit |-> 0, seeds |-> {}, cue |-> FALSE, ballot |-> "none",
         relevance |-> FALSE, cards |-> {}]

Packs ==
  [due : SUBSET Places, closed : {{}, {1}}, long : {{}, {2}}, mail : {{}, {3}}, web : Webs,
   touches : SUBSET Places, vectors : {Places \ {1}}]

Bare(p) == p.due = {} /\ p.touches = {} /\ p.closed = {} /\ p.long = {} /\ p.mail = {} /\ p.web = {}

RecallInit ==
  /\ pack \in Packs
  /\ asking = NoAsk /\ next = 1 /\ best = {} /\ reply = NoReply

RecallLimits == {-1, 1, 2, NoLimit}

(* GET /v1/recall.                                                         *)
AskRecall ==
  /\ asking = NoAsk
  /\ \E seeds \in {{}, {1}, {2, 4}}, cue \in BOOLEAN, limit \in RecallLimits, kind \in {"any", "mail"} :
       /\ (limit = -1 => seeds = {} /\ ~cue) /\ (kind = "mail" => pack.mail # {})
       /\ asking' = [NoAsk EXCEPT !.seeds = seeds, !.cue = cue, !.limit = limit, !.kind = kind, !.ballot = "recall"]
  /\ reply' = RecallOf(pack, asking')
  /\ UNCHANGED <<pack, next, best>>

(* A ballot of GET /v1/search, place by place; it reads neither the length *)
(* of a claim nor its links.                                               *)
AskBallot ==
  /\ asking = NoAsk /\ pack.long = {} /\ pack.web = {}
  /\ \E ballot \in {"scan", "bm25", "dense"}, relevance \in BOOLEAN, limit \in {1, 2}, cards \in {{}, {Card}} :
       /\ ballot = "dense" => ~relevance /\ cards = {}
       /\ asking' = [NoAsk EXCEPT !.ballot = ballot, !.relevance = relevance, !.limit = limit, !.cards = cards]
  /\ UNCHANGED <<pack, next, best, reply>>

Balloting == asking.ballot \in {"scan", "bm25", "dense"} /\ reply = NoReply

ScoreNext ==
  /\ Balloting /\ next \in Places
  /\ best' = Offer(pack, asking, best, next)
  /\ next' = next + 1
  /\ UNCHANGED <<pack, asking, reply>>

CutBallot ==
  /\ Balloting /\ next \notin Places
  /\ reply' = Ballot(pack, asking, best)
  /\ UNCHANGED <<pack, asking, next, best>>

(* One word of a question against one of a text.                           *)
AskMatch ==
  /\ asking = NoAsk /\ Bare(pack)
  /\ \E query, hay \in BoundedSeq(Letters, WordLen) : reply' = <<query, hay, TokenScore(query, hay)>>
  /\ asking' = [NoAsk EXCEPT !.ballot = "match"]
  /\ UNCHANGED <<pack, next, best>>

RecallNext == AskMatch \/ AskRecall \/ AskBallot \/ ScoreNext \/ CutBallot

-----------------------------------------------------------------------------
Answered(ballots) == asking.ballot \in ballots /\ reply # NoReply

(* A recall is within its limit, names no claim twice, and is the whole    *)
(* live set while that fits (recall.rs: "While the pack is small the whole *)
(* thing is the answer").                                                  *)
SmallPackIsWhole ==
  Answered({"recall"}) =>
    /\ Len(reply) <= CapLimit(asking.limit) /\ IsInjective(reply)
    /\ Cardinality(Served(pack, asking)) <= CapLimit(asking.limit) /\ pack.long = {} =>
         ToSet(reply) = Served(pack, asking)

(* With room for two, a cue that something live answers to is answered,    *)
(* however much is due and whatever else it is: the claims outside its     *)
(* neighbourhood take their share and no more, unless one is so long that  *)
(* it spends the text (recall.rs: "a recall that spent its whole budget on *)
(* them answered no cue at all").                                          *)
CueIsAnswered ==
  Answered({"recall"}) /\ HasSeeds(asking) =>
    LET live  == Served(pack, asking)
        seeds == ResolveSeeds(pack, asking, live)
        near  == seeds \cup Neighbours(pack, live, seeds)
    IN Cardinality(live) > CapLimit(asking.limit) =>
         /\ Cardinality(ToSet(reply) \ near) <= DueShare(CapLimit(asking.limit))
         /\ CapLimit(asking.limit) > 1 /\ near # {} /\ pack.long = {} => ToSet(reply) \cap near # {}

(* A ballot that keeps `limit` candidates as they come is the whole live   *)
(* set sorted and cut, the cards among it (search.rs: "Order matches       *)
(* `sort_hits`"), so no claim is lost to the order the pack is stored in.  *)
TopIsTheSortedTop ==
  Answered({"scan", "bm25", "dense"}) =>
    reply = Ballot(pack, asking, {c \in Places : Scored(pack, asking, c)})

(* The due take half of a window that has anything ranked to show, all of  *)
(* it when nothing is, and no place is left empty that either could fill   *)
(* (search.rs, front_due).                                                 *)
DueLeavesRoom ==
  Answered({"scan"}) /\ asking.cards = {} =>
    LET due   == DueHits(pack)
        front == FrontDue(due, reply, asking.limit)
        both  == ToSet(due) \cup ToSet(reply)
        only  == ToSet(due) \ ToSet(reply)
    IN /\ IsInjective(front) /\ Len(front) = Min({asking.limit, Cardinality(both)})
       /\ Cardinality(ToSet(front) \cap only) > (asking.limit + 1) \div 2 => ToSet(reply) \ ToSet(due) \subseteq ToSet(front)

(* A word that is not in another answers it exactly when one letter put    *)
(* in, taken out or replaced makes them one, though the code only counts   *)
(* positions and skips; and a short one only when it is the same.          *)
OneEdit(v, w) ==
  \/ Len(v) = Len(w) /\ \E i \in 1..Len(v) : [v EXCEPT ![i] = w[i]] = w
  \/ \E i \in 1..Len(w) : v = RemoveAt(w, i)
  \/ \E i \in 1..Len(v) : w = RemoveAt(v, i)

MatchIsOneEdit ==
  Answered({"match"}) =>
    LET query == reply[1]
        hay   == reply[2]
        within == \E i, j \in 1..Len(hay) : query = SubSeq(hay, i, j)
    IN reply[3] > 0 <=> /\ query # <<>> /\ hay # <<>>
                        /\ query = hay \/ (Len(query) >= SHORT_EXACT /\ (within \/ OneEdit(query, hay)))

(* What a search or a recall hands back, whatever order the live set is    *)
(* stored in and however much of it is due.                                *)
RecallInv ==
  /\ SmallPackIsWhole
  /\ CueIsAnswered
  /\ TopIsTheSortedTop
  /\ DueLeavesRoom
  /\ MatchIsOneEdit
=============================================================================
