------------------------------- MODULE Fusion -------------------------------
(***************************************************************************)
(* A search's ranked lists made into one answer: nine voters (borda.rs,    *)
(* dowdall.rs, rrf.rs, comb.rs, copeland.rs, schulze.rs, tideman.rs,       *)
(* kemeny.rs), the decay and the two diversifiers after them (panel.rs,    *)
(* decay.rs, mmr.rs, dpp.rs), the merge (search.rs) and the second stage   *)
(* of a search (service.rs, embed.rs).                                     *)
(*                                                                         *)
(* A hit is its number in the order the ballots first name them, since no  *)
(* voter reads anything else of it.  Scores are exact, over a common       *)
(* denominator, where the code adds floats.  What a scorer makes of a      *)
(* record is left open: a ballot is any list no longer than it was asked   *)
(* for.  Two texts hold the same words or share none.                      *)
(***************************************************************************)
EXTENDS Integers, FiniteSets, SequencesExt

CONSTANTS
  Candidates,   \* bound: the hits the ballots of one search name
  MaxBallots,   \* bound: three of [scan, BM25, encoder], [cards, index, BM25]
  Limits,       \* what a caller may ask for
  RERANK_DEPTH,
  EXACT_MAX,    \* the most candidates Kemeny is searched for
  Twins,        \* pairs of hits whose texts hold the same words
  Seated,       \* the voters whose order is taken on to an answer
  Olds          \* the sets of hits long written that are looked at

ASSUME FusionAssumption ==
  /\ Candidates \in 1..4 /\ {MaxBallots, RERANK_DEPTH, EXACT_MAX} \subseteq Nat
  /\ Limits \subseteq 1..4 /\ Olds \subseteq SUBSET (1..Candidates)
  /\ \A pair \in Twins : pair \subseteq 1..Candidates /\ Cardinality(pair) = 2

VARIABLES
  ask,      \* what the search was asked: how many hits, and a second stage or not
  ballots,  \* the lists so far: each its hits in order, and whether they score alike
  answer    \* what the search said, or how far it is

fusionVars == <<ask, ballots, answer>>

Hits == 1..Candidates
On(i, ballot)  == i \in ToSet(ballot.hits)
Pos(i, ballot) == CHOOSE p \in DOMAIN ballot.hits : ballot.hits[p] = i

SeenIn(bs) == UNION {ToSet(bs[b].hits) : b \in DOMAIN bs}
Count(bs)  == Cardinality(SeenIn(bs))

-----------------------------------------------------------------------------
(* The voters that add up a score.  A sort is stable, so a tie keeps the   *)
(* order the hits were first seen in.                                      *)

\* Mutant: a sort that is not stable.
ByScoreUnstable(score) ==
  SortSeq([i \in DOMAIN score |-> i],
          LAMBDA i, j : score[i] > score[j] \/ (score[i] = score[j] /\ i > j))

ByScore(score) ==
  SortSeq([i \in DOMAIN score |-> i],
          LAMBDA i, j : score[i] > score[j] \/ (score[i] = score[j] /\ i < j))

Total(bs, Points(_, _)) ==
  [i \in 1..Count(bs) |->
     FoldLeft(LAMBDA sum, b : sum + IF On(i, b) THEN Points(i, b) ELSE 0, 0, bs)]

Borda(bs, k)   == ByScore(Total(bs, LAMBDA i, b : k - (Pos(i, b) - 1)))
Dowdall(bs)    == ByScore(Total(bs, LAMBDA i, b : 12 \div Pos(i, b)))

RRF_K0 == 60
Rrf(bs)        == ByScore(Total(bs, LAMBDA i, b : (61 * 62 * 63 * 64) \div (RRF_K0 + Pos(i, b))))

(* The place of a score between the list's least and its greatest, in      *)
(* sixths; a list that scores alike gives everyone the whole.  Scores are  *)
(* evenly apart where they are apart.                                      *)
Norm(i, b) ==
  LET n == Len(b.hits)
  IN IF b.flat \/ n = 1 THEN 6 ELSE (6 * (n - Pos(i, b))) \div (n - 1)

Support(i, bs) == Cardinality({b \in DOMAIN bs : On(i, bs[b])})

CombSum(bs) == ByScore(Total(bs, Norm))
CombMnz(bs) ==
  LET sum == Total(bs, Norm) IN ByScore([i \in DOMAIN sum |-> sum[i] * Support(i, bs)])

-----------------------------------------------------------------------------
(* F of x; TLC works out x once, where a LET would do it at every use.     *)
Once(x, F(_)) == CHOOSE y \in {F(z) : z \in {x}} : TRUE

(* The voters that compare in pairs: how many ballots have i above j.  A   *)
(* hit a ballot leaves out is below every hit it has.                      *)
Above(bs) ==
  [i, j \in 1..Count(bs) |->
     Cardinality({b \in DOMAIN bs :
       i # j /\ On(i, bs[b]) /\ (On(j, bs[b]) => Pos(i, bs[b]) < Pos(j, bs[b]))})]

Margin(d, i, j) == d[i, j] - d[j, i]

Copeland(bs) ==
  Once(Above(bs), LAMBDA d :
    ByScore([i \in 1..Count(bs) |-> Cardinality({j \in 1..Count(bs) : Margin(d, i, j) > 0})
                                   - Cardinality({j \in 1..Count(bs) : Margin(d, i, j) < 0})]))

Least(a, b) == IF a < b THEN a ELSE b
Most(a, b)  == IF a > b THEN a ELSE b

(* The strongest path between each two, in ballots.                        *)
Widest(direct, n) ==
  FoldLeft(LAMBDA p, mid :
             [i, j \in 1..n |-> IF i = j \/ i = mid \/ j = mid THEN p[i, j]
                               ELSE Most(p[i, j], Least(p[i, mid], p[mid, j]))],
           direct, [m \in 1..n |-> m])

Beatpaths(bs) ==
  Once(Above(bs), LAMBDA d :
    Widest([i, j \in 1..Count(bs) |-> IF Margin(d, i, j) > 0 THEN d[i, j] ELSE 0], Count(bs)))

\* Mutant: ordered by what each beats directly.
SchulzeDirect(bs) ==
  Once(Above(bs), LAMBDA d :
    ByScore([i \in 1..Count(bs) |-> Cardinality({j \in 1..Count(bs) : Margin(d, i, j) > 0})]))

Schulze(bs) ==
  Once(Beatpaths(bs), LAMBDA p :
    ByScore([i \in 1..Count(bs) |-> Cardinality({j \in 1..Count(bs) : p[i, j] > p[j, i]})]))

(* Ranked pairs: the victories by margin, then by votes.                   *)
Victories(d, n) ==
  LET All == [k \in 1..(n * n) |-> [winner |-> ((k - 1) \div n) + 1, loser |-> ((k - 1) % n) + 1]]
      Won == SelectSeq(All, LAMBDA v : Margin(d, v.winner, v.loser) > 0)
      M(v) == Margin(d, v.winner, v.loser)
      W(v) == d[v.winner, v.loser]
  IN SortSeq(Won, LAMBDA u, v :
       \/ M(u) > M(v)
       \/ M(u) = M(v) /\ W(u) > W(v)
       \/ M(u) = M(v) /\ W(u) = W(v) /\ u.winner < v.winner
       \/ M(u) = M(v) /\ W(u) = W(v) /\ u.winner = v.winner /\ u.loser < v.loser)

(* Everything a candidate reaches over what is locked.                     *)
Reached(locked, from, n) ==
  FoldLeft(LAMBDA seen, step : seen \cup {e[2] : e \in {x \in locked : x[1] \in seen}},
           {from}, [s \in 1..n |-> s])

Locked(d, n) ==
  FoldLeft(LAMBDA locked, v :
             IF v.winner \in Reached(locked, v.loser, n) THEN locked
             ELSE locked \cup {<<v.winner, v.loser>>},
           {}, Victories(d, n))

(* Who nothing left is over, in the order first seen; a cycle ends it.     *)
TopoFirstSeen(locked, n) ==
  FoldLeft(LAMBDA ranked, step :
             LET rest == (1..n) \ ToSet(ranked)
                 free == {i \in rest : \A j \in rest : <<j, i>> \notin locked}
             IN IF free = {} THEN ranked
                ELSE Append(ranked, CHOOSE i \in free : \A j \in free : i <= j),
           <<>>, [s \in 1..n |-> s])

Tideman(bs) ==
  Once(Above(bs), LAMBDA d : TopoFirstSeen(Locked(d, Count(bs)), Count(bs)))

(* The order the ballots disagree least with; the first of equals.         *)
Orders ==
  [n \in 0..Candidates |-> {o \in [1..n -> 1..n] : \A a, b \in 1..n : o[a] = o[b] => a = b}]

Earlier(o, q) ==
  \E k \in DOMAIN o : o[k] < q[k] /\ \A m \in 1..(k - 1) : o[m] = q[m]

KendallCost(o, d) ==
  Cardinality({t \in (DOMAIN o) \X (DOMAIN o) \X (1..MaxBallots) :
                 t[1] < t[2] /\ t[3] <= d[o[t[2]], o[t[1]]]})

Cheapest(cost, n) ==
  LET least == CHOOSE c \in {cost[o] : o \in Orders[n]} : \A o \in Orders[n] : c <= cost[o]
      best  == {o \in Orders[n] : cost[o] = least}
  IN CHOOSE o \in best : \A q \in best : o = q \/ Earlier(o, q)

Kemeny(bs, k) ==
  IF Count(bs) > EXACT_MAX THEN Borda(bs, k)
  ELSE Once(Above(bs), LAMBDA d :
         Cheapest([o \in Orders[Count(bs)] |-> KendallCost(o, d)], Count(bs)))

Voters == {"borda", "dowdall", "rrf", "combsum", "combmnz", "copeland", "schulze", "tideman",
           "kemeny"}

Fused(voter, bs, k) ==
  CASE voter = "borda" -> Borda(bs, k)
    [] voter = "dowdall" -> Dowdall(bs)
    [] voter = "rrf" -> Rrf(bs)
    [] voter = "combsum" -> CombSum(bs)
    [] voter = "combmnz" -> CombMnz(bs)
    [] voter = "copeland" -> Copeland(bs)
    [] voter = "schulze" -> Schulze(bs)
    [] voter = "tideman" -> Tideman(bs)
    [] voter = "kemeny" -> Kemeny(bs, k)

-----------------------------------------------------------------------------
(* After the vote a hit weighs its place, less what its age takes: in      *)
(* quarters, since an old one keeps at least a quarter (and here just      *)
(* that).                                                                  *)
Weighed(ranked, old) ==
  [i \in ToSet(ranked) |->
     (Len(ranked) + 1 - (CHOOSE p \in DOMAIN ranked : ranked[p] = i)) * IF i \in old THEN 1 ELSE 4]

Resorted(ranked, weight) ==
  LET At(i) == CHOOSE p \in DOMAIN ranked : ranked[p] = i
  IN SortSeq(ranked, LAMBDA i, j : weight[i] > weight[j]
                                     \/ (weight[i] = weight[j] /\ At(i) < At(j)))

Alike(i, chosen) == \E j \in chosen : {i, j} \in Twins

(* One pick after another, the first of the best; Gain is what each would  *)
(* add to those chosen.                                                    *)
GreedyPick(items, Gain(_, _)) ==
  FoldLeft(LAMBDA chosen, step :
             LET rest == SelectSeq(items, LAMBDA i : i \notin ToSet(chosen))
                 best == CHOOSE p \in DOMAIN rest :
                           /\ \A q \in DOMAIN rest : Gain(rest[q], ToSet(chosen)) <= Gain(rest[p], ToSet(chosen))
                           /\ \A q \in 1..(p - 1) : Gain(rest[q], ToSet(chosen)) < Gain(rest[p], ToSet(chosen))
             IN Append(chosen, rest[best]),
           <<>>, items)

(* Seven tenths the weight between the least and the greatest, three       *)
(* tenths the likeness to the nearest chosen.                              *)
Mmr(items, weight) ==
  LET all  == {weight[i] : i \in ToSet(items)}
      low  == CHOOSE w \in all : \A v \in all : w <= v
      high == CHOOSE w \in all : \A v \in all : v <= w
      span == Most(high - low, 1)
  IN IF Len(items) < 2 THEN items
     ELSE GreedyPick(items, LAMBDA i, chosen :
            7 * (weight[i] - low) - IF Alike(i, chosen) THEN 3 * span ELSE 0)

(* The determinant of the chosen and one more: nothing once two are alike, *)
(* else the product of their squared weights, so the added one's decides.  *)
Dpp(items, weight) ==
  IF Len(items) < 2 THEN items
  ELSE GreedyPick(items, LAMBDA i, chosen :
         IF Alike(i, chosen) \/ \E j \in chosen : Alike(j, chosen) THEN 0 ELSE weight[i])

Diversified(how, items, weight) ==
  CASE how = "mmr" -> Mmr(items, weight)
    [] how = "dpp" -> Dpp(items, weight)
    [] how = "none" -> items

Taken(s, k) == SubSeq(s, 1, Least(k, Len(s)))

MergeBallots(bs, limit, voter, how, old, relevance) ==
  Once(Fused(voter, bs, limit), LAMBDA fused :
    Once(Weighed(fused, IF relevance THEN {} ELSE old), LAMBDA weight :
      Once(Diversified(how, IF relevance THEN fused ELSE Resorted(fused, weight), weight),
        LAMBDA order :
          Taken([p \in DOMAIN order |-> [hit |-> order[p], ballots |-> Support(order[p], bs),
                                        of |-> Len(bs)]], limit))))

-----------------------------------------------------------------------------
(* One search.                                                             *)

\* Mutant: the first stage returns what the caller asked for, and no more.
FirstLimitAsked(a) == a.limit

FirstLimit(a) == IF a.rerank THEN Most(a.limit, RERANK_DEPTH) ELSE a.limit

Ballots(k) ==
  {s \in UNION {[1..n -> Hits] : n \in 0..Least(k, Candidates)} :
     \A p, q \in DOMAIN s : s[p] = s[q] => p = q}

(* Hits are numbered as they are first seen.                               *)
FirstSeenInOrder(s, known) ==
  \A p \in DOMAIN s : s[p] > known => \A i \in (known + 1)..(s[p] - 1) : i \in ToSet(SubSeq(s, 1, p))

Voting == [stage |-> "voting", hits |-> <<>>, scored |-> 0]

Cast ==
  /\ ask.limit > 0 /\ answer = Voting /\ Len(ballots) < MaxBallots
  /\ \E s \in Ballots(FirstLimit(ask)), flat \in BOOLEAN :
       /\ FirstSeenInOrder(s, Count(ballots))
       /\ flat => Len(s) = 2  \* bound: a longer list scores its hits apart
       /\ ballots' = Append(ballots, [hits |-> s, flat |-> flat])
  /\ UNCHANGED <<ask, answer>>

Merge(voter, how, old, relevance) ==
  /\ answer = Voting /\ Len(ballots) >= 2
  /\ answer' = [stage |-> "first", scored |-> 0,
                hits |-> MergeBallots(ballots, FirstLimit(ask), voter, how, old, relevance)]
  /\ UNCHANGED <<ask, ballots>>

FirstStage == answer.stage = "first"

(* A hit the model did not score keeps its place behind those it did.      *)
Rerank ==
  LET depth == Least(RERANK_DEPTH, Len(answer.hits))
      Moved(order) == [p \in DOMAIN answer.hits |->
                         IF p <= depth THEN answer.hits[order[p]] ELSE answer.hits[p]]
  IN /\ FirstStage /\ ask.rerank /\ Len(answer.hits) > 1
     /\ \E order \in Orders[depth] :
          answer' = [stage |-> "cross-encoder", hits |-> Taken(Moved(order), ask.limit), scored |-> depth]
     /\ UNCHANGED <<ask, ballots>>

NoRerank ==
  /\ FirstStage
  /\ answer' = [answer EXCEPT !.hits = Taken(@, ask.limit),
                              !.stage = IF ~ask.rerank THEN "off"
                                        ELSE IF Len(answer.hits) > 1 THEN "absent"
                                        ELSE IF Len(answer.hits) = 1 THEN "settled" ELSE "off"]
  /\ UNCHANGED <<ask, ballots>>

Asked(limit, rerank) ==
  /\ ask.limit = 0 /\ ask' = [limit |-> limit, rerank |-> rerank]
  /\ UNCHANGED <<ballots, answer>>

FusionInit ==
  /\ ask = [limit |-> 0, rerank |-> FALSE]
  /\ ballots = <<>> /\ answer = Voting

FusionNext ==
  \/ \E limit \in Limits, rerank \in BOOLEAN : Asked(limit, rerank)
  \/ Cast
  \/ \E voter \in Seated, how \in {"mmr", "dpp", "none"}, old \in Olds, relevance \in BOOLEAN :
       Merge(voter, how, old, relevance)
  \/ Rerank
  \/ NoRerank

-----------------------------------------------------------------------------
Before(order, i, j) ==
  \E p, q \in DOMAIN order : order[p] = i /\ order[q] = j /\ p < q

(* Whichever voter sits, whichever diversifier follows, an answer names    *)
(* each hit once and as many as were asked for or found; it says truly how *)
(* many of the ballots named each; and the second stage read its whole     *)
(* depth of the first, also where the caller asked for less.               *)
AnswerIsWhole ==
  answer.stage # "voting" =>
    LET hits == answer.hits
        limit == IF answer.stage = "first" THEN FirstLimit(ask) ELSE ask.limit
    IN /\ Len(hits) = Least(limit, Count(ballots))
       /\ \A p, q \in DOMAIN hits : hits[p].hit = hits[q].hit => p = q
       /\ \A p \in DOMAIN hits : hits[p].ballots = Support(hits[p].hit, ballots)
                                   /\ hits[p].ballots \in 1..hits[p].of
       /\ answer.stage = "cross-encoder" => answer.scored = Least(RERANK_DEPTH, Count(ballots))
       /\ answer.stage = "settled" => Count(ballots) = 1

(* One list is merged with none.  A second stage is after the vote.        *)
Votable == answer = Voting /\ Len(ballots) >= 2 /\ ~ask.rerank

(* A hit that every ballot puts over another, wherever it has the other,   *)
(* comes before it with every voter, and still does when the ages are      *)
(* weighed, unless it is the older of the two.                             *)
Over(i, j) ==
  i # j /\ \A b \in DOMAIN ballots :
             On(j, ballots[b]) => On(i, ballots[b]) /\ Pos(i, ballots[b]) < Pos(j, ballots[b])

DominatorsLead ==
  Votable =>
    \E over \in {{e \in (1..Count(ballots)) \X (1..Count(ballots)) : Over(e[1], e[2])}} :
      \A voter \in Voters : \E fused \in {Fused(voter, ballots, FirstLimit(ask))} :
        /\ \A e \in over : Before(fused, e[1], e[2])
        /\ \A old \in Olds : \E aged \in {Resorted(fused, Weighed(fused, old))} :
             \A e \in over : (e[1] \in old => e[2] \in old) => Before(aged, e[1], e[2])

(* A hit that more ballots than not put over each of the others, one by    *)
(* one, leads with every voter that compares in pairs.                     *)
CondorcetFirst(d) ==
  \A i \in 1..Count(ballots) :
    (\A j \in (1..Count(ballots)) \ {i} : Margin(d, i, j) > 0)
    => \A order \in {Copeland(ballots), Schulze(ballots), Tideman(ballots)}
                     \cup {Kemeny(ballots, FirstLimit(ask)) : n \in {Count(ballots)} \cap (1..EXACT_MAX)} :
         order[1] = i

(* Schulze's order is never against a stronger path, and ranked pairs goes *)
(* against a victory only along a path of victories no smaller             *)
(* (schulze.rs: "it never contradicts the relation"; tideman.rs).          *)
PathsAreKept(d) ==
  LET All == 1..Count(ballots)
  IN \E p \in {Beatpaths(ballots)}, schulze \in {Schulze(ballots)}, tideman \in {Tideman(ballots)},
        m \in {Widest([i, j \in All |-> Most(Margin(d, i, j), 0)], Count(ballots))} :
       \A i, j \in All :
         /\ p[i, j] > p[j, i] => Before(schulze, i, j)
         /\ Margin(d, i, j) > 0 /\ Before(tideman, j, i) => m[j, i] >= Margin(d, i, j)

CondorcetLeads ==
  Votable =>
    \E d \in {Above(ballots)} : CondorcetFirst(d) /\ PathsAreKept(d)

=============================================================================
