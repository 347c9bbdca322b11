------------------------------ MODULE Islands -------------------------------
(***************************************************************************)
(* The islands of a workspace (island.rs): what the links between its live *)
(* claims come apart into.  The communities are found twice, by greedy     *)
(* modularity and by label propagation; each island has a signature of its *)
(* shape; and a cue spreads from its seeds along the links.                *)
(*                                                                         *)
(* One node's turn, one aggregation, one round of labels and one hop is a  *)
(* step.  Weights are whole, in some unit; a gain is compared times the    *)
(* weight of all links, which is exact where the code has floats and an    *)
(* epsilon.                                                                *)
(***************************************************************************)
EXTENDS Integers, FiniteSets, SequencesExt

CONSTANTS
  N,         \* bound: the live claims, numbered as the live set has them
  Weights,
  MaxLinks,  \* bound: the links there are
  PROPAGATION_ROUNDS,
  WL_ROUNDS,
  Energy,    \* what a seed starts with, in units a hop divides
  Seeds      \* bound: the sets of claims a cue finds first

ASSUME IslandsAssumption ==
  /\ {N, MaxLinks, PROPAGATION_ROUNDS, WL_ROUNDS, Energy} \subseteq Nat
  /\ Weights \subseteq Nat \ {0} /\ Seeds \subseteq SUBSET (1..N)

VARIABLES
  wire,       \* the weight of each link, 0 where there is none
  phase,      \* "linking", "moving", "labels", "cue", "over"
  adjacency,  \* the level's graph: the weight from each node into each, itself too
  degree,     \* of each node of the level
  members,    \* the claims each node of the level stands for
  community,  \* where each node of the level is
  turn,       \* whose turn it is; past the last, the sweep is over
  moved,      \* [sweep, level]: whether a node moved in either
  label,
  round,
  active,     \* the energy at each claim since the cue
  frontier    \* and what the last hop brought

graphVars    == <<wire>>
louvainVars  == <<adjacency, degree, members, community, turn, moved>>
labelVars    == <<label, round>>
cueVars      == <<active, frontier>>
islandsVars  == <<wire, phase, adjacency, degree, members, community, turn, moved, label, round,
                  active, frontier>>

Nodes == 1..N
Pairs == {pair \in SUBSET Nodes : Cardinality(pair) = 2}

Weight(i, j) == IF i = j THEN 0 ELSE wire[{i, j}]
Peers(i)     == {j \in Nodes \ {i} : Weight(i, j) > 0}
Larger(a, b) == IF a > b THEN a ELSE b

SumOver(S, F(_)) == MapThenSumSet(F, S)

-----------------------------------------------------------------------------
(* A claim links another; both may carry a weight, and the heavier one is  *)
(* the link's.                                                             *)
Link(i, j, weight) ==
  /\ phase = "linking" /\ i # j
  /\ wire[{i, j}] = 0 => Cardinality({pair \in Pairs : wire[pair] > 0}) < MaxLinks
  /\ wire' = [wire EXCEPT ![{i, j}] = Larger(@, weight)]
  /\ UNCHANGED <<phase, louvainVars, labelVars, cueVars>>

-----------------------------------------------------------------------------
(* Greedy modularity.  Twice the weight of a level's links, where a        *)
(* community's inner weight is a loop at its node.                         *)
Size == Len(members)
M2   == SumOver(1..Size, LAMBDA i : degree[i])

Near(i, c) == {j \in 1..Size \ {i} : community[j] = c}
Into(i, c) == SumOver(Near(i, c), LAMBDA j : adjacency[i, j])

\* Mutant: a node's own degree stays in the community it is leaving.
GainUnremoved(i, c, m2) ==
  Into(i, c) * m2 - SumOver({j \in 1..Size : community[j] = c}, LAMBDA j : degree[j]) * degree[i]

(* What i's going to c is worth, with i taken out of where it is.          *)
Gain(i, c, m2) == Into(i, c) * m2 - SumOver(Near(i, c), LAMBDA j : degree[j]) * degree[i]

(* The first community that gains most, and more than staying does.        *)
Best(i) ==
  LET near == {community[j] : j \in {k \in 1..Size \ {i} : adjacency[i, k] > 0}}
      gain == [c \in near \cup {community[i]} |-> Gain(i, c, M2)]
      top  == {c \in DOMAIN gain : \A o \in DOMAIN gain : gain[o] <= gain[c]}
  IN IF community[i] \in top THEN community[i] ELSE CHOOSE c \in top : \A o \in top : c <= o

Level(adj, who) ==
  /\ adjacency' = adj /\ members' = who
  /\ degree' = [i \in DOMAIN who |-> SumOver(DOMAIN who, LAMBDA j : adjacency'[i, j])]
  /\ community' = [i \in DOMAIN who |-> i]
  /\ turn' = 1 /\ moved' = [sweep |-> FALSE, level |-> FALSE]

Communities ==
  /\ phase = "linking" /\ phase' = "moving"
  /\ Level([i, j \in Nodes |-> Weight(i, j)], [i \in Nodes |-> {i}])
  /\ UNCHANGED <<wire, labelVars, cueVars>>

Visit ==
  /\ phase = "moving" /\ M2 > 0 /\ turn <= Size
  /\ community' = [community EXCEPT ![turn] = Best(turn)]
  /\ moved' = IF community' = community THEN moved ELSE [sweep |-> TRUE, level |-> TRUE]
  /\ turn' = turn + 1
  /\ UNCHANGED <<wire, phase, adjacency, degree, members, labelVars, cueVars>>

SweepAgain ==
  /\ phase = "moving" /\ turn > Size /\ moved.sweep
  /\ turn' = 1 /\ moved' = [moved EXCEPT !.sweep = FALSE]
  /\ UNCHANGED <<wire, phase, adjacency, degree, members, community, labelVars, cueVars>>

(* One node for each community, in the order they are met.                 *)
Relabelled ==
  LET firsts == {i \in 1..Size : \A j \in 1..(i - 1) : community[j] # community[i]}
      met    == SelectSeq([i \in 1..Size |-> i], LAMBDA i : i \in firsts)
  IN [k \in DOMAIN met |-> {i \in 1..Size : community[i] = community[met[k]]}]

Aggregate ==
  LET groups == Relabelled
      Across(a, b) == SumOver(groups[a], LAMBDA i : SumOver(groups[b], LAMBDA j : adjacency[i, j]))
  IN /\ phase = "moving" /\ turn > Size /\ ~moved.sweep /\ moved.level
     /\ Level([a, b \in DOMAIN groups |-> Across(a, b)],
              [a \in DOMAIN groups |-> UNION {members[i] : i \in groups[a]}])
     /\ phase' = IF Len(groups) = Size THEN "labels" ELSE "moving"
     /\ UNCHANGED <<wire, labelVars, cueVars>>

LevelSettles ==
  /\ phase = "moving" /\ (M2 = 0 \/ (turn > Size /\ ~moved.level))
  /\ phase' = "labels"
  /\ UNCHANGED <<wire, louvainVars, labelVars, cueVars>>

-----------------------------------------------------------------------------
(* Label propagation: every claim takes the label its peers gave the most  *)
(* weight to in the round before, the smallest of equals.                  *)
Votes(i, l) == SumOver({j \in Peers(i) : label[j] = l}, LAMBDA j : Weight(i, j))

Adopted(i) ==
  LET near == {label[j] : j \in Peers(i)}
      top  == {l \in near : \A o \in near : Votes(i, o) <= Votes(i, l)}
  IN IF near = {} THEN label[i] ELSE CHOOSE l \in top : \A o \in top : l <= o

Propagate ==
  LET next == [i \in Nodes |-> Adopted(i)]
  IN /\ phase = "labels" /\ round < PROPAGATION_ROUNDS /\ next # label
     /\ label' = next /\ round' = round + 1
     /\ UNCHANGED <<wire, phase, louvainVars, cueVars>>

Propagated ==
  /\ phase = "labels" /\ phase' = "cue"
  /\ round = PROPAGATION_ROUNDS \/ \A i \in Nodes : Adopted(i) = label[i]
  /\ UNCHANGED <<wire, louvainVars, labelVars, cueVars>>

-----------------------------------------------------------------------------
(* A cue lights its seeds, and two times over half of what each claim got  *)
(* goes on to its peers, in proportion to the weights.                     *)
Degree0(i) == SumOver(Peers(i), LAMBDA j : Weight(i, j))

Received(j) ==
  SumOver({i \in Peers(j) : frontier[i] > 0},
          LAMBDA i : (frontier[i] * Weight(i, j)) \div (2 * Degree0(i)))

Cue(seeds) ==
  /\ phase = "cue" /\ phase' = "hop 1"
  /\ active' = [i \in Nodes |-> IF i \in seeds THEN Energy ELSE 0]
  /\ frontier' = active'
  /\ UNCHANGED <<wire, louvainVars, labelVars>>

Hop ==
  /\ phase \in {"hop 1", "hop 2"}
  /\ phase' = IF phase = "hop 1" THEN "hop 2" ELSE "over"
  /\ frontier' = [j \in Nodes |-> Received(j)]
  /\ active' = [j \in Nodes |-> active[j] + Received(j)]
  /\ UNCHANGED <<wire, louvainVars, labelVars>>

IslandsInit ==
  /\ wire = [pair \in Pairs |-> 0] /\ phase = "linking"
  /\ adjacency = [i, j \in {} |-> 0] /\ degree = <<>> /\ members = <<>> /\ community = <<>> /\ turn = 1
  /\ moved = [sweep |-> FALSE, level |-> FALSE]
  /\ label = [i \in Nodes |-> i] /\ round = 0
  /\ active = [i \in Nodes |-> 0] /\ frontier = active

IslandsNext ==
  \/ \E i, j \in Nodes, weight \in Weights : Link(i, j, weight)
  \/ Communities \/ Visit \/ SweepAgain \/ Aggregate \/ LevelSettles
  \/ Propagate \/ Propagated
  \/ \E seeds \in Seeds : Cue(seeds)
  \/ Hop

-----------------------------------------------------------------------------
(* Newman-Girvan modularity of a partition of the claims, times the square *)
(* of twice the weight of all links.                                       *)
Modularity(parts) ==
  LET all == SumOver(Nodes, Degree0)
      Inside(c) == SumOver(c, LAMBDA i : SumOver(c, LAMBDA j : Weight(i, j)))
      Share(c)  == SumOver(c, Degree0)
  IN SumOver(parts, LAMBDA c : Inside(c) * all - Share(c) * Share(c))

(* The partition of the claims the level has so far.                       *)
Parts == {UNION {members[i] : i \in {k \in 1..Size : community[k] = c}} : c \in ToSet(community)}

(* Weisfeiler-Lehman colours: a claim's own and how many peers have each.  *)
Recoloured(colour) ==
  [i \in Nodes |->
     LET around == {colour[j] : j \in Peers(i)}
     IN [own |-> colour[i],
         around |-> [c \in around |-> Cardinality({j \in Peers(i) : colour[j] = c})]]]

Colours ==
  FoldLeft(LAMBDA colour, r : Recoloured(colour),
           [i \in Nodes |-> Cardinality(Peers(i))], [r \in 1..WL_ROUNDS |-> r])

Signature(part) ==
  LET own == {Colours[i] : i \in part}
  IN [c \in own |-> Cardinality({i \in part : Colours[i] = c})]

-----------------------------------------------------------------------------
Reachable(i) ==
  FoldLeft(LAMBDA seen, r : seen \cup UNION {Peers(j) : j \in seen}, {i}, [r \in 1..N |-> r])

(* The communities share the claims out; neither they nor the labels join  *)
(* claims that no path of links joins; and a cue gives no claim energy     *)
(* that its seeds did not have: a hop passes on at most half.              *)
IslandsAreApart ==
  /\ phase = "labels" /\ round = 0 =>
       /\ UNION Parts = Nodes
       /\ \A c, d \in Parts : c = d \/ c \cap d = {}
       /\ \A c \in Parts : c \subseteq Reachable(CHOOSE i \in c : TRUE)
  /\ phase = "cue" => \A i \in Nodes : label[i] \in Reachable(i)
  /\ phase = "over" =>
       4 * SumOver(Nodes, LAMBDA i : active[i])
         <= 7 * Energy * Cardinality({i \in Nodes : active[i] >= Energy})

(* Two islands that nothing links to the rest, of no more than three       *)
(* claims, have one signature exactly when they have one shape.            *)
SignatureIsTheShape ==
  phase = "labels" /\ round = 0 =>
    LET alone == {c \in Parts : Cardinality(c) <= 3 /\ \A i \in c : Peers(i) \subseteq c}
        Shape(c) == [n \in 0..2 |-> Cardinality({i \in c : Cardinality(Peers(i)) = n})]
    IN \A c, d \in alone : Signature(c) = Signature(d) <=> Shape(c) = Shape(d)

(* A node moves only where that raises the modularity, so the sweeps end;  *)
(* and when they have, no two of the communities would be better as one,   *)
(* which makes them no worse than the whole workspace as one island.       *)
Merged(c, d) == (Parts \ {c, d}) \cup {c \cup d}

NoBetterMerged ==
  [][/\ phase = "moving" /\ adjacency' = adjacency /\ community' # community => Modularity(Parts') > Modularity(Parts)
     /\ phase = "moving" /\ phase' = "labels" =>
          /\ \A c, d \in Parts' : Modularity(Merged(c, d)') <= Modularity(Parts')
          /\ Modularity(Parts') >= 0]_islandsVars

=============================================================================
