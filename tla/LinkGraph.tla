----------------------------- MODULE LinkGraph -----------------------------
(***************************************************************************)
(* The links between the live claims of one workspace: chosen by overlap   *)
(* when a claim is posted or updated (record.rs, apply_links_among, over   *)
(* the peers service.rs, link_peers, narrows to), made between claims that *)
(* fire together (island.rs, fire_as), and left behind by a claim that     *)
(* closes.                                                                 *)
(*                                                                         *)
(* A claim is its topics and the set it is in.  Which of two equal peers   *)
(* comes first is a hash of the pair in the code and Tie here.  The pool   *)
(* of 64 the selection looks at is never full at these sizes.              *)
(***************************************************************************)
EXTENDS Integers, FiniteSets

CONSTANTS
  Claims,     \* the ids, by their position in the store
  Abouts,     \* what a claim may be about: sets of topics
  Sets,       \* the named sets, the unnamed one among them
  LinkMax,    \* LINK_MAX, and FIRE_LINK_MAX, which is the same
  Tie(_, _),  \* the order of two peers of equal overlap
  Reposts     \* whether a client posts over an id it posted before

\* Two peers of equal overlap differ in a hash of the pair or in the id.
ASSUME LinksAssumption ==
  /\ IsFiniteSet(Claims) /\ Claims = 1..Cardinality(Claims) /\ Sets # {}
  /\ \A topics \in Abouts : IsFiniteSet(topics)
  /\ LinkMax \in Nat \ {0} /\ Reposts \in BOOLEAN
  /\ \A b, p, q \in Claims :
       /\ Tie(<<b, p>>, <<b, q>>) => ~Tie(<<b, q>>, <<b, p>>)
       /\ p # q => Tie(<<b, p>>, <<b, q>>) \/ Tie(<<b, q>>, <<b, p>>)
       /\ \A r \in Claims : Tie(<<b, p>>, <<b, q>>) /\ Tie(<<b, q>>, <<b, r>>) => Tie(<<b, p>>, <<b, r>>)

VARIABLES
  about,   \* claim -> its topics
  inset,   \* claim -> its set
  stored,  \* the claims that were ever posted
  live,    \* those that are live
  links    \* claim -> the ids its record links to

linkVars == <<about, inset, stored, live, links>>

-----------------------------------------------------------------------------
(* Overlap is the Jaccard of two topic sets, a fraction.                   *)

Shared(s, t) == Cardinality(s \cap t)
Union(s, t)  == IF s \cup t = {} THEN 1 ELSE Cardinality(s \cup t)

Nearer(s, t, u, v) == Shared(s, t) * Union(u, v) > Shared(u, v) * Union(s, t)

AtThreshold(s, t) == 10 * Shared(s, t) >= 3 * Union(s, t)

(* `base` ranks p before q: by decreasing overlap.                         *)
Before(topics, base, p, q) ==
  LET mine == topics[base]
  IN \/ Nearer(mine, topics[p], mine, topics[q])
     \/ /\ ~Nearer(mine, topics[q], mine, topics[p])
        /\ Tie(<<base, p>>, <<base, q>>)

(* How many of some claims come before p.                                  *)
Place(topics, base, some, p) == Cardinality({q \in some : Before(topics, base, q, p)})

(* A peer earns a place when no kept one is closer to it than `base` is;   *)
(* the places left go to the others, in order.                             *)
Diversified(topics, base, peers) ==
  LET kept[n \in 0..Cardinality(peers)] ==
        IF n = 0 THEN {}
        ELSE LET sofar == kept[n - 1]
             IN sofar \cup
                  {p \in peers :
                     /\ Cardinality(sofar) < LinkMax
                     /\ Place(topics, base, peers, p) = n - 1
                     /\ \A k \in sofar : Nearer(topics[base], topics[p], topics[p], topics[k])}
      earned == kept[Cardinality(peers)]
      rest   == peers \ earned
  IN earned \cup
       {p \in rest : Place(topics, base, rest, p) < LinkMax - Cardinality(earned)}

(* The live peers a claim is most about.                                   *)
LinkTargets(topics, a, peers) ==
  Diversified(topics, a, {p \in peers : AtThreshold(topics[a], topics[p])})

(* What a peer loses: a dropped edge goes from both ends.                  *)
\* Mutant: only the end that is over the bound drops it.
DroppedAtOneEnd(cut, p) == {e[2] : e \in {c \in cut : c[1] = p}}

Dropped(cut, p) == {e[2] : e \in {c \in cut : c[1] = p}} \cup {e[1] : e \in {c \in cut : c[2] = p}}

(* The links after `a` chose its own among `peers`: both ends of each are  *)
(* written, and a peer pushed past the most re-selects its own.  An id     *)
(* outside `peers` is left alone.                                          *)
Relinked(topics, a, peers) ==
  LET targets == LinkTargets(topics, a, peers)
      known   == peers \cup {a}
      joined  == [p \in peers |->
                    IF p \in targets THEN links[p] \cup {a} ELSE links[p] \ {a}]
      Kept(p) == Diversified(topics, p, joined[p] \cap known)
      cut     == {e \in peers \X known :
                    /\ Cardinality(joined[e[1]]) > LinkMax
                    /\ e[2] \in joined[e[1]]
                    /\ e[2] \notin Kept(e[1])}
  IN [c \in Claims |->
        IF c = a THEN targets \ Dropped(cut, a)
        ELSE IF c \in peers THEN joined[c] \ Dropped(cut, c)
        ELSE links[c]]

-----------------------------------------------------------------------------
(* The peers of a post: those of its set that share a topic, and those     *)
(* they link to.  A claim closed by the post is no peer.                   *)
LinkPeers(a, topics, set, closed) ==
  LET mine    == {p \in live \ closed : inset[p] = set}
      sharing == {p \in mine : about[p] \cap topics # {}}
  IN IF topics = {} THEN {} ELSE sharing \cup (mine \cap UNION {links[p] : p \in sharing})

(* A post, which closes what it replaces (AtomRules says what that is).    *)
PostClaim(a, topics, set, closed) ==
  /\ a \in stored => Reposts
  /\ closed \subseteq {p \in live \ {a} : inset[p] = set}
  /\ about' = [about EXCEPT ![a] = topics]
  /\ inset' = [inset EXCEPT ![a] = set]
  /\ stored' = stored \cup {a}
  /\ live' = (live \cup {a}) \ closed
  /\ links' = Relinked(about', a, LinkPeers(a, topics, set, closed) \ {a})

(* An update, a grade and an accept of what is live: over the workspace,   *)
(* whatever the sets.  It may open a closed claim that is due.             *)
UpdateClaim(a, topics) ==
  /\ a \in stored
  /\ about' = [about EXCEPT ![a] = topics]
  /\ live' = live \cup {a}
  /\ links' = Relinked(about', a, live \ {a})
  /\ UNCHANGED <<inset, stored>>

Close(a) ==
  /\ a \in live
  /\ live' = live \ {a}
  /\ UNCHANGED <<about, inset, stored, links>>

\* Mutant: the bound is asked of one end.
FirePairAskingOne(held, i, j) ==
  IF i \in held[j] \/ j \in held[i] \/ Cardinality(held[i]) < LinkMax
  THEN [held EXCEPT ![i] = @ \cup {j}, ![j] = @ \cup {i}]
  ELSE held

(* Every pair that fires together is linked from both ends, when neither   *)
(* has the most already or one of them has the link.                       *)
FirePair(held, i, j) ==
  IF \/ i \in held[j] \/ j \in held[i]
     \/ Cardinality(held[i]) < LinkMax /\ Cardinality(held[j]) < LinkMax
  THEN [held EXCEPT ![i] = @ \cup {j}, ![j] = @ \cup {i}]
  ELSE held

(* The pairs of what fired, one after the other: those of the first with   *)
(* each after it, then those of the second.                                *)
Wired(fired) ==
  LET count == Cardinality(Claims)
      wired[n \in 0..(count * count)] ==
        IF n = 0 THEN links
        ELSE LET i == ((n - 1) \div count) + 1
                 j == ((n - 1) % count) + 1
             IN IF i < j /\ {i, j} \subseteq fired
                THEN FirePair(wired[n - 1], i, j) ELSE wired[n - 1]
  IN wired[count * count]

FireTogether(fired) ==
  /\ fired \subseteq live
  /\ Cardinality(fired) > 1
  /\ links' = Wired(fired)
  /\ UNCHANGED <<about, inset, stored, live>>

-----------------------------------------------------------------------------
LinksInit ==
  /\ about = [c \in Claims |-> {}]
  /\ inset \in [Claims -> {CHOOSE s \in Sets : TRUE}]
  /\ stored = {}
  /\ live = {}
  /\ links = [c \in Claims |-> {}]

LinksNext ==
  \/ \E a \in Claims, topics \in Abouts, set \in Sets, closed \in SUBSET Claims :
       PostClaim(a, topics, set, closed)
  \/ \E a \in Claims, topics \in Abouts : UpdateClaim(a, topics)
  \/ \E a \in Claims : Close(a)
  \/ \E fired \in SUBSET Claims : FireTogether(fired)

LinksSpec == LinksInit /\ [][LinksNext]_linkVars

-----------------------------------------------------------------------------
(* The kinds of the variables, and no claim is linked to itself.           *)
LinksTypeOK ==
  /\ about \in [Claims -> Abouts \cup {{}}]
  /\ inset \in [Claims -> Sets]
  /\ live \subseteq stored /\ stored \subseteq Claims
  /\ links \in [Claims -> SUBSET Claims]
  /\ \A c \in Claims : c \notin links[c]

Open(c) == links[c] \cap live

(* A link between two live claims is in both their records, whatever       *)
(* posts, updates, closings and fires came in whatever order (record.rs,   *)
(* apply_links: "symmetrically"): one end cut and the other kept would let *)
(* recall spread from one and never back.                                  *)
Symmetric == \A c, d \in live : d \in links[c] <=> c \in links[d]

(* No claim links to more than LinkMax live ones of a set, though every    *)
(* peer of a post may have a link added to it (record.rs, apply_links: "A  *)
(* peer pushed past LINK_MAX by incoming edges is re-selected").  Links to *)
(* another set come from an update or a fire, and a post does not see      *)
(* them, so they are over and above.                                       *)
Bounded ==
  \A c \in live, set \in Sets : Cardinality({d \in Open(c) : inset[d] = set}) <= LinkMax

(* What holds of every record's links: no claim links to itself, nor to    *)
(* more live ones of a set than the bound, nor to one that does not link   *)
(* back.                                                                   *)
LinksInv ==
  /\ LinksTypeOK
  /\ Bounded
  /\ Symmetric
=============================================================================
