-------------------------- MODULE RecursionLemmas ---------------------------
(***************************************************************************)
(* What the proofs need of recursive functions: that one is defined, which *)
(* is shown without induction theorems that take an operator, by sets and  *)
(* a least element; and what Among keeps of a sequence.                    *)
(***************************************************************************)
EXTENDS Integers, SequencesExt, Filter, SequenceTheorems, WellFoundedInduction, TLAPS

\* A set of naturals that is not empty has a least element.
LEMMA LeastOf ==
    ASSUME NEW S \in SUBSET Nat, S # {}
    PROVE  \E x \in S : \A y \in S : x <= y
<1>1. IsWellFoundedOn(OpToRel(<, Nat), Nat)
  BY NatLessThanWellFounded
<1>2. \E x \in S : \A y \in S : ~ (<<y, x>> \in OpToRel(<, Nat))
  BY <1>1, WFMin
<1>3. ASSUME NEW x \in Nat, NEW y \in Nat, x < y
      PROVE  <<x, y>> \in OpToRel(<, Nat)
  <2>1. <<x, y>> \in Nat \X Nat /\ <<x, y>>[1] = x /\ <<x, y>>[2] = y
    OBVIOUS
  <2>2. QED
    BY <1>3, <2>1 DEF OpToRel
<1>4. PICK x \in S : \A y \in S : ~ (<<y, x>> \in OpToRel(<, Nat))
  BY <1>2
<1>5. \A y \in S : ~ (y < x)
  BY <1>3, <1>4
<1>6. QED
  BY <1>5

\* What holds at zero and goes from a number to the next holds up to n.
LEMMA UpTo ==
    ASSUME NEW n \in Nat, NEW P, 0 \in P,
           \A k \in 0..(n - 1) : k \in P => k + 1 \in P
    PROVE  \A k \in 0..n : k \in P
<1> DEFINE Bad == {k \in 0..n : k \notin P}
<1>1. SUFFICES ASSUME Bad # {} PROVE FALSE
  OBVIOUS
<1>2. PICK b \in Bad : \A k \in Bad : b <= k
  <2>1. Bad \in SUBSET Nat
    OBVIOUS
  <2>2. QED
    BY <1>1, <2>1, LeastOf
<1>3. b # 0
  BY <1>2
<1>4. b - 1 \in 0..(n - 1) /\ b - 1 \in 0..n /\ (b - 1) + 1 = b /\ ~ (b <= b - 1)
  BY <1>2, <1>3
<1>5. b - 1 \in P
  BY <1>2, <1>4
<1>6. QED
  BY <1>2, <1>4, <1>5

\* f starts at `base` and takes n steps, all in V.
RunsBy(f, n, V, base, step) ==
  /\ f \in [0..n -> V]
  /\ f[0] = base
  /\ \A m \in 1..n : f[m] = step[m][f[m - 1]]

\* A step from each value to the next runs from any start.
LEMMA RunsFrom ==
    ASSUME NEW n \in Nat, NEW V, NEW base \in V, NEW step,
           \A m \in 1..n : \A v \in V : step[m][v] \in V
    PROVE  \E f : RunsBy(f, n, V, base, step)
<1> DEFINE Runs(f, k) == f[0] = base /\ \A m \in 1..k : f[m] = step[m][f[m - 1]]
<1> DEFINE P == {k \in 0..n : \E f \in [0..k -> V] : Runs(f, k)}
<1>1. 0 \in P
  <2>1. [m \in 0..0 |-> base] \in [0..0 -> V] /\ Runs([m \in 0..0 |-> base], 0)
    OBVIOUS
  <2> HIDE DEF Runs
  <2>2. QED
    BY <2>1
<1>2. ASSUME NEW k \in 0..(n - 1), k \in P PROVE k + 1 \in P
  <2>1. PICK f \in [0..k -> V] : Runs(f, k)
    BY <1>2
  <2> DEFINE g == [m \in 0..(k + 1) |-> IF m = k + 1 THEN step[k + 1][f[k]] ELSE f[m]]
  <2>2. k \in Nat /\ k + 1 \in 1..n /\ k + 1 \in 0..n
    OBVIOUS
  <2>3. step[k + 1][f[k]] \in V
    <3>1. f[k] \in V
      BY <2>2
    <3>2. QED
      BY <2>2, <3>1
  <2>4. g \in [0..(k + 1) -> V]
    BY <2>3, <2>2
  <2>5. g[0] = base
    BY <2>1, <2>2
  <2>6. ASSUME NEW m \in 1..(k + 1) PROVE g[m] = step[m][g[m - 1]]
    <3>1. CASE m = k + 1
      BY <3>1, <2>2
    <3>2. CASE m # k + 1
      <4>1. m \in 1..k /\ g[m] = f[m] /\ g[m - 1] = f[m - 1]
        BY <3>2, <2>2
      <4>2. QED
        BY <4>1, <2>1
    <3>3. QED
      BY <3>1, <3>2
  <2>7. Runs(g, k + 1)
    BY <2>5, <2>6
  <2> HIDE DEF g, Runs
  <2>8. QED
    BY <2>2, <2>4, <2>7
<1> HIDE DEF P
<1>3. \A k \in 0..n : k \in P
  BY <1>1, <1>2, UpTo
<1>4. n \in P
  BY <1>3
<1>5. QED
  BY <1>4 DEF P, RunsBy

-----------------------------------------------------------------------------
(* Among. *)

\* The places of s that were kept, in t, when its first n were looked at.
Picks(e, t, s, n, some) ==
  /\ e \in [1..Len(t) -> 1..n]
  /\ \A i \in 1..Len(t) : t[i] = s[e[i]] /\ t[i] \in some
  /\ \A i, j \in 1..Len(t) : i < j => e[i] < e[j]
  /\ \A k \in 1..n : s[k] \in some => \E i \in 1..Len(t) : e[i] = k

Kept(t, s, n, some) ==
  /\ Len(t) <= n
  /\ (\E k \in 1..n : s[k] \notin some) => Len(t) < n
  /\ \E e : Picks(e, t, s, n, some)

\* One more element of s is looked at.
LEMMA KeptStep ==
    ASSUME NEW S, NEW s \in Seq(S), NEW some, NEW n \in 0..(Len(s) - 1), NEW t \in Seq(S),
           Kept(t, s, n, some)
    PROVE  Kept(IF s[n + 1] \in some THEN Append(t, s[n + 1]) ELSE t, s, n + 1, some)
<1>1. Len(s) \in Nat /\ n \in Nat /\ Len(t) \in Nat /\ n + 1 \in 1..Len(s) /\ s[n + 1] \in S
  OBVIOUS
<1>2. PICK e : Picks(e, t, s, n, some)
  BY DEF Kept
<1>3. CASE s[n + 1] \notin some
  <2>1. Picks(e, t, s, n + 1, some)
    BY <1>1, <1>2, <1>3 DEF Picks
  <2>2. Len(t) < n + 1
    BY <1>1 DEF Kept
  <2>3. QED
    BY <1>1, <1>3, <2>1, <2>2 DEF Kept
<1>4. CASE s[n + 1] \in some
  <2> DEFINE u == Append(t, s[n + 1])
             d == [i \in 1..(Len(t) + 1) |-> IF i <= Len(t) THEN e[i] ELSE n + 1]
  <2>1. /\ u \in Seq(S) /\ Len(u) = Len(t) + 1
        /\ u[Len(t) + 1] = s[n + 1]
        /\ \A i \in 1..Len(t) : u[i] = t[i]
    BY <1>1, AppendProperties
  <2> HIDE DEF u
  <2>2. Picks(d, u, s, n + 1, some)
    <3>1. d \in [1..Len(u) -> 1..(n + 1)]
      BY <1>1, <1>2, <2>1 DEF Picks
    <3>2. ASSUME NEW i \in 1..Len(u) PROVE u[i] = s[d[i]] /\ u[i] \in some
      <4>1. CASE i <= Len(t)
        <5>1. i \in 1..Len(t) /\ d[i] = e[i] /\ u[i] = t[i]
          BY <1>1, <2>1, <4>1
        <5>2. QED
          BY <1>2, <5>1 DEF Picks
      <4>2. CASE ~ (i <= Len(t))
        BY <1>1, <1>4, <2>1, <4>2
      <4>3. QED
        BY <4>1, <4>2
    <3>3. ASSUME NEW i \in 1..Len(u), NEW j \in 1..Len(u), i < j PROVE d[i] < d[j]
      <4>1. i \in 1..Len(t) /\ d[i] = e[i] /\ e[i] \in 1..n
        <5>1. i \in 1..Len(t) /\ i <= Len(t)
          BY <1>1, <2>1, <3>3
        <5>2. d[i] = e[i]
          BY <1>1, <5>1
        <5>3. e \in [1..Len(t) -> 1..n]
          BY <1>2 DEF Picks
        <5>4. QED
          BY <5>1, <5>2, <5>3
      <4>2. CASE j <= Len(t)
        <5>1. j \in 1..Len(t) /\ d[j] = e[j]
          BY <1>1, <2>1, <4>2
        <5>2. QED
          BY <1>2, <3>3, <4>1, <5>1 DEF Picks
      <4>3. CASE ~ (j <= Len(t))
        BY <1>1, <2>1, <4>1, <4>3
      <4>4. QED
        BY <4>2, <4>3
    <3>4. ASSUME NEW k \in 1..(n + 1), s[k] \in some PROVE \E i \in 1..Len(u) : d[i] = k
      <4>1. CASE k = n + 1
        <5>1. Len(t) + 1 \in 1..Len(u) /\ d[Len(t) + 1] = n + 1
          BY <1>1, <2>1
        <5>2. QED
          BY <4>1, <5>1
      <4>2. CASE k # n + 1
        <5>1. PICK i \in 1..Len(t) : e[i] = k
          BY <1>1, <1>2, <3>4, <4>2 DEF Picks
        <5>2. i \in 1..Len(u) /\ d[i] = k
          BY <1>1, <2>1, <5>1
        <5>3. QED
          BY <5>2
      <4>3. QED
        BY <4>1, <4>2
    <3>5. QED
      BY <3>1, <3>2, <3>3, <3>4 DEF Picks
  <2>3. Len(u) <= n + 1
    BY <1>1, <2>1 DEF Kept
  <2>4. ASSUME NEW k \in 1..(n + 1), s[k] \notin some PROVE Len(u) < n + 1
    <3>1. k \in 1..n
      BY <1>1, <1>4, <2>4
    <3>2. Len(t) < n
      BY <2>4, <3>1 DEF Kept
    <3>3. QED
      BY <1>1, <2>1, <3>2
  <2>5. Kept(u, s, n + 1, some)
    BY <2>2, <2>3, <2>4 DEF Kept
  <2>6. QED
    BY <1>4, <2>5 DEF u
<1>5. QED
  BY <1>3, <1>4

\* Among keeps the elements that are in the set, in their order.
LEMMA AmongKeeps ==
    ASSUME NEW S, NEW s \in Seq(S), NEW some
    PROVE  Among(s, some) \in Seq(S) /\ Kept(Among(s, some), s, Len(s), some)
<1> DEFINE step == [m \in 1..Len(s) |-> [t \in Seq(S) |-> IF s[m] \in some THEN Append(t, s[m]) ELSE t]]
<1> DEFINE Eq(h) == h = [n \in 0..Len(s) |->
                           IF n = 0 THEN <<>>
                           ELSE IF s[n] \in some THEN Append(h[n - 1], s[n]) ELSE h[n - 1]]
<1>1. Len(s) \in Nat /\ \A m \in 1..Len(s) : s[m] \in S
  OBVIOUS
<1>2. \E f : Eq(f)
  <2>1. \A m \in 1..Len(s) : \A t \in Seq(S) : step[m][t] \in Seq(S)
    BY <1>1, AppendProperties
  <2>2. <<>> \in Seq(S)
    OBVIOUS
  <2> DEFINE V == Seq(S)
             none == <<>>
             n == Len(s)
  <2> HIDE DEF step, V, none, n
  <2>3. n \in Nat /\ none \in V /\ \A m \in 1..n : \A t \in V : step[m][t] \in V
    BY <1>1, <2>1, <2>2 DEF V, none, n
  <2>4. \E f : RunsBy(f, n, V, none, step)
    BY <2>3, RunsFrom
  <2>5. PICK f \in [0..Len(s) -> Seq(S)] : f[0] = <<>> /\ \A m \in 1..Len(s) : f[m] = step[m][f[m - 1]]
    BY <2>4 DEF V, none, n, RunsBy
  <2>6. ASSUME NEW k \in 0..Len(s)
        PROVE  f[k] = IF k = 0 THEN <<>>
                      ELSE IF s[k] \in some THEN Append(f[k - 1], s[k]) ELSE f[k - 1]
    <3>1. CASE k = 0
      BY <2>5, <3>1
    <3>2. CASE k # 0
      <4>1. k \in 1..Len(s) /\ k - 1 \in 0..Len(s) /\ f[k - 1] \in Seq(S) /\ f[k] = step[k][f[k - 1]]
        BY <1>1, <2>5, <3>2
      <4>2. QED
        BY <3>2, <4>1 DEF step
    <3>3. QED
      BY <3>1, <3>2
  <2>7. Eq(f)
    BY <2>6
  <2> HIDE DEF Eq
  <2>8. QED
    BY <2>7
<1> DEFINE taken == CHOOSE h : Eq(h)
<1>3. Eq(taken)
  <2> HIDE DEF Eq
  <2>1. QED
    BY <1>2
<1>4. Among(s, some) = taken[Len(s)]
  BY DEF Among
<1> HIDE DEF taken
<1> DEFINE P == {n \in 0..Len(s) : taken[n] \in Seq(S) /\ Kept(taken[n], s, n, some)}
<1>5. 0 \in P
  <2>1. taken[0] = <<>> /\ <<>> \in Seq(S) /\ 0 \in 0..Len(s)
    BY <1>1, <1>3
  <2>2. Picks(<<>>, <<>>, s, 0, some)
    BY DEF Picks
  <2>3. Kept(<<>>, s, 0, some)
    BY <2>2 DEF Kept
  <2>4. QED
    BY <2>1, <2>3
<1>6. ASSUME NEW n \in 0..(Len(s) - 1), n \in P PROVE n + 1 \in P
  <2>1. n + 1 \in 0..Len(s) /\ n + 1 # 0 /\ (n + 1) - 1 = n /\ s[n + 1] \in S
    BY <1>1
  <2>2. taken[n + 1] = IF s[n + 1] \in some THEN Append(taken[n], s[n + 1]) ELSE taken[n]
    BY <1>3, <2>1
  <2>3. taken[n + 1] \in Seq(S)
    BY <1>6, <2>1, <2>2, AppendProperties
  <2>4. Kept(taken[n + 1], s, n + 1, some)
    BY <1>6, <2>2, KeptStep
  <2>5. QED
    BY <2>1, <2>3, <2>4
<1> HIDE DEF P
<1>7. \A n \in 0..Len(s) : n \in P
  BY <1>1, <1>5, <1>6, UpTo
<1>8. Len(s) \in P
  BY <1>1, <1>7
<1>9. QED
  BY <1>4, <1>8 DEF P

-----------------------------------------------------------------------------
(* FlattenSeq. *)

\* The pieces of a sequence cut at places that go up are the sequence.
LEMMA FlattenOfCuts ==
    ASSUME NEW S, NEW s \in Seq(S), NEW n \in Nat \ {0},
           NEW cut \in [1..(n + 1) -> 0..Len(s)], cut[1] = 0, cut[n + 1] = Len(s),
           \A i \in 1..n : cut[i] <= cut[i + 1]
    PROVE  FlattenSeq([i \in 1..n |-> SubSeq(s, cut[i] + 1, cut[i + 1])]) = s
<1> DEFINE seqs == [i \in 1..n |-> SubSeq(s, cut[i] + 1, cut[i + 1])]
           upto == [i \in 1..n |-> SubSeq(s, 1, cut[i + 1])]
           Eq(h) == h = [i \in 1..Len(seqs) |-> IF i = 1 THEN seqs[i] ELSE h[i - 1] \o seqs[i]]
<1>1. Len(s) \in Nat
  OBVIOUS
<1>2. \A i \in 1..n : seqs[i] \in Seq(S)
  <2>1. ASSUME NEW i \in 1..n PROVE SubSeq(s, cut[i] + 1, cut[i + 1]) \in Seq(S)
    <3>1. cut[i] \in 0..Len(s) /\ cut[i + 1] \in 0..Len(s)
      OBVIOUS
    <3>2. \A k \in (cut[i] + 1)..cut[i + 1] : s[k] \in S
      BY <1>1, <3>1
    <3>3. QED
      BY <3>1, <3>2, SubSeqProperties
  <2>2. QED
    BY <2>1
<1>3. seqs \in Seq(Seq(S)) /\ Len(seqs) = n
  <2>1. seqs \in [1..n -> Seq(S)]
    BY <1>2
  <2> HIDE DEF seqs
  <2>2. QED
    BY <2>1, SeqDef
<1>4. ASSUME NEW i \in 1..n
      PROVE  upto[i] = IF i = 1 THEN seqs[i] ELSE upto[i - 1] \o seqs[i]
  <2>1. CASE i = 1
    BY <2>1
  <2>2. CASE i # 1
    <3>1. i - 1 \in 1..n /\ (i - 1) + 1 = i /\ cut[i] \in 0..Len(s) /\ cut[i + 1] \in 0..Len(s) /\ cut[i] <= cut[i + 1]
      BY <2>2
    <3>2. 1 \in 1..(Len(s) + 1) /\ cut[i] \in (1 - 1)..Len(s) /\ cut[i + 1] \in cut[i]..Len(s)
      BY <1>1, <3>1
    <3>3. SubSeq(s, 1, cut[i]) \o SubSeq(s, cut[i] + 1, cut[i + 1]) = SubSeq(s, 1, cut[i + 1])
      BY <3>2, ConcatAdjacentSubSeq
    <3>4. QED
      BY <2>2, <3>1, <3>3
  <2>3. QED
    BY <2>1, <2>2
<1>5. Eq(upto)
  <2>1. upto = [i \in 1..n |-> upto[i]]
    OBVIOUS
  <2> HIDE DEF seqs, upto
  <2>2. QED
    BY <1>3, <1>4, <2>1
<1> DEFINE flatten == CHOOSE h : Eq(h)
<1>6. Eq(flatten)
  <2> HIDE DEF Eq
  <2>1. QED
    BY <1>5
<1>7. FlattenSeq(seqs) = flatten[n]
  BY <1>3 DEF FlattenSeq
<1> HIDE DEF flatten, seqs, upto
<1> DEFINE P == {k \in 0..(n - 1) : flatten[k + 1] = upto[k + 1]}
<1>8. 0 \in P
  BY <1>3, <1>4, <1>6
<1>9. ASSUME NEW k \in 0..((n - 1) - 1), k \in P PROVE k + 1 \in P
  <2>1. k + 2 \in 1..n /\ k + 2 # 1 /\ (k + 2) - 1 = k + 1 /\ k + 1 \in 0..(n - 1) /\ (k + 1) + 1 = k + 2
    OBVIOUS
  <2>2. flatten[k + 2] = flatten[k + 1] \o seqs[k + 2]
    BY <1>3, <1>6, <2>1
  <2>3. upto[k + 2] = upto[k + 1] \o seqs[k + 2]
    BY <1>4, <2>1
  <2>4. QED
    BY <1>9, <2>1, <2>2, <2>3
<1> HIDE DEF P, Eq
<1>10. \A k \in 0..(n - 1) : k \in P
  <2>1. n - 1 \in Nat
    OBVIOUS
  <2>2. QED
    BY <1>8, <1>9, <2>1, UpTo
<1>11. n - 1 \in P
  BY <1>10
<1>12. flatten[n] = upto[n]
  BY <1>11 DEF P
<1>13. upto[n] = s
  BY <1>1, SubSeqFull DEF upto
<1>14. QED
  BY <1>7, <1>12, <1>13 DEF seqs
=============================================================================
