----------------------------- MODULE DeskProofs ------------------------------
(***************************************************************************)
(* Desk for every set of seats, requests and workspaces and all its caps:  *)
(* what a seat's request may find in its place, the cards and their modes, *)
(* the archives, the pin, the attachments and the hour a fire is held.     *)
(***************************************************************************)
EXTENDS Desk, RecursionLemmas, FiniteSetTheorems

-----------------------------------------------------------------------------
(* Sequences. *)

LEMMA MaxOfTwo ==
    ASSUME NEW a \in Int, NEW b \in Int
    PROVE  Max({a, b}) \in {a, b} /\ Max({a, b}) >= a /\ Max({a, b}) >= b
<1>1. \E x \in {a, b} : \A y \in {a, b} : x >= y
  OBVIOUS
<1>2. Max({a, b}) \in {a, b} /\ \A y \in {a, b} : Max({a, b}) >= y
  BY <1>1 DEF Max
<1>3. QED
  BY <1>2

\* t is s with some of its elements left out.
Thins(e, t, s) ==
  /\ e \in [1..Len(t) -> 1..Len(s)]
  /\ \A i \in 1..Len(t) : t[i] = s[e[i]]
  /\ \A i, j \in 1..Len(t) : i < j => e[i] < e[j]

Thinned(t, s) == \E e : Thins(e, t, s)

LEMMA AmongThins ==
    ASSUME NEW S, NEW s \in Seq(S), NEW some
    PROVE  /\ Among(s, some) \in Seq(S)
           /\ Thinned(Among(s, some), s)
           /\ Len(Among(s, some)) <= Len(s)
           /\ (\E k \in 1..Len(s) : s[k] \notin some) => Len(Among(s, some)) < Len(s)
           /\ \A i \in 1..Len(Among(s, some)) : Among(s, some)[i] \in some
<1> DEFINE t == Among(s, some)
<1>1. t \in Seq(S) /\ Kept(t, s, Len(s), some)
  BY AmongKeeps
<1> HIDE DEF t
<1>2. PICK e : Picks(e, t, s, Len(s), some)
  BY <1>1 DEF Kept
<1>3. Thins(e, t, s)
  BY <1>2 DEF Picks, Thins
<1>4. QED
  BY <1>1, <1>2, <1>3 DEF Kept, Picks, Thinned, t

\* What is in the set is kept, with its place among what is kept.
LEMMA AmongKeepsIt ==
    ASSUME NEW S, NEW s \in Seq(S), NEW some, NEW k \in 1..Len(s), s[k] \in some
    PROVE  \E i \in 1..Len(Among(s, some)) :
             /\ Among(s, some)[i] = s[k]
             /\ \A j \in 1..Len(Among(s, some)) :
                  j > i => \E l \in 1..Len(s) : l > k /\ Among(s, some)[j] = s[l]
<1> DEFINE t == Among(s, some)
<1>1. t \in Seq(S) /\ Kept(t, s, Len(s), some)
  BY AmongKeeps
<1> HIDE DEF t
<1>2. PICK e : Picks(e, t, s, Len(s), some)
  BY <1>1 DEF Kept
<1>3. PICK i \in 1..Len(t) : e[i] = k
  BY <1>2 DEF Picks
<1>4. t[i] = s[k]
  BY <1>2, <1>3 DEF Picks
<1>5. ASSUME NEW j \in 1..Len(t), j > i PROVE \E l \in 1..Len(s) : l > k /\ t[j] = s[l]
  <2>1. e[j] \in 1..Len(s) /\ e[i] < e[j] /\ t[j] = s[e[j]]
    BY <1>2, <1>5 DEF Picks
  <2>2. QED
    BY <1>3, <2>1
<1>6. QED
  BY <1>4, <1>5 DEF t

\* The youngest n of a sequence are its last n.
LEMMA YoungestThins ==
    ASSUME NEW S, NEW s \in Seq(S), NEW n \in Nat
    PROVE  /\ Youngest(n, s) \in Seq(S)
           /\ Thinned(Youngest(n, s), s)
           /\ Len(Youngest(n, s)) <= n
           /\ \A k \in 1..Len(s) : Len(s) - k < n =>
                \E i \in 1..Len(Youngest(n, s)) :
                  /\ Youngest(n, s)[i] = s[k]
                  /\ \A j \in 1..Len(Youngest(n, s)) :
                       j > i => \E l \in 1..Len(s) : l > k /\ Youngest(n, s)[j] = s[l]
<1> DEFINE a == Max({1, Len(s) - n + 1})
           t == SubSeq(s, a, Len(s))
           e == [i \in 1..Len(t) |-> a + i - 1]
<1>1. Len(s) \in Nat /\ Youngest(n, s) = t
  BY DEF Youngest
<1>2. a \in Nat /\ a >= 1 /\ a >= Len(s) - n + 1 /\ (a = 1 \/ a = Len(s) - n + 1)
  <2> DEFINE m == Len(s) - n + 1
  <2>1. m \in Int
    BY <1>1
  <2> HIDE DEF m
  <2>2. Max({1, m}) \in {1, m} /\ Max({1, m}) >= 1 /\ Max({1, m}) >= m
    BY <2>1, MaxOfTwo
  <2>3. a \in Int /\ a >= 1 /\ a >= m /\ (a = 1 \/ a = m)
    BY <2>1, <2>2 DEF m
  <2>4. QED
    BY <2>1, <2>3 DEF m
<1> HIDE DEF a
<1>3. t \in Seq(S) /\ Len(t) = (IF a <= Len(s) THEN Len(s) - a + 1 ELSE 0)
      /\ \A i \in 1..Len(t) : t[i] = s[a + i - 1]
  <2>1. \A i \in a..Len(s) : s[i] \in S
    BY <1>1, <1>2
  <2>2. QED
    BY <1>1, <1>2, <2>1, SubSeqProperties
<1> HIDE DEF t
<1>4. Thins(e, t, s)
  BY <1>1, <1>2, <1>3 DEF Thins
<1>5. Len(t) <= n
  BY <1>1, <1>2, <1>3
<1>6. ASSUME NEW k \in 1..Len(s), Len(s) - k < n
      PROVE  \E i \in 1..Len(t) :
               /\ t[i] = s[k]
               /\ \A j \in 1..Len(t) : j > i => \E l \in 1..Len(s) : l > k /\ t[j] = s[l]
  <2> DEFINE i == k - a + 1
  <2>1. i \in 1..Len(t) /\ a + i - 1 = k
    BY <1>1, <1>2, <1>3, <1>6
  <2>2. ASSUME NEW j \in 1..Len(t), j > i PROVE \E l \in 1..Len(s) : l > k /\ t[j] = s[l]
    <3>1. a + j - 1 \in 1..Len(s) /\ a + j - 1 > k /\ t[j] = s[a + j - 1]
      BY <1>1, <1>2, <1>3, <2>2
    <3>2. QED
      BY <3>1
  <2>3. QED
    BY <1>3, <2>1, <2>2
<1>7. QED
  BY <1>1, <1>3, <1>4, <1>5, <1>6 DEF Thinned

-----------------------------------------------------------------------------
(* What a seat does: its request, and where it is with it.                 *)

Errand ==
  [at : Places, req : Request \cup {NoRequest}, tries : 0..BusyRetries,
   todo : Seq(Range(Fields)), read : SUBSET Text]

CardIn(e) ==
  CASE e.req.op = "user"   -> "USER.md"
    [] e.req.op = "memory" -> e.req.ws
    [] OTHER               -> SetCard(Head(e.todo))
TextIn(e) == IF e.req.op = "set" THEN e.req.cards[Head(e.todo)] ELSE e.req.text
BookIn(e) == IF e.req.op = "user" THEN "global" ELSE e.req.ws

Carding == {"card", "archive", "add"} \cup AtCard

\* What a request is where its seat is: one for a card has its text, of the
\* cap where it is written, and one for a key has a key.
Sound(e) ==
  /\ e.at # "idle" => e.req \in Request
  /\ e.at \in Carding => e.req.op \in CardOps
  /\ e.at = "fields" => e.req.op = "set"
  /\ e.at \in Carding \cup {"fields"} /\ e.req.op = "set" => e.todo \in Seq(DOMAIN e.req.cards)
  /\ e.at \in Carding /\ e.req.op = "set" => e.todo # <<>>
  /\ e.at \in {"open", "write"} => ~ (Chars(TextIn(e)) > Cap)
  /\ e.at \in {"cue", "fire"} => e.req.key \in Keys

RunSound == run \in [Seat -> Errand] /\ \A s \in Seat : Sound(run[s])

\* Seat s goes on with errand e.
Goes(s, e) == e \in Errand /\ Sound(e) /\ run' = [run EXCEPT ![s] = e]

LEMMA InErrand ==
    ASSUME NEW s
    PROVE  /\ CardOf(s) = CardIn(run[s]) /\ TextOf(s) = TextIn(run[s]) /\ BookOf(s) = BookIn(run[s])
           /\ CardOf(s)' = CardIn(run'[s]) /\ TextOf(s)' = TextIn(run'[s]) /\ BookOf(s)' = BookIn(run'[s])
  BY DEF CardOf, CardIn, TextOf, TextIn, BookOf, BookIn

\* An errand that is at another place, with no other change.
At(e, place) == [e EXCEPT !.at = place]

LEMMA AtKeeps ==
    ASSUME NEW e \in Errand, NEW place \in Places
    PROVE  /\ At(e, place) \in Errand /\ At(e, place).at = place
           /\ At(e, place).req = e.req /\ At(e, place).todo = e.todo
           /\ CardIn(At(e, place)) = CardIn(e) /\ TextIn(At(e, place)) = TextIn(e)
           /\ BookIn(At(e, place)) = BookIn(e) /\ At(e, place).read = e.read
<1>1. /\ At(e, place) \in Errand /\ At(e, place).at = place
      /\ At(e, place).req = e.req /\ At(e, place).todo = e.todo /\ At(e, place).read = e.read
  BY DEF At, Errand
<1>2. QED
  BY <1>1 DEF CardIn, TextIn, BookIn

LEMMA IdleIsSound == Idle \in Errand /\ Sound(Idle) /\ Idle.at = "idle"
<1>1. BusyRetries \in Nat
  BY DeskAssumption
<1>2. Idle \in Errand /\ Idle.at = "idle"
  BY <1>1 DEF Idle, Errand, Places
<1>3. QED
  BY <1>2 DEF Sound, Carding, AtCard

LEMMA SetCardIs == ASSUME NEW f PROVE SetCard(f) \in InSet
  BY DEF SetCard, InSet

\* What a request for a card reads.
LEMMA CardsRead ==
    ASSUME NEW e \in Errand, Sound(e), e.at \in Carding
    PROVE  /\ e.req \in Request /\ e.req.ws \in Workspace
           /\ CardIn(e) \in Cards /\ BookIn(e) \in Books /\ TextIn(e) \in Text
           /\ CardIn(e) \in Home \/ e.req.op = "set"
<1>1. e.req \in Request /\ e.req.op \in CardOps
  BY DEF Sound, Carding, AtCard
<1>2. e.req.ws \in Workspace /\ (e.req.op \in {"user", "memory"} => e.req.text \in Text)
      /\ \A f \in DOMAIN e.req.cards : e.req.cards[f] \in Text
  BY <1>1, RequestAssumption
<1>3. e.req.op = "set" => Head(e.todo) \in DOMAIN e.req.cards
  BY DEF Sound
<1>4. TextIn(e) \in Text
  BY <1>1, <1>2, <1>3 DEF TextIn, CardOps
<1>5. CardIn(e) \in Cards /\ (CardIn(e) \in Home \/ e.req.op = "set")
  BY <1>1, <1>2, SetCardIs DEF CardIn, Cards, Home, CardOps
<1>6. BookIn(e) \in Books
  BY <1>2 DEF BookIn, Books
<1>7. QED
  BY <1>1, <1>2, <1>4, <1>5, <1>6

\* What a step of a seat leaves alone of the others.
LEMMA OthersStay ==
    ASSUME RunSound, NEW s \in Seat, NEW e, Goes(s, e)
    PROVE  /\ RunSound' /\ run'[s] = e
           /\ \A t \in Seat : t # s => run'[t] = run[t]
  BY DEF RunSound, Goes

Codes == {0, 200, 400, 401, 404, 413, 503}
ToldTyped == told \in [Seat -> [code : Codes, body : Bodies]]

LEMMA QuietTyped == Quiet \in [code : Codes, body : Bodies]
  BY DEF Quiet, Codes, Bodies, Names

LEMMA NoAnswerTyped == NoAnswer => ToldTyped'
  BY QuietTyped DEF NoAnswer, ToldTyped

LEMMA AnswerDoes ==
    ASSUME RunSound, NEW s \in Seat, NEW code \in Codes, NEW body \in Bodies, Answer(s, code, body)
    PROVE  Goes(s, Idle) /\ ToldTyped'
<1>1. Goes(s, Idle)
  BY IdleIsSound DEF Answer, Goes
<1>2. ToldTyped'
  <2> DEFINE a == [code |-> code, body |-> body]
  <2>1. a \in [code : Codes, body : Bodies]
    OBVIOUS
  <2>2. told' = [t \in Seat |-> IF t = s THEN a ELSE Quiet]
    BY DEF Answer
  <2> HIDE DEF a
  <2>3. QED
    BY <2>1, <2>2, QuietTyped DEF ToldTyped
<1>3. QED
  BY <1>1, <1>2

LEMMA GoDoes ==
    ASSUME RunSound, NEW s \in Seat, NEW place \in Places, Go(s, place), Sound(At(run[s], place))
    PROVE  Goes(s, At(run[s], place)) /\ ToldTyped'
<1>1. run[s] \in Errand
  BY DEF RunSound
<1>2. At(run[s], place) \in Errand
  BY <1>1, AtKeeps
<1>3. run' = [run EXCEPT ![s] = At(run[s], place)]
  BY Zenon DEF Go, At
<1>4. QED
  BY <1>2, <1>3, NoAnswerTyped DEF Goes, Go

\* Where a step leaves an errand that has nothing to do with a card's file,
\* the pin's or an archive's.
Aside == Places \ (AtCard \cup {"pinning", "add"})

LEMMA AskDoes ==
    ASSUME RunSound, NEW s \in Seat, Ask(s)
    PROVE  ToldTyped' /\ \E e : Goes(s, e) /\ e.at \in Aside
<1>1. PICK r \in Request : run' = [run EXCEPT ![s] = [Idle EXCEPT !.at = "sent", !.req = r]]
  BY DEF Ask
<1> DEFINE e == [Idle EXCEPT !.at = "sent", !.req = r]
<1>3. e \in Errand /\ e.at = "sent" /\ e.req = r
  BY IdleIsSound DEF Errand, Places
<1> HIDE DEF e
<1>4. Sound(e)
  BY <1>3 DEF Sound, Carding, AtCard
<1>5. Goes(s, e) /\ e.at \in Aside
  BY <1>1, <1>3, <1>4 DEF Goes, e, Aside, Places, AtCard
<1>6. QED
  BY <1>5, NoAnswerTyped DEF Ask

LEMMA BusyDoes ==
    ASSUME RunSound, NEW s \in Seat, Busy(s)
    PROVE  ToldTyped' /\ \E e : Goes(s, e) /\ e.at \in Aside
<1>1. run[s] \in Errand /\ run[s].at = "sent" /\ Sound(run[s])
  BY DEF Busy, RunSound
<1>2. CASE Answer(s, 503, "")
  <2>1. Goes(s, Idle) /\ ToldTyped'
    <3>1. 503 \in Codes /\ "" \in Bodies
      BY DEF Codes, Bodies, Names
    <3>2. QED
      BY <1>2, <3>1, AnswerDoes
  <2>2. QED
    BY <2>1, IdleIsSound DEF Aside, Places, AtCard
<1>3. CASE run[s].tries < BusyRetries /\ run' = [run EXCEPT ![s].tries = @ + 1] /\ NoAnswer
  <2> DEFINE e == [run[s] EXCEPT !.tries = @ + 1]
  <2>1. run' = [run EXCEPT ![s] = e]
    BY <1>3, Zenon
  <2>2. e \in Errand /\ e.at = "sent" /\ e.req = run[s].req
    <3>1. run[s].tries + 1 \in 0..BusyRetries
      BY <1>1, <1>3, DeskAssumption DEF Errand
    <3>2. QED
      BY <1>1, <3>1 DEF Errand
  <2> HIDE DEF e
  <2>3. Sound(e)
    BY <1>1, <2>2 DEF Sound, Carding, AtCard
  <2>4. Goes(s, e) /\ e.at \in Aside
    BY <2>1, <2>2, <2>3 DEF Goes, Aside, Places, AtCard
  <2>5. QED
    BY <1>3, <2>4, NoAnswerTyped
<1>4. QED
  BY <1>2, <1>3 DEF Busy

LEMMA FieldsTodo ==
    ASSUME NEW r \in Request
    PROVE  /\ Among(Fields, DOMAIN r.cards) \in Seq(Range(Fields))
           /\ Among(Fields, DOMAIN r.cards) \in Seq(DOMAIN r.cards)
<1> DEFINE F == Range(Fields)
           some == DOMAIN r.cards
           t == Among(Fields, some)
<1>1. Fields \in Seq(F)
  BY DEF Fields, Range
<1> HIDE DEF F, some
<1>2. t \in Seq(F) /\ \A i \in 1..Len(t) : t[i] \in some
  BY <1>1, AmongThins
<1> HIDE DEF t
<1>3. t \in Seq(some)
  BY <1>2
<1>4. QED
  BY <1>2, <1>3 DEF t, F, some

LEMMA ServeDoes ==
    ASSUME RunSound, NEW s \in Seat, Serve(s)
    PROVE  ToldTyped' /\ \E e : Goes(s, e) /\ e.at \in Aside
<1>1. run[s] \in Errand /\ run[s].at = "sent" /\ run[s].req \in Request
  BY DEF Serve, RunSound, Sound
<1> DEFINE r == run[s].req
           todo == Among(Fields, DOMAIN r.cards)
<1>2. CASE Refusal(s) # 0 /\ Answer(s, Refusal(s), "")
  <2>1. Refusal(s) \in Codes
    BY DEF Refusal, Codes
  <2>2. Goes(s, Idle) /\ ToldTyped'
    BY <1>2, <2>1, AnswerDoes DEF Bodies, Names
  <2>3. QED
    BY <2>2, IdleIsSound DEF Aside, Places, AtCard
<1>3. CASE /\ Refusal(s) = 0 /\ NoAnswer
           /\ run' = [run EXCEPT ![s] = [@ EXCEPT !.at = First(r), !.tries = 0, !.todo = todo]]
  <2> DEFINE e == [run[s] EXCEPT !.at = First(r), !.tries = 0, !.todo = todo]
  <2>1. run' = [run EXCEPT ![s] = e]
    BY <1>3, Zenon
  <2>2. r.op \in Ops \ {"unknown"} /\ (r.op \in KeyOps => r.key \in Keys)
    <3>1. r.op \in Ops /\ (r.op \in KeyOps => r.key # "")
      BY <1>1, RequestAssumption
    <3>2. r.op # "unknown"
      BY <1>3 DEF Refusal
    <3>3. QED
      BY <1>1, <3>1, <3>2 DEF Keys
  <2>3. /\ First(r) \in {"card", "fields", "pin", "slot", "fire", "cue", "forget"}
        /\ First(r) = "card" => r.op \in {"user", "memory"}
        /\ First(r) = "fields" => r.op = "set"
        /\ First(r) \in {"fire", "cue"} => r.op \in KeyOps
    BY <2>2 DEF First, Ops, CardOps, KeyOps
  <2>4. todo \in Seq(Range(Fields)) /\ todo \in Seq(DOMAIN r.cards)
    BY <1>1, FieldsTodo
  <2> HIDE DEF todo
  <2>5. e \in Errand /\ e.at = First(r) /\ e.req = r /\ e.todo = todo
    <3>1. 0 \in 0..BusyRetries /\ First(r) \in Places
      BY <2>3, DeskAssumption DEF Places
    <3>2. QED
      BY <1>1, <2>4, <3>1 DEF Errand
  <2> HIDE DEF e
  <2>6. Sound(e)
    BY <1>1, <2>2, <2>3, <2>4, <2>5 DEF Sound, Carding, AtCard, CardOps
  <2>7. Goes(s, e) /\ e.at \in Aside
    BY <2>1, <2>3, <2>5, <2>6 DEF Goes, Aside, Places, AtCard
  <2>8. QED
    BY <1>3, <2>7, NoAnswerTyped
<1>4. QED
  BY <1>2, <1>3 DEF Serve

-----------------------------------------------------------------------------
(* The cards.                                                              *)

\* What is no longer in bytes than a text within the cap.
Capped == {t \in Seq(Bytes) : \E text \in Text : Chars(text) <= Cap /\ Len(t) <= Len(text)}

FilesInv ==
  /\ file \in [Cards -> Capped \cup {Absent}]
  /\ mode \in [Cards -> {"rw", "ro"}]
  /\ \A s \in Seat : run[s].at = "write" => file[CardOf(s)] # Absent
  /\ ReadOnlyBetweenWrites

LEMMA TextsAreBytes == ASSUME NEW t \in Text PROVE t \in Seq(Bytes)
<1>1. t \in Seq(STRING)
  BY DeskAssumption
<1>2. \A i \in 1..Len(t) : t[i] \in Bytes
  BY <1>1 DEF Bytes, Range
<1>3. t \in [1..Len(t) -> Bytes] /\ Len(t) \in Nat
  BY <1>1, <1>2
<1>4. QED
  BY <1>3

\* Characters are counted by the bytes that begin them.
LEMMA CharsOf ==
    ASSUME NEW t \in Seq(Bytes)
    PROVE  Chars(t) \in Nat /\ (t = <<>> => Chars(t) = 0)
<1> DEFINE Begins == {i \in DOMAIN t : t[i] \notin Tails}
<1>1. DOMAIN t = 1..Len(t) /\ Len(t) \in Nat
  OBVIOUS
<1>2. IsFiniteSet(DOMAIN t)
  BY <1>1, FS_Interval
<1>3. IsFiniteSet(Begins)
  BY <1>2, FS_Subset
<1>4. Cardinality(Begins) \in Nat
  BY <1>3, FS_CardinalityType
<1>5. t = <<>> => Begins = {}
  BY <1>1
<1>6. QED
  BY <1>4, <1>5, FS_EmptySet DEF Chars

\* A text within the cap, and the empty one beside it, are of its length.
LEMMA TextCapped ==
    ASSUME NEW t \in Text, ~ (Chars(t) > Cap)
    PROVE  t \in Capped /\ <<>> \in Capped /\ Chars(t) <= Cap
<1>1. t \in Seq(Bytes) /\ Len(t) \in Nat /\ Chars(t) \in Nat /\ Cap \in Nat
  BY TextsAreBytes, CharsOf, DeskAssumption
<1>2. Chars(t) <= Cap /\ Len(t) <= Len(t) /\ Len(<<>>) <= Len(t)
  BY <1>1
<1>3. QED
  BY <1>1, <1>2 DEF Capped

LEMMA AbsentIsNoText == Absent \notin Seq(Bytes)
<1>1. "absent" \notin Bytes
  BY DeskAssumption DEF Bytes
<1>2. Absent[1] = "absent" /\ Len(Absent) = 1
  BY DEF Absent
<1>3. QED
  BY <1>1, <1>2

\* A text written over another is a text, and no longer than the longer;
\* over an empty one it is itself.
LEMMA OverlayCapped ==
    ASSUME NEW text \in Capped, NEW there \in Capped
    PROVE  Overlay(text, there) \in Capped /\ (there = <<>> => Overlay(text, there) = text)
<1>1. /\ text \in Seq(Bytes) /\ Len(text) \in Nat
      /\ there \in Seq(Bytes) /\ Len(there) \in Nat
  BY DEF Capped
<1> DEFINE a == Len(text)
           b == Len(there)
           m == Max({a, b})
<1>2. a \in Int /\ b \in Int
  BY <1>1
<1> HIDE DEF a, b
<1>3. m \in {a, b} /\ m >= a /\ m >= b
  BY <1>2, MaxOfTwo
<1> HIDE DEF m
<1>4. m \in Nat
  BY <1>1, <1>2, <1>3 DEF a, b
<1>5. \A i \in 1..m : (IF i <= a THEN text[i] ELSE there[i]) \in Bytes
  <2>1. ASSUME NEW i \in 1..m PROVE (IF i <= a THEN text[i] ELSE there[i]) \in Bytes
    <3>1. CASE i <= a
      BY <1>1, <1>4, <3>1 DEF a
    <3>2. CASE ~ (i <= a)
      <4>1. i \in 1..b
        BY <1>1, <1>2, <1>3, <1>4, <3>2 DEF a, b
      <4>2. QED
        BY <1>1, <3>2, <4>1 DEF b
    <3>3. QED
      BY <3>1, <3>2
  <2>2. QED
    BY <2>1
<1>6. Overlay(text, there) = [i \in 1..m |-> IF i <= a THEN text[i] ELSE there[i]]
  BY DEF Overlay, m, a, b
<1>7. Overlay(text, there) \in [1..m -> Bytes]
  BY <1>5, <1>6
<1> HIDE DEF Overlay
<1>8. Overlay(text, there) \in Seq(Bytes) /\ Len(Overlay(text, there)) = m
  BY <1>4, <1>7
<1>9. \E w \in Text : Chars(w) <= Cap /\ m <= Len(w)
  BY <1>3 DEF Capped, a, b
<1>10. there = <<>> => Overlay(text, there) = text
  <2>1. ASSUME there = <<>> PROVE m = Len(text) /\ \A i \in 1..m : i <= a
    BY <1>1, <1>2, <1>3, <2>1 DEF a, b
  <2>2. QED
    BY <1>1, <1>6, <2>1
<1>11. QED
  BY <1>8, <1>9, <1>10 DEF Capped

LEMMA FilesStay ==
    ASSUME RunSound, FilesInv, NEW s \in Seat, NEW e, Goes(s, e),
           run[s].at \notin AtCard, e.at \notin AtCard, UNCHANGED <<file, mode>>
    PROVE  FilesInv'
<1>1. run'[s] = e /\ \A t \in Seat : t # s => run'[t] = run[t]
  BY OthersStay
<1>2. \A t \in Seat : t # s => CardOf(t)' = CardOf(t)
  BY <1>1, InErrand
<1>3. \A t \in Seat : run'[t].at = "write" => file'[CardOf(t)'] # Absent
  BY <1>1, <1>2 DEF FilesInv, AtCard
<1>4. ReadOnlyBetweenWrites'
  <2>1. ASSUME NEW c \in Home, file[c] # Absent, \A t \in Seat : run'[t].at \in AtCard => CardOf(t)' # c
        PROVE  mode[c] = "ro"
    <3>1. \A t \in Seat : run[t].at \in AtCard => CardOf(t) # c
      BY <1>1, <1>2, <2>1
    <3>2. QED
      BY <2>1, <3>1 DEF FilesInv, ReadOnlyBetweenWrites
  <2>2. QED
    BY <2>1 DEF ReadOnlyBetweenWrites
<1>5. QED
  BY <1>3, <1>4 DEF FilesInv

LEMMA AtSound ==
    ASSUME NEW e \in Errand, Sound(e), e.at \in Carding, NEW place \in Carding,
           place \in {"open", "write"} => ~ (Chars(TextIn(e)) > Cap)
    PROVE  place \in Places /\ Sound(At(e, place))
<1>1. place \in Places
  BY DEF Carding, AtCard, Places
<1>2. /\ At(e, place).at = place /\ At(e, place).req = e.req /\ At(e, place).todo = e.todo
      /\ TextIn(At(e, place)) = TextIn(e)
  BY <1>1, AtKeeps
<1>3. place \notin {"idle", "fields", "cue", "fire"} /\ e.at \notin {"idle", "fields", "cue", "fire"}
  BY DEF Carding, AtCard
<1>4. e.req \in Request
  BY <1>3 DEF Sound
<1>5. e.req.op \in CardOps /\ (e.req.op = "set" => e.todo \in Seq(DOMAIN e.req.cards) /\ e.todo # <<>>)
  BY DEF Sound
<1> HIDE DEF At
<1>6. QED
  BY <1>1, <1>2, <1>3, <1>4, <1>5 DEF Sound

\* A request for a card goes to another place with it.
LEMMA CardGoes ==
    ASSUME RunSound, NEW s \in Seat, run[s].at \in Carding, NEW place \in Carding, Go(s, place),
           place \in {"open", "write"} => ~ Overflows(s)
    PROVE  /\ ToldTyped'
           /\ Goes(s, At(run[s], place))
           /\ run'[s].at = place
           /\ CardOf(s)' = CardOf(s) /\ TextOf(s)' = TextOf(s) /\ BookOf(s)' = BookOf(s)
<1>1. run[s] \in Errand /\ Sound(run[s])
  BY DEF RunSound
<1>2. TextOf(s) = TextIn(run[s])
  BY InErrand
<1>3. place \in Places /\ Sound(At(run[s], place))
  BY <1>1, <1>2, AtSound DEF Overflows
<1>4. Goes(s, At(run[s], place)) /\ ToldTyped'
  BY <1>3, GoDoes
<1>5. run'[s] = At(run[s], place)
  BY <1>4, OthersStay
<1>6. QED
  BY <1>1, <1>3, <1>4, <1>5, AtKeeps, InErrand

LEMMA CardRead ==
    ASSUME RunSound, NEW s \in Seat, run[s].at \in Carding
    PROVE  /\ run[s].req \in Request /\ run[s].req.ws \in Workspace
           /\ CardOf(s) \in Cards /\ BookOf(s) \in Books /\ TextOf(s) \in Text
           /\ CardOf(s) \in Home \/ run[s].req.op = "set"
<1>1. run[s] \in Errand /\ Sound(run[s])
  BY DEF RunSound
<1>2. QED
  BY <1>1, CardsRead, InErrand

\* A step of a seat that is at a card and stays at it, or comes to it.
LEMMA FilesChange ==
    ASSUME RunSound, FilesInv, NEW s \in Seat, NEW e, Goes(s, e), e.at \in AtCard,
           file' \in [Cards -> Capped \cup {Absent}], mode' \in [Cards -> {"rw", "ro"}],
           e.at = "write" => file'[CardIn(e)] # Absent,
           run[s].at \in AtCard => CardOf(s) = CardIn(e),
           \A c \in Cards : c # CardIn(e) => file'[c] = file[c] /\ mode'[c] = mode[c],
           file'[CardIn(e)] = Absent => file[CardIn(e)] = Absent
    PROVE  FilesInv'
<1>1. run'[s] = e /\ RunSound' /\ \A t \in Seat : t # s => run'[t] = run[t]
  BY OthersStay
<1>2. CardOf(s)' = CardIn(e) /\ \A t \in Seat : t # s => CardOf(t)' = CardOf(t)
  BY <1>1, InErrand
<1>3. ASSUME NEW t \in Seat, run'[t].at = "write" PROVE file'[CardOf(t)'] # Absent
  <2>1. CASE t = s
    BY <1>1, <1>2, <1>3, <2>1
  <2>2. CASE t # s
    <3>1. run[t].at = "write" /\ file[CardOf(t)] # Absent
      BY <1>1, <1>3, <2>2 DEF FilesInv
    <3>2. CardOf(t) \in Cards
      BY <3>1, CardRead DEF Carding, AtCard
    <3>3. QED
      BY <1>2, <2>2, <3>1, <3>2
  <2>3. QED
    BY <2>1, <2>2
<1>4. ReadOnlyBetweenWrites'
  <2>1. ASSUME NEW c \in Home, file'[c] # Absent, \A t \in Seat : run'[t].at \in AtCard => CardOf(t)' # c
        PROVE  mode'[c] = "ro"
    <3>1. c # CardIn(e) /\ c \in Cards
      BY <1>1, <1>2, <2>1 DEF Cards
    <3>2. \A t \in Seat : run[t].at \in AtCard => CardOf(t) # c
      BY <1>1, <1>2, <2>1, <3>1
    <3>3. file[c] # Absent /\ mode'[c] = mode[c]
      BY <2>1, <3>1
    <3>4. QED
      BY <3>2, <3>3 DEF FilesInv, ReadOnlyBetweenWrites
  <2>2. QED
    BY <2>1 DEF ReadOnlyBetweenWrites
<1>5. QED
  BY <1>3, <1>4 DEF FilesInv

\* What is in a file or is not, and what a card is.
Elsewhere(e) == e.at \notin {"add", "pinning"}

LEMMA WriteCappedDoes ==
    ASSUME RunSound, FilesInv, NEW s \in Seat, WriteCapped(s)
    PROVE  ToldTyped' /\ FilesInv' /\ \E e : Goes(s, e) /\ Elsewhere(e)
<1>1. run[s].at = "card" /\ run[s].at \in Carding /\ run[s].at \notin AtCard /\ file' = file
  BY DEF WriteCapped, Carding, AtCard
<1>2. CASE Go(s, "archive") /\ UNCHANGED mode
  <2> DEFINE e == At(run[s], "archive")
  <2>1. "archive" \in Carding /\ "archive" \notin {"open", "write"} \cup AtCard
    BY DEF Carding, AtCard
  <2>2. ToldTyped' /\ Goes(s, e) /\ run'[s].at = "archive"
    BY <1>1, <1>2, <2>1, CardGoes
  <2> HIDE DEF e
  <2>3. e.at = "archive"
    BY <2>2, OthersStay
  <2>4. FilesInv'
    BY <1>1, <1>2, <2>1, <2>2, <2>3, FilesStay
  <2>5. QED
    BY <2>2, <2>3, <2>4 DEF Elsewhere
<1>3. CASE Answer(s, 413, "") /\ UNCHANGED mode
  <2>1. 413 \in Codes /\ "" \in Bodies
    BY DEF Codes, Bodies, Names
  <2>2. Goes(s, Idle) /\ ToldTyped'
    BY <1>3, <2>1, AnswerDoes
  <2>3. Idle.at = "idle" /\ Idle.at \notin AtCard
    BY IdleIsSound DEF AtCard
  <2>4. FilesInv'
    BY <1>1, <1>3, <2>2, <2>3, FilesStay
  <2>5. QED
    BY <2>2, <2>3, <2>4 DEF Elsewhere
<1>4. CASE ~ Overflows(s) /\ Go(s, "open") /\ Writable(CardOf(s))
  <2> DEFINE e == At(run[s], "open")
  <2>1. "open" \in Carding /\ "open" \in AtCard
    BY DEF Carding, AtCard
  <2>2. ToldTyped' /\ Goes(s, e) /\ run'[s].at = "open" /\ CardOf(s)' = CardOf(s)
    BY <1>1, <1>4, <2>1, CardGoes
  <2> HIDE DEF e
  <2>3. e.at = "open" /\ CardIn(e) = CardOf(s)
    BY <2>2, OthersStay, InErrand
  <2>4. CardOf(s) \in Cards
    BY <1>1, CardRead
  <2>5. mode' \in [Cards -> {"rw", "ro"}] /\ \A c \in Cards : c # CardOf(s) => mode'[c] = mode[c]
    BY <1>4, <2>4 DEF Writable, FilesInv
  <2>6. FilesInv'
    <3>1. file' \in [Cards -> Capped \cup {Absent}]
      BY <1>1 DEF FilesInv
    <3>2. e.at \in AtCard /\ e.at # "write"
      BY <2>1, <2>3
    <3>3. /\ \A c \in Cards : c # CardIn(e) => file'[c] = file[c] /\ mode'[c] = mode[c]
          /\ file'[CardIn(e)] = Absent => file[CardIn(e)] = Absent
      BY <1>1, <2>3, <2>5
    <3>4. QED
      BY <1>1, <2>2, <2>5, <3>1, <3>2, <3>3, FilesChange
  <2>7. QED
    BY <2>2, <2>3, <2>6 DEF Elsewhere
<1>5. QED
  BY <1>2, <1>3, <1>4 DEF WriteCapped

LEMMA OpenDoes ==
    ASSUME RunSound, FilesInv, NEW s \in Seat, Open(s)
    PROVE  ToldTyped' /\ FilesInv' /\ \E e : Goes(s, e) /\ Elsewhere(e)
<1>1. run[s].at = "open" /\ run[s].at \in Carding /\ run[s].at \in AtCard /\ mode' = mode
  BY DEF Open, Carding, AtCard
<1>2. ~ Overflows(s) /\ CardOf(s) \in Cards /\ TextOf(s) \in Text
  <2>1. Sound(run[s])
    BY DEF RunSound
  <2>2. QED
    BY <1>1, <2>1, CardRead, InErrand DEF Sound, Overflows
<1>3. mode' \in [Cards -> {"rw", "ro"}]
  BY <1>1 DEF FilesInv
<1>4. CASE file' = [file EXCEPT ![CardOf(s)] = <<>>] /\ Go(s, "write")
  <2> DEFINE e == At(run[s], "write")
  <2>1. "write" \in Carding /\ "write" \in AtCard
    BY DEF Carding, AtCard
  <2>2. ToldTyped' /\ Goes(s, e) /\ run'[s].at = "write" /\ CardOf(s)' = CardOf(s)
    BY <1>1, <1>2, <1>4, <2>1, CardGoes
  <2> HIDE DEF e
  <2>3. e.at = "write" /\ CardIn(e) = CardOf(s)
    BY <2>2, OthersStay, InErrand
  <2>4. <<>> \in Capped /\ <<>> # Absent
    BY <1>2, TextCapped DEF Overflows, Absent
  <2>5. /\ file' \in [Cards -> Capped \cup {Absent}] /\ file'[CardOf(s)] # Absent
        /\ \A c \in Cards : c # CardOf(s) => file'[c] = file[c]
    BY <1>2, <1>4, <2>4 DEF FilesInv
  <2>6. FilesInv'
    BY <1>1, <1>3, <2>1, <2>2, <2>3, <2>5, FilesChange
  <2>7. QED
    BY <2>2, <2>3, <2>6 DEF Elsewhere
<1>5. CASE file' = file /\ Go(s, "failed")
  <2> DEFINE e == At(run[s], "failed")
  <2>1. "failed" \in Carding /\ "failed" \in AtCard /\ "failed" \notin {"open", "write"}
    BY DEF Carding, AtCard
  <2>2. ToldTyped' /\ Goes(s, e) /\ run'[s].at = "failed" /\ CardOf(s)' = CardOf(s)
    BY <1>1, <1>5, <2>1, CardGoes
  <2> HIDE DEF e
  <2>3. e.at = "failed" /\ CardIn(e) = CardOf(s)
    BY <2>2, OthersStay, InErrand
  <2>4. file' \in [Cards -> Capped \cup {Absent}]
    BY <1>5 DEF FilesInv
  <2>5. FilesInv'
    BY <1>1, <1>3, <1>5, <2>1, <2>2, <2>3, <2>4, FilesChange
  <2>6. QED
    BY <2>2, <2>3, <2>5 DEF Elsewhere
<1>6. QED
  BY <1>4, <1>5 DEF Open

LEMMA WriteDoes ==
    ASSUME RunSound, FilesInv, NEW s \in Seat, Write(s)
    PROVE  ToldTyped' /\ FilesInv' /\ \E e : Goes(s, e) /\ Elsewhere(e)
<1>1. run[s].at = "write" /\ run[s].at \in Carding /\ run[s].at \in AtCard /\ mode' = mode
  BY DEF Write, Carding, AtCard
<1>2. CardOf(s) \in Cards /\ TextOf(s) \in Capped /\ file[CardOf(s)] \in Capped
  <2>1. Sound(run[s])
    BY DEF RunSound
  <2>2. TextOf(s) \in Text /\ CardOf(s) \in Cards /\ ~ (Chars(TextOf(s)) > Cap)
    BY <1>1, <2>1, CardRead, InErrand DEF Sound
  <2>3. TextOf(s) \in Capped
    BY <2>2, TextCapped
  <2>4. file[CardOf(s)] # Absent
    BY <1>1 DEF FilesInv
  <2>5. QED
    BY <2>2, <2>3, <2>4 DEF FilesInv
<1>3. mode' \in [Cards -> {"rw", "ro"}]
  BY <1>1 DEF FilesInv
<1>4. CASE file' = [file EXCEPT ![CardOf(s)] = Overlay(TextOf(s), @)] /\ Go(s, "written")
  <2> DEFINE e == At(run[s], "written")
             o == Overlay(TextOf(s), file[CardOf(s)])
  <2>1. "written" \in Carding /\ "written" \in AtCard /\ "written" \notin {"open", "write"}
    BY DEF Carding, AtCard
  <2>2. ToldTyped' /\ Goes(s, e) /\ run'[s].at = "written" /\ CardOf(s)' = CardOf(s)
    BY <1>1, <1>4, <2>1, CardGoes
  <2> HIDE DEF e
  <2>3. e.at = "written" /\ CardIn(e) = CardOf(s)
    BY <2>2, OthersStay, InErrand
  <2>4. o \in Capped /\ o # Absent
    BY <1>2, OverlayCapped, AbsentIsNoText DEF Capped
  <2>5. file' = [file EXCEPT ![CardOf(s)] = o]
    BY <1>4
  <2> HIDE DEF o
  <2>6. /\ file' \in [Cards -> Capped \cup {Absent}] /\ file'[CardOf(s)] # Absent
        /\ \A c \in Cards : c # CardOf(s) => file'[c] = file[c]
    BY <1>2, <2>4, <2>5 DEF FilesInv
  <2>7. FilesInv'
    BY <1>1, <1>3, <2>1, <2>2, <2>3, <2>6, FilesChange
  <2>8. QED
    BY <2>2, <2>3, <2>7 DEF Elsewhere
<1>5. CASE file' = file /\ Go(s, "failed")
  <2> DEFINE e == At(run[s], "failed")
  <2>1. "failed" \in Carding /\ "failed" \in AtCard /\ "failed" \notin {"open", "write"}
    BY DEF Carding, AtCard
  <2>2. ToldTyped' /\ Goes(s, e) /\ run'[s].at = "failed" /\ CardOf(s)' = CardOf(s)
    BY <1>1, <1>5, <2>1, CardGoes
  <2> HIDE DEF e
  <2>3. e.at = "failed" /\ CardIn(e) = CardOf(s)
    BY <2>2, OthersStay, InErrand
  <2>4. file' \in [Cards -> Capped \cup {Absent}]
    BY <1>5 DEF FilesInv
  <2>5. FilesInv'
    BY <1>1, <1>3, <1>5, <2>1, <2>2, <2>3, <2>4, FilesChange
  <2>6. QED
    BY <2>2, <2>3, <2>5 DEF Elsewhere
<1>6. QED
  BY <1>4, <1>5 DEF Write

\* A seat that has written, or failed to, seals its card and leaves it.
LEMMA OnwardsDoes ==
    ASSUME RunSound, NEW s \in Seat, Onwards(s)
    PROVE  /\ run[s].at \in Carding /\ run[s].at \in AtCard
           /\ ToldTyped' /\ \E e : Goes(s, e) /\ e.at \in {"idle", "fields"}
<1>1. run[s].at \in {"failed", "written"} /\ run[s].at \in Carding /\ run[s].at \in AtCard
  BY DEF Onwards, Carding, AtCard
<1>2. ASSUME NEW code \in {200, 400}, Answer(s, code, "")
      PROVE  ToldTyped' /\ \E e : Goes(s, e) /\ e.at \in {"idle", "fields"}
  <2>1. code \in Codes /\ "" \in Bodies
    BY DEF Codes, Bodies, Names
  <2>2. Goes(s, Idle) /\ ToldTyped'
    BY <1>2, <2>1, AnswerDoes
  <2>3. QED
    BY <2>2, IdleIsSound
<1>3. CASE /\ run[s].at = "written" /\ run[s].req.op = "set" /\ NoAnswer
           /\ run' = [run EXCEPT ![s] = [@ EXCEPT !.at = "fields", !.todo = Tail(run[s].todo)]]
  <2> DEFINE e == [run[s] EXCEPT !.at = "fields", !.todo = Tail(run[s].todo)]
  <2>1. run' = [run EXCEPT ![s] = e]
    BY <1>3, Zenon
  <2>2. run[s] \in Errand /\ Sound(run[s])
    BY DEF RunSound
  <2>3. /\ run[s].req \in Request
        /\ run[s].todo \in Seq(DOMAIN run[s].req.cards) /\ run[s].todo # <<>>
    BY <1>1, <1>3, <2>2 DEF Sound, Carding, AtCard
  <2> DEFINE D == DOMAIN run[s].req.cards
             F == Range(Fields)
             rest == Tail(run[s].todo)
  <2>4. run[s].todo \in Seq(F)
    BY <2>2 DEF Errand
  <2> HIDE DEF D, F
  <2>5. rest \in Seq(F) /\ rest \in Seq(D)
    <3> DEFINE todo == run[s].todo
    <3>1. todo \in Seq(F) /\ todo \in Seq(D) /\ todo # <<>>
      BY <2>3, <2>4 DEF D
    <3> HIDE DEF todo
    <3>2. Tail(todo) \in Seq(F) /\ Tail(todo) \in Seq(D)
      BY <3>1, HeadTailProperties
    <3>3. QED
      BY <3>2 DEF todo
  <2> HIDE DEF rest
  <2>6. e \in Errand /\ e.at = "fields" /\ e.req = run[s].req /\ e.todo = rest
    <3>1. e = [run[s] EXCEPT !.at = "fields", !.todo = rest]
      BY Zenon DEF rest
    <3>2. "fields" \in Places
      BY DEF Places
    <3>3. QED
      BY <2>2, <2>5, <3>1, <3>2 DEF Errand, F
  <2> HIDE DEF e
  <2>7. Sound(e)
    BY <1>3, <2>3, <2>5, <2>6 DEF Sound, Carding, AtCard, D
  <2>8. Goes(s, e)
    BY <2>1, <2>6, <2>7 DEF Goes
  <2>9. QED
    BY <1>1, <1>3, <2>6, <2>8, NoAnswerTyped
<1>4. ToldTyped' /\ \E e : Goes(s, e) /\ e.at \in {"idle", "fields"}
  BY <1>2, <1>3 DEF Onwards
<1>5. QED
  BY <1>1, <1>4

LEMMA SealDoes ==
    ASSUME RunSound, FilesInv, NEW s \in Seat, Seal(s)
    PROVE  ToldTyped' /\ FilesInv' /\ \E e : Goes(s, e) /\ Elsewhere(e)
<1>1. Onwards(s) /\ Sealed(s) /\ file' = file
  BY DEF Seal
<1>2. ToldTyped' /\ run[s].at \in Carding /\ run[s].at \in AtCard
  BY <1>1, OnwardsDoes
<1>3. PICK e : Goes(s, e) /\ e.at \in {"idle", "fields"}
  BY <1>1, OnwardsDoes
<1>4. CardOf(s) \in Cards
  BY <1>2, CardRead
<1>5. /\ mode' \in [Cards -> {"rw", "ro"}]
      /\ \A c \in Cards : c # CardOf(s) => mode'[c] = mode[c]
      /\ CardOf(s) \in Home /\ file[CardOf(s)] # Absent => mode'[CardOf(s)] = "ro"
  BY <1>1, <1>4 DEF Sealed, FilesInv
<1>6. run'[s] = e /\ \A t \in Seat : t # s => run'[t] = run[t]
  BY <1>3, OthersStay
<1>7. e.at \notin AtCard
  BY <1>3 DEF AtCard
<1>8. \A t \in Seat : t # s => CardOf(t)' = CardOf(t)
  BY <1>6, InErrand
<1>9. ASSUME NEW t \in Seat, run'[t].at = "write" PROVE file'[CardOf(t)'] # Absent
  BY <1>1, <1>6, <1>7, <1>8, <1>9 DEF FilesInv, AtCard
<1>10. ReadOnlyBetweenWrites'
  <2>1. ASSUME NEW c \in Home, file[c] # Absent, \A t \in Seat : run'[t].at \in AtCard => CardOf(t)' # c
        PROVE  mode'[c] = "ro"
    <3>1. CASE c = CardOf(s)
      BY <1>5, <2>1, <3>1
    <3>2. CASE c # CardOf(s)
      <4>1. \A t \in Seat : run[t].at \in AtCard => CardOf(t) # c
        BY <1>6, <1>8, <2>1, <3>2
      <4>2. mode[c] = "ro" /\ c \in Cards
        BY <2>1, <4>1 DEF FilesInv, ReadOnlyBetweenWrites, Cards
      <4>3. QED
        BY <1>5, <3>2, <4>2
    <3>3. QED
      BY <3>1, <3>2
  <2>2. QED
    BY <1>1, <2>1 DEF ReadOnlyBetweenWrites
<1>11. FilesInv'
  BY <1>1, <1>5, <1>9, <1>10 DEF FilesInv
<1>12. QED
  BY <1>2, <1>3, <1>11 DEF Elsewhere

LEMMA WriteSetDoes ==
    ASSUME RunSound, NEW s \in Seat, WriteSet(s)
    PROVE  ToldTyped' /\ \E e : Goes(s, e) /\ e.at \in Aside
<1>1. run[s].at = "fields" /\ run[s] \in Errand /\ Sound(run[s])
  BY DEF WriteSet, RunSound
<1>2. CASE Answer(s, 200, "")
  <2>1. 200 \in Codes /\ "" \in Bodies
    BY DEF Codes, Bodies, Names
  <2>2. Goes(s, Idle) /\ ToldTyped'
    BY <1>2, <2>1, AnswerDoes
  <2>3. QED
    BY <2>2, IdleIsSound DEF Aside, Places, AtCard
<1>3. CASE run[s].todo # <<>> /\ Go(s, "card")
  <2> DEFINE e == At(run[s], "card")
  <2>1. "card" \in Places /\ e.at = "card" /\ e.req = run[s].req /\ e.todo = run[s].todo
    BY <1>1, AtKeeps DEF Places
  <2> HIDE DEF e
  <2>2. Sound(e)
    BY <1>1, <1>3, <2>1 DEF Sound, Carding, AtCard, CardOps
  <2>3. Goes(s, e) /\ ToldTyped'
    BY <1>3, <2>1, <2>2, GoDoes DEF e
  <2>4. QED
    BY <2>1, <2>3 DEF Aside, Places, AtCard
<1>4. QED
  BY <1>2, <1>3 DEF WriteSet

-----------------------------------------------------------------------------
(* The cards two requests have open at once.                               *)

TornInv ==
  /\ torn \subseteq Cards
  /\ \A s, t \in Seat :
       run[s].at = "write" /\ run[t].at = "write" /\ CardOf(s) = CardOf(t) /\ s # t => CardOf(s) \in torn
  /\ \A s \in Seat : run[s].at = "write" /\ CardOf(s) \notin torn => file[CardOf(s)] = <<>>
  /\ \A c \in Cards : file[c] # Absent /\ c \notin torn => Chars(file[c]) <= Cap

\* A step that empties no file and writes none.
LEMMA TornStay ==
    ASSUME RunSound, TornInv, NEW s \in Seat, NEW e, Goes(s, e), e.at # "write",
           UNCHANGED <<file, torn>>
    PROVE  TornInv'
<1>1. run'[s] = e /\ \A t \in Seat : t # s => run'[t] = run[t] /\ CardOf(t)' = CardOf(t)
  BY OthersStay, InErrand
<1>2. \A t \in Seat : run'[t].at = "write" => run[t].at = "write" /\ CardOf(t)' = CardOf(t)
  BY <1>1
<1>3. \A t, u \in Seat :
        run'[t].at = "write" /\ run'[u].at = "write" /\ CardOf(t)' = CardOf(u)' /\ t # u => CardOf(t)' \in torn'
  BY <1>2 DEF TornInv
<1>4. \A t \in Seat : run'[t].at = "write" /\ CardOf(t)' \notin torn' => file'[CardOf(t)'] = <<>>
  BY <1>2 DEF TornInv
<1>5. QED
  BY <1>3, <1>4 DEF TornInv

\* A file is emptied: by one request alone, or while another has it open.
LEMMA OpenTears == ASSUME RunSound, FilesInv, TornInv, NEW s \in Seat, Open(s) PROVE TornInv'
<1>1. run[s].at = "open" /\ run[s].at \in Carding
  BY DEF Open, Carding, AtCard
<1>2. ~ Overflows(s) /\ CardOf(s) \in Cards /\ TextOf(s) \in Text
  <2>1. Sound(run[s])
    BY DEF RunSound
  <2>2. QED
    BY <1>1, <2>1, CardRead, InErrand DEF Sound, Overflows
<1> DEFINE c == CardOf(s)
           shared == \E t \in Seat \ {s} : run[t].at = "write" /\ CardOf(t) = c
<1>3. CASE Go(s, "failed") /\ UNCHANGED <<file, torn>>
  <2>1. "failed" \in Carding /\ "failed" \notin {"open", "write"}
    BY DEF Carding, AtCard
  <2>2. Goes(s, At(run[s], "failed")) /\ run'[s].at = "failed"
    BY <1>1, <1>3, <2>1, CardGoes
  <2>3. At(run[s], "failed").at # "write"
    BY <2>1, <2>2, OthersStay
  <2>4. QED
    BY <1>3, <2>2, <2>3, TornStay
<1>4. CASE /\ Go(s, "write") /\ file' = [file EXCEPT ![c] = <<>>]
           /\ torn' = IF shared THEN torn \cup {c} ELSE torn \ {c}
  <2>1. "write" \in Carding
    BY DEF Carding, AtCard
  <2>2. Goes(s, At(run[s], "write")) /\ run'[s].at = "write" /\ CardOf(s)' = c
    BY <1>1, <1>2, <1>4, <2>1, CardGoes
  <2>3. \A t \in Seat : t # s => run'[t] = run[t] /\ CardOf(t)' = CardOf(t)
    BY <2>2, OthersStay, InErrand
  <2> HIDE DEF c, shared
  <2>4. \A d : d # c => file'[d] = file[d] /\ (d \in torn' <=> d \in torn)
    BY <1>2, <1>4 DEF FilesInv, c
  <2>5. file'[c] = <<>>
    BY <1>2, <1>4 DEF FilesInv, c
  <2>6. (c \in torn' <=> shared) /\ torn' \subseteq Cards
    BY <1>2, <1>4 DEF TornInv, c
  <2>7. ASSUME NEW t \in Seat, NEW u \in Seat, run'[t].at = "write", run'[u].at = "write",
               CardOf(t)' = CardOf(u)', t # u
        PROVE  CardOf(t)' \in torn'
    <3>1. CASE CardOf(t)' = c
      BY <2>2, <2>3, <2>6, <2>7, <3>1 DEF shared
    <3>2. CASE CardOf(t)' # c
      <4>1. t # s /\ u # s
        BY <2>2, <2>7, <3>2
      <4>2. CardOf(t) \in torn
        BY <2>3, <2>7, <4>1 DEF TornInv
      <4>3. QED
        BY <2>3, <2>4, <3>2, <4>1, <4>2 DEF TornInv
    <3>3. QED
      BY <3>1, <3>2
  <2>8. ASSUME NEW t \in Seat, run'[t].at = "write", CardOf(t)' \notin torn'
        PROVE  file'[CardOf(t)'] = <<>>
    <3>1. CASE CardOf(t)' = c
      BY <2>5, <3>1
    <3>2. CASE CardOf(t)' # c
      BY <2>2, <2>3, <2>4, <2>8, <3>2 DEF TornInv
    <3>3. QED
      BY <3>1, <3>2
  <2>9. ASSUME NEW d \in Cards, file'[d] # Absent, d \notin torn' PROVE Chars(file'[d]) <= Cap
    <3>1. <<>> \in Seq(Bytes) /\ Cap \in Nat
      BY DeskAssumption
    <3>2. Chars(<<>>) = 0
      BY <3>1, CharsOf, Zenon
    <3>3. Chars(<<>>) <= Cap
      BY <3>1, <3>2
    <3>4. QED
      BY <2>4, <2>5, <2>9, <3>3 DEF TornInv
  <2>10. QED
    BY <2>6, <2>7, <2>8, <2>9 DEF TornInv
<1>5. QED
  BY <1>3, <1>4 DEF Open

\* A file that one request alone has open is empty, and becomes its text.
LEMMA WriteTears == ASSUME RunSound, FilesInv, TornInv, NEW s \in Seat, Write(s) PROVE TornInv'
<1>1. run[s].at = "write" /\ run[s].at \in Carding /\ torn' = torn
  BY DEF Write, Carding, AtCard
<1> DEFINE c == CardOf(s)
           o == Overlay(TextOf(s), file[c])
<1>2. c \in Cards /\ TextOf(s) \in Text /\ ~ (Chars(TextOf(s)) > Cap) /\ file[c] \in Capped
  <2>1. Sound(run[s])
    BY DEF RunSound
  <2>2. TextOf(s) \in Text /\ c \in Cards /\ ~ (Chars(TextOf(s)) > Cap)
    BY <1>1, <2>1, CardRead, InErrand DEF Sound
  <2>3. QED
    BY <1>1, <2>2 DEF FilesInv
<1>3. CASE Go(s, "failed") /\ UNCHANGED file
  <2>1. "failed" \in Carding /\ "failed" \notin {"open", "write"}
    BY DEF Carding, AtCard
  <2>2. Goes(s, At(run[s], "failed")) /\ run'[s].at = "failed"
    BY <1>1, <1>3, <2>1, CardGoes
  <2>3. At(run[s], "failed").at # "write"
    BY <2>1, <2>2, OthersStay
  <2>4. QED
    BY <1>1, <1>3, <2>2, <2>3, TornStay
<1>4. CASE Go(s, "written") /\ file' = [file EXCEPT ![c] = Overlay(TextOf(s), @)]
  <2>1. "written" \in Carding /\ "written" \notin {"open", "write"}
    BY DEF Carding, AtCard
  <2>2. Goes(s, At(run[s], "written")) /\ run'[s].at = "written"
    BY <1>1, <1>4, <2>1, CardGoes
  <2>3. \A t \in Seat : t # s => run'[t] = run[t] /\ CardOf(t)' = CardOf(t)
    BY <2>2, OthersStay, InErrand
  <2>4. c \notin torn => o = TextOf(s) /\ Chars(o) <= Cap
    BY <1>1, <1>2, TextCapped, OverlayCapped DEF TornInv
  <2>5. file' = [file EXCEPT ![c] = o]
    BY <1>4
  <2> HIDE DEF c, o
  <2>6. file'[c] = o /\ \A d : d # c => file'[d] = file[d]
    BY <1>2, <2>5 DEF FilesInv
  <2>7. \A t \in Seat : run'[t].at = "write" => t # s /\ run[t].at = "write" /\ CardOf(t)' = CardOf(t)
    BY <2>1, <2>2, <2>3
  <2>8. \A t, u \in Seat :
          run'[t].at = "write" /\ run'[u].at = "write" /\ CardOf(t)' = CardOf(u)' /\ t # u => CardOf(t)' \in torn'
    BY <1>1, <2>7 DEF TornInv
  <2>9. ASSUME NEW t \in Seat, run'[t].at = "write", CardOf(t)' \notin torn'
        PROVE  file'[CardOf(t)'] = <<>>
    <3>1. CASE CardOf(t) = c
      BY <1>1, <2>7, <2>9, <3>1 DEF TornInv, c
    <3>2. CASE CardOf(t) # c
      BY <1>1, <2>6, <2>7, <2>9, <3>2 DEF TornInv
    <3>3. QED
      BY <3>1, <3>2
  <2>10. \A d \in Cards : file'[d] # Absent /\ d \notin torn' => Chars(file'[d]) <= Cap
    BY <1>1, <2>4, <2>6 DEF TornInv
  <2>11. QED
    BY <1>1, <2>8, <2>9, <2>10 DEF TornInv
<1>5. QED
  BY <1>3, <1>4 DEF Write

-----------------------------------------------------------------------------
(* The archives.                                                           *)

BooksInv ==
  /\ book \in [Books -> SUBSET Text]
  /\ refused \subseteq Books \X Text /\ spoiled \subseteq Books
  /\ \A s \in Seat : run[s].at = "add" /\ BookOf(s) \notin spoiled =>
       /\ book[BookOf(s)] = run[s].read
       /\ \A t \in Seat : run[t].at = "add" /\ BookOf(t) = BookOf(s) => t = s
  /\ OverflowIsKept

LEMMA BooksStay ==
    ASSUME RunSound, BooksInv, NEW s \in Seat, NEW e, Goes(s, e), e.at # "add",
           UNCHANGED <<book, refused, spoiled>>
    PROVE  BooksInv'
<1>1. run'[s] = e /\ \A t \in Seat : t # s => run'[t] = run[t]
  BY OthersStay
<1>2. \A t \in Seat : t # s => BookOf(t)' = BookOf(t)
  BY <1>1, InErrand
<1>3. \A t \in Seat : run'[t].at = "add" => t # s /\ run'[t] = run[t] /\ BookOf(t)' = BookOf(t)
  BY <1>1, <1>2
<1>4. ASSUME NEW t \in Seat, run'[t].at = "add", BookOf(t)' \notin spoiled'
      PROVE  /\ book'[BookOf(t)'] = run'[t].read
             /\ \A u \in Seat : run'[u].at = "add" /\ BookOf(u)' = BookOf(t)' => u = t
  BY <1>3, <1>4 DEF BooksInv
<1>5. OverflowIsKept'
  BY DEF BooksInv, OverflowIsKept
<1>6. QED
  BY <1>4, <1>5 DEF BooksInv

LEMMA ArchiveReadsDoes ==
    ASSUME RunSound, FilesInv, BooksInv, NEW s \in Seat, ArchiveReads(s)
    PROVE  /\ ToldTyped' /\ FilesInv' /\ BooksInv' /\ UNCHANGED <<file, torn>>
           /\ \E e : Goes(s, e) /\ e.at = "add"
<1> DEFINE b == BookOf(s)
<1>1. PICK kept \in {book[b], {}} :
        /\ run' = [run EXCEPT ![s] = [@ EXCEPT !.at = "add", !.read = kept]]
        /\ spoiled' = spoiled \cup {BookOf(t) : t \in {t \in Seat \ {s} : run[t].at = "add" /\ BookOf(t) = b}}
                              \cup {d \in {b} : kept # book[d]}
  BY DEF ArchiveReads
<1> DEFINE e == [run[s] EXCEPT !.at = "add", !.read = kept]
<1>2. run[s].at = "archive" /\ run[s] \in Errand /\ Sound(run[s]) /\ NoAnswer
  BY DEF ArchiveReads, RunSound
<1>3. run' = [run EXCEPT ![s] = e]
  BY <1>1, Zenon
<1>4. run[s].at \in Carding /\ run[s].at \notin AtCard /\ "add" \in Carding /\ "add" \in Places /\ "add" \notin AtCard
  BY <1>2 DEF Carding, AtCard, Places
<1>5. b \in Books
  BY <1>4, CardRead
<1>6. kept \in SUBSET Text
  BY <1>5, <1>1 DEF BooksInv
<1>7. e \in Errand /\ e.at = "add" /\ e.req = run[s].req /\ e.todo = run[s].todo /\ e.read = kept
  <2>1. e = [run[s] EXCEPT !.at = "add", !.read = kept]
    BY Zenon
  <2> HIDE DEF e
  <2>2. QED
    BY <1>2, <1>4, <1>6, <2>1 DEF Errand
<1> HIDE DEF e
<1>8. Sound(e)
  BY <1>2, <1>4, <1>7 DEF Sound, Carding, AtCard
<1>9. Goes(s, e)
  BY <1>3, <1>7, <1>8 DEF Goes
<1>10. UNCHANGED <<file, torn, mode, book, refused>>
  BY DEF ArchiveReads, disk
<1>11. FilesInv'
  BY <1>4, <1>7, <1>9, <1>10, FilesStay
<1>12. run'[s] = e /\ \A t \in Seat : t # s => run'[t] = run[t]
  BY <1>9, OthersStay
<1>13. BookOf(s)' = b /\ \A t \in Seat : t # s => BookOf(t)' = BookOf(t)
  BY <1>7, <1>12, InErrand DEF BookIn
<1> HIDE DEF b
<1>14. /\ spoiled \subseteq spoiled' /\ spoiled' \subseteq Books
       /\ \A t \in Seat : t # s /\ run[t].at = "add" /\ BookOf(t) = b => b \in spoiled'
       /\ (b \notin spoiled' => kept = book[b])
  BY <1>5, <1>1 DEF BooksInv
<1>15. ASSUME NEW t \in Seat, run'[t].at = "add", BookOf(t)' \notin spoiled'
       PROVE  /\ book'[BookOf(t)'] = run'[t].read
              /\ \A u \in Seat : run'[u].at = "add" /\ BookOf(u)' = BookOf(t)' => u = t
  <2>1. CASE t = s
    <3>1. BookOf(t)' = b /\ b \notin spoiled' /\ run'[t].read = book[b]
      BY <1>7, <1>12, <1>13, <1>14, <1>15, <2>1
    <3>2. ASSUME NEW u \in Seat, run'[u].at = "add", BookOf(u)' = b PROVE u = s
      BY <1>12, <1>13, <1>14, <3>1, <3>2
    <3>3. QED
      BY <1>10, <2>1, <3>1, <3>2
  <2>2. CASE t # s
    <3>1. run[t].at = "add" /\ BookOf(t)' = BookOf(t) /\ BookOf(t) \notin spoiled /\ run'[t] = run[t]
      BY <1>12, <1>13, <1>14, <1>15, <2>2
    <3>2. BookOf(t) # b
      BY <1>14, <1>15, <2>2, <3>1
    <3>3. QED
      BY <1>10, <1>12, <1>13, <3>1, <3>2 DEF BooksInv
  <2>3. QED
    BY <2>1, <2>2
<1>16. OverflowIsKept'
  BY <1>10, <1>14 DEF BooksInv, OverflowIsKept
<1>17. BooksInv'
  BY <1>10, <1>14, <1>15, <1>16 DEF BooksInv
<1>18. QED
  BY <1>2, <1>7, <1>9, <1>10, <1>11, <1>17, NoAnswerTyped

LEMMA ArchiveAddsDoes ==
    ASSUME RunSound, FilesInv, BooksInv, NEW s \in Seat, ArchiveAdds(s)
    PROVE  /\ ToldTyped' /\ FilesInv' /\ BooksInv' /\ UNCHANGED <<file, torn>>
           /\ \E e : Goes(s, e) /\ e.at = "idle"
<1> DEFINE b == BookOf(s)
           text == TextOf(s)
<1>1. run[s].at = "add" /\ run[s].at \in Carding /\ run[s].at \notin AtCard
  BY DEF ArchiveAdds, Carding, AtCard
<1>2. b \in Books /\ text \in Text
  BY <1>1, CardRead
<1>3. run[s].read \in SUBSET Text
  BY DEF RunSound, Errand
<1>4. Goes(s, Idle) /\ ToldTyped' /\ Idle.at = "idle"
  <2>1. PICK code \in {413, 400} : Answer(s, code, "")
    BY DEF ArchiveAdds, Archived, ArchiveFails
  <2>2. code \in Codes /\ "" \in Bodies
    BY DEF Codes, Bodies, Names
  <2>3. Goes(s, Idle) /\ ToldTyped'
    BY <2>1, <2>2, AnswerDoes
  <2>4. QED
    BY <2>3, IdleIsSound
<1>5. UNCHANGED <<file, torn, mode>>
  BY DEF ArchiveAdds
<1>6. FilesInv'
  BY <1>1, <1>4, <1>5, FilesStay DEF AtCard
<1>7. run'[s] = Idle /\ \A t \in Seat : t # s => run'[t] = run[t]
  BY <1>4, OthersStay
<1>8. \A t \in Seat : t # s => BookOf(t)' = BookOf(t)
  BY <1>7, InErrand
<1> HIDE DEF b, text
\* What the archive of the day is after it, where nothing spoiled it.
<1>9. /\ book' \in [Books -> SUBSET Text] /\ refused' \subseteq Books \X Text /\ spoiled' \subseteq Books
      /\ spoiled \subseteq spoiled'
      /\ \A d \in Books : d # b => book'[d] = book[d]
      /\ b \notin spoiled' => book[b] \subseteq book'[b]
      /\ refused' # refused => refused' = refused \cup {<<b, text>>}
      /\ refused' # refused /\ b \notin spoiled' =>
           text \in book'[b] \/ book'[b] \cup {text} \notin Roomy
  <2>1. b \notin spoiled => book[b] = run[s].read
    BY <1>1 DEF BooksInv, b
  <2>2. CASE Archived(s) /\ book' = [book EXCEPT ![b] = Added(s)]
    <3>1. /\ book' = [book EXCEPT ![b] = run[s].read \cup {text}]
          /\ refused' = refused \cup {<<b, text>>} /\ spoiled' = spoiled
      BY <2>2, Zenon DEF Archived, Added, b, text
    <3>2. QED
      BY <1>2, <1>3, <2>1, <3>1 DEF BooksInv
  <2>3. CASE Archived(s) /\ book' = book /\ (text \in run[s].read \/ Added(s) \notin Roomy)
    <3>1. /\ refused' = refused \cup {<<b, text>>} /\ spoiled' = spoiled
          /\ text \in run[s].read \/ run[s].read \cup {text} \notin Roomy
      BY <2>3, Zenon DEF Archived, Added, b, text
    <3>2. QED
      BY <1>2, <1>3, <2>1, <2>3, <3>1, RoomyAssumption DEF BooksInv
  <2>4. CASE ArchiveFails(s)
    BY <1>2, <2>4 DEF BooksInv, ArchiveFails, b
  <2>5. QED
    BY <2>2, <2>3, <2>4 DEF ArchiveAdds, b, text
<1>10. ASSUME NEW t \in Seat, run'[t].at = "add", BookOf(t)' \notin spoiled'
       PROVE  /\ book'[BookOf(t)'] = run'[t].read
              /\ \A u \in Seat : run'[u].at = "add" /\ BookOf(u)' = BookOf(t)' => u = t
  <2>1. t # s /\ run'[t] = run[t] /\ BookOf(t)' = BookOf(t) /\ BookOf(t) \notin spoiled
    BY <1>4, <1>7, <1>8, <1>9, <1>10
  <2>2. BookOf(t) # b /\ BookOf(t) \in Books
    BY <1>1, <1>10, <2>1, CardRead DEF BooksInv, b, Carding
  <2>3. QED
    BY <1>4, <1>7, <1>8, <1>9, <1>10, <2>1, <2>2 DEF BooksInv
<1>11. OverflowIsKept'
  <2>1. ASSUME NEW r \in refused', r[1] \notin spoiled' PROVE r[2] \in book'[r[1]] \/ book'[r[1]] \cup {r[2]} \notin Roomy
    <3>1. CASE r \in refused
      <4>1. r[1] \in Books /\ r[1] \notin spoiled /\ (r[2] \in book[r[1]] \/ book[r[1]] \cup {r[2]} \notin Roomy)
        BY <1>9, <2>1, <3>1 DEF BooksInv, OverflowIsKept
      <4>2. QED
        BY <1>9, <2>1, <4>1, RoomyAssumption
    <3>2. CASE r \notin refused
      <4>1. refused' # refused /\ r = <<b, text>>
        BY <1>9, <3>2
      <4>2. r[1] = b /\ r[2] = text
        BY <4>1
      <4>3. QED
        BY <1>9, <2>1, <4>1, <4>2
    <3>3. QED
      BY <3>1, <3>2
  <2>2. QED
    BY <2>1 DEF OverflowIsKept
<1>12. BooksInv'
  BY <1>9, <1>10, <1>11 DEF BooksInv
<1>13. QED
  BY <1>4, <1>5, <1>6, <1>12

-----------------------------------------------------------------------------
(* The pin.                                                                *)

PinInv ==
  /\ pin \in [Workspace -> Names] /\ put \in [Workspace -> Names]
  /\ lock \in Seat \cup {Nobody}
  /\ \A s \in Seat : run[s].at = "pinning" <=> lock = s
  /\ \A s \in Seat : run[s].at = "pinning" => pin[run[s].req.ws] = ""
  /\ PinIsTheLastPut

LEMMA PinStay ==
    ASSUME RunSound, PinInv, NEW s \in Seat, NEW e, Goes(s, e),
           run[s].at # "pinning", e.at # "pinning", UNCHANGED <<pin, put, lock>>
    PROVE  PinInv'
<1>1. run'[s] = e /\ \A t \in Seat : t # s => run'[t] = run[t]
  BY OthersStay
<1>2. \A t \in Seat : run'[t].at = "pinning" <=> lock' = t
  BY <1>1 DEF PinInv
<1>3. \A t \in Seat : run'[t].at = "pinning" => pin'[run'[t].req.ws] = ""
  BY <1>1 DEF PinInv
<1>4. PinIsTheLastPut'
  <2>1. ASSUME NEW w \in Workspace, \A t \in Seat : run'[t].at = "pinning" => run'[t].req.ws # w
        PROVE  pin[w] = put[w]
    <3>1. \A t \in Seat : run[t].at = "pinning" => run[t].req.ws # w
      BY <1>1, <2>1
    <3>2. QED
      BY <3>1 DEF PinInv, PinIsTheLastPut
  <2>2. QED
    BY <2>1 DEF PinIsTheLastPut
<1>5. QED
  BY <1>2, <1>3, <1>4 DEF PinInv

\* A request for the pin has a workspace and a name.
LEMMA PinRead ==
    ASSUME RunSound, NEW s \in Seat, run[s].at \in {"pin", "pinning"}
    PROVE  /\ run[s] \in Errand /\ Sound(run[s]) /\ run[s].req \in Request
           /\ run[s].req.ws \in Workspace /\ NameRead(run[s].req) \in Names
<1>1. run[s] \in Errand /\ Sound(run[s]) /\ run[s].req \in Request
  BY DEF RunSound, Sound
<1>2. run[s].req.ws \in Workspace
  BY <1>1, RequestAssumption
<1>3. NameRead(run[s].req) \in Names
  BY <1>1 DEF NameRead, Names
<1>4. QED
  BY <1>1, <1>2, <1>3

LEMMA PinTakesDoes ==
    ASSUME RunSound, PinInv, NEW s \in Seat, PinTakes(s)
    PROVE  /\ ToldTyped' /\ PinInv' /\ run[s].at = "pin"
           /\ \E e : Goes(s, e) /\ e.at \in {"pinning", "idle"}
<1>1. run[s].at = "pin" /\ lock = Nobody /\ put' = put
  BY DEF PinTakes, history
<1>2. /\ run[s] \in Errand /\ Sound(run[s]) /\ run[s].req \in Request
      /\ run[s].req.ws \in Workspace
  BY <1>1, PinRead
<1>3. CASE NotPinned(s) /\ UNCHANGED lock
  <2>1. 400 \in Codes /\ "" \in Bodies
    BY DEF Codes, Bodies, Names
  <2>2. Goes(s, Idle) /\ ToldTyped' /\ pin' = pin
    BY <1>3, <2>1, AnswerDoes DEF NotPinned
  <2>3. Idle.at = "idle"
    BY IdleIsSound
  <2>4. PinInv'
    BY <1>1, <1>3, <2>2, <2>3, PinStay
  <2>5. QED
    BY <1>1, <2>2, <2>3, <2>4
<1>4. CASE Emptied(s) /\ lock' = s
  <2> DEFINE e == At(run[s], "pinning")
             w == run[s].req.ws
  <2>1. "pinning" \in Places /\ e.at = "pinning" /\ e.req = run[s].req
    BY <1>2, AtKeeps DEF Places
  <2> HIDE DEF e
  <2>2. Sound(e)
    BY <1>2, <2>1 DEF Sound, Carding, AtCard
  <2>3. Goes(s, e) /\ ToldTyped'
    BY <1>4, <2>1, <2>2, GoDoes DEF e, Emptied
  <2>4. run'[s] = e /\ \A t \in Seat : t # s => run'[t] = run[t]
    BY <2>3, OthersStay
  <2>5. \A t \in Seat : run[t].at # "pinning"
    BY <1>1, DeskAssumption DEF PinInv
  <2>6. pin' = [pin EXCEPT ![w] = ""]
    BY <1>4 DEF Emptied
  <2>7. pin' \in [Workspace -> Names] /\ pin'[w] = "" /\ \A v \in Workspace : v # w => pin'[v] = pin[v]
    BY <1>2, <2>6 DEF PinInv, Names
  <2>8. \A t \in Seat : run'[t].at = "pinning" => t = s
    BY <2>4, <2>5
  <2>9. PinIsTheLastPut'
    <3>1. ASSUME NEW v \in Workspace, \A t \in Seat : run'[t].at = "pinning" => run'[t].req.ws # v
          PROVE  pin'[v] = put'[v]
      <4>1. v # w
        BY <2>1, <2>4, <3>1
      <4>2. pin[v] = put[v]
        BY <2>5 DEF PinInv, PinIsTheLastPut
      <4>3. QED
        BY <1>1, <2>7, <4>1, <4>2
    <3>2. QED
      BY <3>1 DEF PinIsTheLastPut
  <2>10. PinInv'
    <3>1. \A t \in Seat : run'[t].at = "pinning" <=> lock' = t
      BY <1>4, <2>1, <2>4, <2>8
    <3>2. \A t \in Seat : run'[t].at = "pinning" => pin'[run'[t].req.ws] = ""
      BY <2>1, <2>4, <2>7, <2>8
    <3>3. put' \in [Workspace -> Names] /\ lock' \in Seat \cup {Nobody}
      BY <1>1, <1>4 DEF PinInv
    <3>4. QED
      BY <2>7, <2>9, <3>1, <3>2, <3>3 DEF PinInv
  <2>11. QED
    BY <1>1, <2>1, <2>3, <2>10
<1>5. QED
  BY <1>3, <1>4 DEF PinTakes

LEMMA PinnedDoes ==
    ASSUME RunSound, PinInv, NEW s \in Seat, Pinned(s)
    PROVE  /\ ToldTyped' /\ PinInv' /\ run[s].at = "pinning"
           /\ \E e : Goes(s, e) /\ e.at = "idle"
<1> DEFINE w == run[s].req.ws
           name == NameRead(run[s].req)
<1>1. run[s].at = "pinning" /\ lock' = Nobody
  BY DEF Pinned
<1>2. w \in Workspace /\ name \in Names
  BY <1>1, PinRead
<1>3. pin[w] = "" /\ "" \in Names
  BY <1>1 DEF PinInv, Names
<1>4. Goes(s, Idle) /\ ToldTyped'
  <2>1. CASE Answer(s, 200, name)
    <3>1. 200 \in Codes /\ name \in Bodies
      BY <1>2 DEF Codes, Bodies
    <3> HIDE DEF name
    <3>2. QED
      BY <2>1, <3>1, AnswerDoes
  <2>2. CASE Answer(s, 400, "")
    <3>1. 400 \in Codes /\ "" \in Bodies
      BY DEF Codes, Bodies, Names
    <3>2. QED
      BY <2>2, <3>1, AnswerDoes
  <2>3. QED
    BY <2>1, <2>2 DEF Pinned
<1>5. run'[s] = Idle /\ Idle.at = "idle" /\ \A t \in Seat : t # s => run'[t] = run[t]
  BY <1>4, OthersStay, IdleIsSound
<1>6. \A t \in Seat : run[t].at = "pinning" => t = s
  BY <1>1 DEF PinInv
<1>7. \A t \in Seat : run'[t].at # "pinning"
  BY <1>5, <1>6
<1> HIDE DEF w, name
<1>8. PICK set \in Names : pin' = [pin EXCEPT ![w] = set] /\ put' = [put EXCEPT ![w] = set]
  <2>1. CASE /\ pin' = [pin EXCEPT ![w] = IF name = "" THEN @ ELSE name]
             /\ put' = [put EXCEPT ![w] = name]
    BY <1>2, <1>3, <2>1 DEF PinInv
  <2>2. CASE pin' = pin /\ put' = [put EXCEPT ![w] = ""]
    <3>1. pin' = [pin EXCEPT ![w] = ""]
      BY <1>2, <1>3, <2>2 DEF PinInv
    <3>2. QED
      BY <1>3, <2>2, <3>1
  <2>3. QED
    BY <2>1, <2>2 DEF Pinned, w, name
<1>9. PinIsTheLastPut'
  <2>1. ASSUME NEW v \in Workspace PROVE pin'[v] = put'[v]
    <3>1. CASE v = w
      BY <1>2, <1>8, <3>1 DEF PinInv
    <3>2. CASE v # w
      <4>1. \A t \in Seat : run[t].at = "pinning" => run[t].req.ws # v
        BY <1>6, <3>2 DEF w
      <4>2. pin[v] = put[v]
        BY <4>1 DEF PinInv, PinIsTheLastPut
      <4>3. QED
        BY <1>8, <3>2, <4>2 DEF PinInv
    <3>3. QED
      BY <3>1, <3>2
  <2>2. QED
    BY <2>1 DEF PinIsTheLastPut
<1>10. PinInv'
  <2>1. \A t \in Seat : run'[t].at = "pinning" <=> lock' = t
    BY <1>1, <1>7, DeskAssumption
  <2>2. pin' \in [Workspace -> Names] /\ put' \in [Workspace -> Names] /\ lock' \in Seat \cup {Nobody}
    BY <1>1, <1>2, <1>8 DEF PinInv
  <2>3. QED
    BY <1>7, <1>9, <2>1, <2>2 DEF PinInv
<1>11. QED
  BY <1>1, <1>4, <1>5, <1>10

-----------------------------------------------------------------------------
(* The attachments.                                                        *)

Piece == [of : Workspace, number : Nat, age : Nat]

Numbered(seq) == \A i, j \in 1..Len(seq) : seq[i].number = seq[j].number => i = j

SlotInv ==
  /\ slot \in Seq(Piece) /\ given \in Seq(Piece)
  /\ Len(slot) <= Slots
  /\ Numbered(slot) /\ Numbered(given)
  /\ \A i \in 1..Len(slot) : \A j \in 1..Len(given) : slot[i].number # given[j].number
  /\ \A i \in 1..Len(given) : given[i].age < Window

\* A thinned sequence has its places in the one it is thinned from.
LEMMA ThinnedHas ==
    ASSUME NEW t, NEW s, Thinned(t, s)
    PROVE  \A i \in 1..Len(t) : \E l \in 1..Len(s) : t[i] = s[l]
  BY DEF Thinned, Thins

LEMMA ThinnedNumbered ==
    ASSUME NEW s \in Seq(Piece), NEW t \in Seq(Piece), Thinned(t, s), Numbered(s)
    PROVE  Numbered(t)
<1>1. PICK e : Thins(e, t, s)
  BY DEF Thinned
<1>2. SUFFICES ASSUME NEW i \in 1..Len(t), NEW j \in 1..Len(t), t[i].number = t[j].number
               PROVE  i = j
  BY DEF Numbered
<1>3. e[i] \in 1..Len(s) /\ e[j] \in 1..Len(s) /\ s[e[i]] = t[i] /\ s[e[j]] = t[j]
  BY <1>1 DEF Thins
<1>4. e[i] = e[j]
  BY <1>2, <1>3 DEF Numbered
<1>5. (i < j => e[i] < e[j]) /\ (j < i => e[j] < e[i])
  BY <1>1 DEF Thins
<1>6. ~ (i < j) /\ ~ (j < i)
  BY <1>3, <1>4, <1>5
<1>7. QED
  BY <1>6

\* A number no attachment held or given has can be had: there are more
\* numbers to choose from than attachments.
LEMMA FreshIs ==
    ASSUME SlotInv
    PROVE  /\ Fresh \in Nat
           /\ \A i \in 1..Len(slot) : slot[i].number # Fresh
           /\ \A i \in 1..Len(given) : given[i].number # Fresh
<1> DEFINE a == Len(slot)
           b == Len(given)
           f == [i \in 1..(a + b) |-> IF i <= a THEN slot[i].number ELSE given[i - a].number]
           Used == {f[i] : i \in 1..(a + b)}
<1>1. slot \in Seq(Piece) /\ given \in Seq(Piece) /\ a \in Nat /\ b \in Nat
  BY DEF SlotInv
<1>2. f \in Surjection(1..(a + b), Used)
  BY DEF Surjection
<1>3. \A i \in 1..a : slot[i].number \in Used
  <2>1. ASSUME NEW i \in 1..a PROVE slot[i].number \in Used
    <3>1. i \in 1..(a + b) /\ f[i] = slot[i].number
      BY <1>1
    <3>2. QED
      BY <3>1
  <2>2. QED
    BY <2>1
<1>4. \A i \in 1..b : given[i].number \in Used
  <2>1. ASSUME NEW i \in 1..b PROVE given[i].number \in Used
    <3>1. a + i \in 1..(a + b) /\ ~ (a + i <= a) /\ (a + i) - a = i
      BY <1>1
    <3>2. f[a + i] = given[i].number
      BY <3>1
    <3>3. QED
      BY <3>1, <3>2
  <2>2. QED
    BY <2>1
<1> HIDE DEF a, b, f, Used
<1>5. IsFiniteSet(Used) /\ Cardinality(Used) <= a + b
  <2>1. IsFiniteSet(1..(a + b)) /\ Cardinality(1..(a + b)) = a + b
    BY <1>1, FS_Interval
  <2>2. QED
    BY <1>2, <2>1, FS_Surjection
<1>6. \E n \in 0..(a + b) : n \notin Used
  <2>1. SUFFICES ASSUME 0..(a + b) \subseteq Used PROVE FALSE
    OBVIOUS
  <2>2. Cardinality(0..(a + b)) = a + b + 1
    BY <1>1, FS_Interval
  <2>3. Cardinality(0..(a + b)) <= Cardinality(Used)
    BY <1>5, <2>1, FS_Subset
  <2>4. Cardinality(Used) \in Nat
    BY <1>5, FS_CardinalityType
  <2>5. QED
    BY <1>1, <1>5, <2>2, <2>3, <2>4
<1> DEFINE OK(n) == \A h \in Range(slot) \cup Range(given) : h.number # n
<1>7. \A h \in Range(slot) \cup Range(given) : h.number \in Used
  BY <1>1, <1>3, <1>4 DEF Range, a, b
<1>8. \E n \in 0..(a + b) : OK(n)
  BY <1>6, <1>7
<1>9. Fresh \in 0..(a + b) /\ OK(Fresh)
  BY <1>8 DEF Fresh, a, b
<1>10. QED
  BY <1>1, <1>9 DEF Range, a, b

LEMMA AgesAge ==
    ASSUME NEW s \in Seq(Piece)
    PROVE  /\ Ages(s) \in Seq(Piece) /\ Len(Ages(s)) = Len(s)
           /\ \A i \in 1..Len(s) : Ages(s)[i].number = s[i].number
<1>1. ASSUME NEW p \in Piece PROVE [p EXCEPT !.age = @ + 1] \in Piece /\ [p EXCEPT !.age = @ + 1].number = p.number
  BY DEF Piece
<1>2. Len(s) \in Nat /\ DOMAIN s = 1..Len(s) /\ \A i \in 1..Len(s) : s[i] \in Piece
  OBVIOUS
<1> HIDE DEF Piece
<1>3. Ages(s) = [i \in 1..Len(s) |-> [s[i] EXCEPT !.age = @ + 1]]
  BY <1>2, Zenon DEF Ages
<1>4. \A i \in 1..Len(s) : [s[i] EXCEPT !.age = @ + 1] \in Piece
  BY <1>1, <1>2
<1>5. Ages(s) \in [1..Len(s) -> Piece] /\ \A i \in 1..Len(s) : Ages(s)[i].number = s[i].number
  BY <1>1, <1>2, <1>3, <1>4
<1>6. QED
  BY <1>2, <1>5

\* What PutAttach puts its attachment after: fewer than the slots.
LEMMA RoomIsMade ==
    ASSUME NEW held \in Seq(Piece), Len(held) <= Slots, NEW w \in Workspace
    PROVE  \E others \in Seq(Piece) :
             /\ \A n : PutAttach(held, w, n) = Append(others, [of |-> w, number |-> n, age |-> 0])
             /\ Thinned(others, held)
             /\ Len(others) < Slots
<1>1. Slots \in Nat /\ Slots > 0 /\ Slots - 1 \in Nat
  BY DeskAssumption
<1>2. CASE Of(held, w) = <<>>
  <2> DEFINE others == Youngest(Slots - 1, held)
  <2>1. others \in Seq(Piece) /\ Thinned(others, held) /\ Len(others) <= Slots - 1
    BY <1>1, YoungestThins
  <2>2. \A n : PutAttach(held, w, n) = Append(others, [of |-> w, number |-> n, age |-> 0])
    BY <1>2 DEF PutAttach
  <2> HIDE DEF others
  <2>3. QED
    BY <1>1, <2>1, <2>2
<1>3. CASE Of(held, w) # <<>>
  <2> DEFINE others == But(held, w)
             mine == Of(held, w)
  <2>1. mine \in Seq(Piece) /\ \A i \in 1..Len(mine) : mine[i] \in {h \in Range(held) : h.of = w}
    BY AmongThins DEF Of
  <2>2. mine[1] \in {h \in Range(held) : h.of = w}
    <3> HIDE DEF mine
    <3>1. mine # <<>>
      BY <1>3 DEF mine
    <3>2. QED
      BY <2>1, <3>1
  <2>3. PICK k \in 1..Len(held) : held[k].of = w
    BY <2>2 DEF Range
  <2>4. /\ others \in Seq(Piece) /\ Thinned(others, held)
        /\ (\E l \in 1..Len(held) : held[l] \notin {h \in Range(held) : h.of # w}) => Len(others) < Len(held)
    BY AmongThins DEF But
  <2>5. Len(others) < Len(held)
    BY <2>3, <2>4
  <2>6. \A n : PutAttach(held, w, n) = Append(others, [of |-> w, number |-> n, age |-> 0])
    BY <1>3 DEF PutAttach
  <2> HIDE DEF others
  <2>7. QED
    BY <1>1, <2>4, <2>5, <2>6
<1>4. QED
  BY <1>2, <1>3

LEMMA YoungAre ==
    ASSUME SlotInv
    PROVE  /\ Young(slot) \in Seq(Piece) /\ Thinned(Young(slot), slot)
           /\ Len(Young(slot)) <= Slots /\ Numbered(Young(slot))
           /\ \A i \in 1..Len(Young(slot)) : Young(slot)[i].age < Window
<1>1. slot \in Seq(Piece) /\ Len(slot) <= Slots /\ Numbered(slot) /\ Len(slot) \in Nat
  BY DEF SlotInv
<1> DEFINE held == Young(slot)
<1>2. /\ held \in Seq(Piece) /\ Thinned(held, slot) /\ Len(held) <= Len(slot)
      /\ \A i \in 1..Len(held) : held[i] \in {h \in Range(slot) : h.age < Window}
  BY <1>1, AmongThins DEF Young
<1> HIDE DEF held
<1>3. Numbered(held)
  BY <1>1, <1>2, ThinnedNumbered
<1>4. \A i \in 1..Len(held) : held[i].age < Window
  BY <1>2
<1>5. Len(held) \in Nat
  BY <1>2
<1>6. QED
  BY <1>1, <1>2, <1>3, <1>4, <1>5, DeskAssumption DEF held

LEMMA AttachSlots ==
    ASSUME SlotInv, NEW s \in Seat, Attach(s), run[s].req.ws \in Workspace
    PROVE  SlotInv'
<1> DEFINE w == run[s].req.ws
           held == Young(slot)
<1>1. /\ held \in Seq(Piece) /\ Thinned(held, slot) /\ Len(held) <= Slots /\ Numbered(held)
      /\ \A i \in 1..Len(held) : held[i].age < Window
  BY YoungAre
<1>2. \A i \in 1..Len(held) : \E l \in 1..Len(slot) : held[i] = slot[l]
  BY <1>1, ThinnedHas
<1>3. /\ given \in Seq(Piece) /\ Numbered(given)
      /\ \A i \in 1..Len(held) : \A j \in 1..Len(given) : held[i].number # given[j].number
      /\ \A i \in 1..Len(given) : given[i].age < Window
  BY <1>2 DEF SlotInv
<1>4. CASE run[s].req.op = "attach" /\ slot' = PutAttach(held, w, Fresh) /\ UNCHANGED given
  <2> DEFINE new == [of |-> w, number |-> Fresh, age |-> 0]
  <2>1. Fresh \in Nat /\ (\A i \in 1..Len(slot) : slot[i].number # Fresh)
        /\ \A i \in 1..Len(given) : given[i].number # Fresh
    BY FreshIs
  <2>2. new \in Piece /\ new.number = Fresh
    BY <2>1 DEF Piece
  <2> HIDE DEF held
  <2>3. PICK others \in Seq(Piece) :
          /\ PutAttach(held, w, Fresh) = Append(others, new)
          /\ Thinned(others, held) /\ Len(others) < Slots
    BY <1>1, RoomIsMade
  <2>4. Numbered(others) /\ \A i \in 1..Len(others) : \E l \in 1..Len(held) : others[i] = held[l]
    BY <1>1, <2>3, ThinnedNumbered, ThinnedHas
  <2> HIDE DEF new
  <2>5. slot' = Append(others, new) /\ given' = given /\ Len(others) \in Nat /\ Len(slot') = Len(others) + 1
    BY <1>4, <2>2, <2>3
  <2>6. /\ slot'[Len(others) + 1] = new
        /\ \A i \in 1..Len(others) : slot'[i] = others[i]
    BY <2>2, <2>5
  <2>7. \A i \in 1..Len(others) : others[i].number # Fresh /\ \A j \in 1..Len(given) : others[i].number # given[j].number
    <3>1. SUFFICES ASSUME NEW i \in 1..Len(others)
                   PROVE  others[i].number # Fresh /\ \A j \in 1..Len(given) : others[i].number # given[j].number
      OBVIOUS
    <3>2. PICK l \in 1..Len(held) : others[i] = held[l]
      BY <2>4
    <3>3. PICK m \in 1..Len(slot) : held[l] = slot[m]
      BY <1>2
    <3>4. QED
      BY <1>3, <2>1, <3>2, <3>3
  <2>8. Numbered(slot')
    BY <2>2, <2>4, <2>5, <2>6, <2>7 DEF Numbered
  <2>9. \A i \in 1..Len(slot') : \A j \in 1..Len(given') : slot'[i].number # given'[j].number
    BY <2>1, <2>2, <2>5, <2>6, <2>7
  <2>10. slot' \in Seq(Piece) /\ Len(slot') <= Slots
    BY <2>2, <2>3, <2>5, DeskAssumption
  <2>11. QED
    BY <1>3, <2>5, <2>8, <2>9, <2>10 DEF SlotInv
<1>5. CASE run[s].req.op = "take" /\ slot' = But(held, w) /\ given' = given \o Of(held, w)
  <2> DEFINE b == But(held, w)
             o == Of(held, w)
  <2> HIDE DEF held
  <2>1. /\ b \in Seq(Piece) /\ Thinned(b, held) /\ Len(b) <= Len(held)
        /\ \A i \in 1..Len(b) : b[i] \in {h \in Range(held) : h.of # w}
    BY <1>1, AmongThins DEF But
  <2>2. /\ o \in Seq(Piece) /\ Thinned(o, held)
        /\ \A i \in 1..Len(o) : o[i] \in {h \in Range(held) : h.of = w}
    BY <1>1, AmongThins DEF Of
  <2> HIDE DEF b, o
  <2>3. Numbered(b) /\ \A i \in 1..Len(b) : \E l \in 1..Len(held) : b[i] = held[l]
    BY <1>1, <2>1, ThinnedNumbered, ThinnedHas
  <2>4. Numbered(o) /\ \A i \in 1..Len(o) : \E l \in 1..Len(held) : o[i] = held[l]
    BY <1>1, <2>2, ThinnedNumbered, ThinnedHas
  <2>5. slot' = b /\ given' = given \o o
    BY <1>5 DEF b, o
  <2>6. /\ given' \in Seq(Piece) /\ Len(given') = Len(given) + Len(o)
        /\ Len(given) \in Nat /\ Len(o) \in Nat
        /\ \A j \in 1..Len(given) : given'[j] = given[j]
        /\ \A j \in 1..Len(o) : given'[Len(given) + j] = o[j]
    BY <1>3, <2>2, <2>5
  <2>7. ASSUME NEW j \in 1..Len(given')
        PROVE  \/ j \in 1..Len(given) /\ given'[j] = given[j]
               \/ j - Len(given) \in 1..Len(o) /\ given'[j] = o[j - Len(given)]
    <3>1. CASE j <= Len(given)
      BY <2>6, <3>1
    <3>2. CASE ~ (j <= Len(given))
      <4>1. j - Len(given) \in 1..Len(o) /\ Len(given) + (j - Len(given)) = j
        BY <2>6, <3>2
      <4>2. QED
        BY <2>6, <4>1
    <3>3. QED
      BY <3>1, <3>2
  <2>8. ASSUME NEW i \in 1..Len(b), NEW j \in 1..Len(o) PROVE b[i].number # o[j].number
    <3>1. PICK k \in 1..Len(held), l \in 1..Len(held) : b[i] = held[k] /\ o[j] = held[l]
      BY <2>3, <2>4
    <3>2. b[i].of # w /\ o[j].of = w
      BY <2>1, <2>2
    <3>3. k # l
      BY <3>1, <3>2
    <3>4. QED
      BY <1>1, <3>1, <3>3 DEF Numbered
  <2>9. ASSUME NEW i \in 1..Len(given), NEW j \in 1..Len(o) PROVE given[i].number # o[j].number
    BY <1>3, <2>4
  <2>10. Numbered(given')
    <3>1. ASSUME NEW i \in 1..Len(given'), NEW j \in 1..Len(given'), given'[i].number = given'[j].number
          PROVE  i = j
      <4> DEFINE n == Len(given)
      <4>1. CASE i \in 1..n /\ j \in 1..n
        BY <1>3, <2>6, <3>1, <4>1 DEF Numbered
      <4>2. CASE i - n \in 1..Len(o) /\ given'[i] = o[i - n] /\ j - n \in 1..Len(o) /\ given'[j] = o[j - n]
        <5>1. i - n = j - n
          BY <2>4, <3>1, <4>2 DEF Numbered
        <5>2. QED
          BY <2>6, <5>1
      <4>3. CASE i \in 1..n /\ given'[i] = given[i] /\ j - n \in 1..Len(o) /\ given'[j] = o[j - n]
        BY <2>9, <3>1, <4>3
      <4>4. CASE j \in 1..n /\ given'[j] = given[j] /\ i - n \in 1..Len(o) /\ given'[i] = o[i - n]
        BY <2>9, <3>1, <4>4
      <4>5. QED
        BY <2>7, <4>1, <4>2, <4>3, <4>4
    <3>2. QED
      BY <3>1 DEF Numbered
  <2>11. ASSUME NEW i \in 1..Len(b), NEW j \in 1..Len(given') PROVE b[i].number # given'[j].number
    <3>1. CASE j \in 1..Len(given) /\ given'[j] = given[j]
      BY <1>3, <2>3, <3>1
    <3>2. CASE j - Len(given) \in 1..Len(o) /\ given'[j] = o[j - Len(given)]
      BY <2>8, <3>2
    <3>3. QED
      BY <2>7, <3>1, <3>2
  <2>12. ASSUME NEW j \in 1..Len(given') PROVE given'[j].age < Window
    <3>1. CASE j \in 1..Len(given) /\ given'[j] = given[j]
      BY <1>3, <3>1
    <3>2. CASE j - Len(given) \in 1..Len(o) /\ given'[j] = o[j - Len(given)]
      BY <1>1, <2>4, <3>2
    <3>3. QED
      BY <2>7, <3>1, <3>2
  <2>13. Len(b) <= Slots
    <3>1. Len(b) \in Nat /\ Len(held) \in Nat /\ Slots \in Nat
      BY <1>1, <2>1, DeskAssumption
    <3>2. QED
      BY <1>1, <2>1, <3>1
  <2>14. QED
    BY <2>1, <2>3, <2>5, <2>6, <2>10, <2>11, <2>12, <2>13 DEF SlotInv
<1>6. CASE run[s].req.op = "peek" /\ slot' = held /\ UNCHANGED given
  <2> HIDE DEF held
  <2>1. QED
    BY <1>1, <1>3, <1>6 DEF SlotInv
<1>7. QED
  BY <1>4, <1>5, <1>6 DEF Attach

LEMMA ForgetSlots ==
    ASSUME SlotInv, NEW w, slot' = But(slot, w), UNCHANGED given
    PROVE  SlotInv'
<1> DEFINE b == But(slot, w)
<1>1. slot \in Seq(Piece) /\ Numbered(slot) /\ Len(slot) <= Slots /\ Len(slot) \in Nat
  BY DEF SlotInv
<1>2. b \in Seq(Piece) /\ Thinned(b, slot) /\ Len(b) <= Len(slot)
  BY <1>1, AmongThins DEF But
<1> HIDE DEF b
<1>3. Numbered(b) /\ \A i \in 1..Len(b) : \E l \in 1..Len(slot) : b[i] = slot[l]
  BY <1>1, <1>2, ThinnedNumbered, ThinnedHas
<1>4. slot' = b /\ Len(b) \in Nat /\ Slots \in Nat
  BY <1>2, DeskAssumption DEF b
<1>5. QED
  BY <1>1, <1>2, <1>3, <1>4 DEF SlotInv

LEMMA TickSlots ==
    ASSUME SlotInv, slot' = Ages(slot), UNCHANGED given
    PROVE  SlotInv'
<1>1. slot \in Seq(Piece)
  BY DEF SlotInv
<1>2. /\ slot' \in Seq(Piece) /\ Len(slot') = Len(slot)
      /\ \A i \in 1..Len(slot) : slot'[i].number = slot[i].number
  BY <1>1, AgesAge
<1>3. QED
  BY <1>2 DEF SlotInv, Numbered

LEMMA AttachDoes ==
    ASSUME RunSound, SlotInv, NEW s \in Seat, Attach(s)
    PROVE  /\ ToldTyped' /\ SlotInv' /\ run[s].at = "slot"
           /\ \E e : Goes(s, e) /\ e.at = "idle"
<1>1. run[s].at = "slot" /\ Answer(s, 200, "")
  BY DEF Attach
<1>2. run[s].req \in Request
  BY <1>1 DEF RunSound, Sound
<1>3. run[s].req.ws \in Workspace
  BY <1>2, RequestAssumption
<1>4. SlotInv'
  BY <1>3, AttachSlots
<1>5. 200 \in Codes /\ "" \in Bodies
  BY DEF Codes, Bodies, Names
<1>6. Goes(s, Idle) /\ ToldTyped'
  BY <1>1, <1>5, AnswerDoes
<1>7. QED
  BY <1>1, <1>4, <1>6, IdleIsSound

-----------------------------------------------------------------------------
(* The hour a fire is held.                                                *)

Hold == [of : Keys, age : Nat]

Keyed(map) == \A i, j \in 1..Len(map) : map[i].of = map[j].of => i = j

Recent(k) == last[k].ago < Window /\ (FireCap = 0 \/ Cardinality(last[k].since) < FireCap)

\* The key is in the map, as old as it is, with none after it but those
\* recorded since.
InPlace(map, k) ==
  \E i \in 1..Len(map) :
    /\ map[i].of = k /\ map[i].age = last[k].ago
    /\ \A j \in 1..Len(map) : j > i => map[j].of \in last[k].since

HoldInv ==
  /\ fired \in Seq(Hold) /\ cued \in Seq(Hold)
  /\ FireCap > 0 => Len(fired) <= FireCap /\ Len(cued) <= FireCap
  /\ Keyed(fired)
  /\ last \in [Keys -> [ago : 0..Window, since : SUBSET Keys]]
  /\ \A k \in Keys : IsFiniteSet(last[k].since)
  /\ \A k \in Keys : Recent(k) => InPlace(fired, k)

LEMMA ThinnedKeyed ==
    ASSUME NEW s, NEW t \in Seq(Hold), Thinned(t, s), Keyed(s)
    PROVE  Keyed(t)
<1>1. PICK e : Thins(e, t, s)
  BY DEF Thinned
<1>2. SUFFICES ASSUME NEW i \in 1..Len(t), NEW j \in 1..Len(t), t[i].of = t[j].of
               PROVE  i = j
  BY DEF Keyed
<1>3. e[i] \in 1..Len(s) /\ e[j] \in 1..Len(s) /\ s[e[i]] = t[i] /\ s[e[j]] = t[j]
  BY <1>1 DEF Thins
<1>4. e[i] = e[j]
  BY <1>2, <1>3 DEF Keyed
<1>5. (i < j => e[i] < e[j]) /\ (j < i => e[j] < e[i])
  BY <1>1 DEF Thins
<1>6. ~ (i < j) /\ ~ (j < i)
  BY <1>3, <1>4, <1>5
<1>7. QED
  BY <1>6

LEMMA YoungHolds ==
    ASSUME NEW map \in Seq(Hold)
    PROVE  /\ Young(map) \in Seq(Hold) /\ Thinned(Young(map), map)
           /\ Len(Young(map)) <= Len(map)
           /\ \A k \in 1..Len(map) : map[k].age < Window =>
                \E i \in 1..Len(Young(map)) :
                  /\ Young(map)[i] = map[k]
                  /\ \A j \in 1..Len(Young(map)) :
                       j > i => \E l \in 1..Len(map) : l > k /\ Young(map)[j] = map[l]
<1>1. /\ Young(map) \in Seq(Hold) /\ Thinned(Young(map), map) /\ Len(Young(map)) <= Len(map)
  BY AmongThins DEF Young
<1>2. ASSUME NEW k \in 1..Len(map), map[k].age < Window
      PROVE  \E i \in 1..Len(Young(map)) :
               /\ Young(map)[i] = map[k]
               /\ \A j \in 1..Len(Young(map)) :
                    j > i => \E l \in 1..Len(map) : l > k /\ Young(map)[j] = map[l]
  <2> DEFINE some == {h \in Range(map) : h.age < Window}
             y == Among(map, some)
  <2>1. map[k] \in some
    BY <1>2 DEF Range
  <2> HIDE DEF some
  <2>2. \E i \in 1..Len(y) :
          /\ y[i] = map[k]
          /\ \A j \in 1..Len(y) : j > i => \E l \in 1..Len(map) : l > k /\ y[j] = map[l]
    BY <2>1, AmongKeepsIt
  <2>3. Young(map) = y
    BY Zenon DEF Young, some
  <2> HIDE DEF y
  <2>4. QED
    BY <2>2, <2>3
<1>3. QED
  BY <1>1, <1>2

\* A key that is in the map and young is held; one not held is in none.
LEMMA HeldIs ==
    ASSUME NEW map \in Seq(Hold), NEW k
    PROVE  IsHeld(map, k) <=> \E i \in 1..Len(Young(map)) : Young(map)[i].of = k
<1> DEFINE y == Young(map)
           o == Of(y, k)
           some == {h \in Range(y) : h.of = k}
<1>1. y \in Seq(Hold)
  BY YoungHolds
<1> HIDE DEF y
<1>2. o \in Seq(Hold) /\ \A i \in 1..Len(o) : o[i] \in some
  BY <1>1, AmongThins DEF Of
<1>3. ASSUME NEW i \in 1..Len(y), y[i].of = k PROVE o # <<>>
  <2>1. y[i] \in some
    BY <1>1, <1>3 DEF Range
  <2> DEFINE t == Among(y, some)
  <2>2. o = t
    BY Zenon DEF Of
  <2> HIDE DEF o, some
  <2>3. \E l \in 1..Len(t) : t[l] = y[i]
    <3>1. \E l \in 1..Len(t) :
            /\ t[l] = y[i]
            /\ \A j \in 1..Len(t) : j > l => \E m \in 1..Len(y) : m > i /\ t[j] = y[m]
      BY <1>1, <2>1, AmongKeepsIt
    <3> HIDE DEF t
    <3>2. QED
      BY <3>1
  <2> HIDE DEF t
  <2>4. t # <<>>
    BY <2>3
  <2>5. QED
    BY <2>2, <2>4
<1>4. ASSUME o # <<>> PROVE \E i \in 1..Len(y) : y[i].of = k
  <2> HIDE DEF o, some
  <2>1. o[1] \in some
    BY <1>2, <1>4
  <2>2. QED
    BY <1>1, <2>1 DEF some, Range
<1>5. QED
  BY <1>3, <1>4 DEF IsHeld, y

\* What is recorded: the young ones and then the key, and of those as many
\* of the last as the cap.
LEMMA RecordedIs ==
    ASSUME NEW map \in Seq(Hold), NEW k \in Keys
    PROVE  \E in \in Seq(Hold) :
             /\ in = Append(Young(map), [of |-> k, age |-> 0])
             /\ Recorded(map, k) \in Seq(Hold) /\ Thinned(Recorded(map, k), in)
             /\ FireCap > 0 => Len(Recorded(map, k)) <= FireCap
             /\ \A m \in 1..Len(in) : FireCap = 0 \/ Len(in) - m < FireCap =>
                  \E i \in 1..Len(Recorded(map, k)) :
                    /\ Recorded(map, k)[i] = in[m]
                    /\ \A j \in 1..Len(Recorded(map, k)) :
                         j > i => \E l \in 1..Len(in) : l > m /\ Recorded(map, k)[j] = in[l]
<1> DEFINE in == Append(Young(map), [of |-> k, age |-> 0])
           out == Recorded(map, k)
<1>1. FireCap \in Nat
  BY DeskAssumption
<1>2. in \in Seq(Hold)
  <2>1. [of |-> k, age |-> 0] \in Hold
    BY DEF Hold
  <2>2. QED
    BY <2>1, YoungHolds
<1>3. out = IF FireCap = 0 THEN in ELSE Youngest(FireCap, in)
  BY DEF Recorded
<1> HIDE DEF in, out
<1>4. CASE FireCap = 0
  <2> DEFINE e == [i \in 1..Len(in) |-> i]
  <2>1. Thins(e, in, in)
    BY <1>2 DEF Thins
  <2>2. out = in /\ Thinned(out, in)
    BY <1>3, <1>4, <2>1 DEF Thinned
  <2>3. ASSUME NEW m \in 1..Len(in)
        PROVE  \E i \in 1..Len(out) :
                 /\ out[i] = in[m]
                 /\ \A j \in 1..Len(out) : j > i => \E l \in 1..Len(in) : l > m /\ out[j] = in[l]
    BY <1>2, <2>2
  <2>4. ~ (FireCap > 0) /\ out \in Seq(Hold)
    BY <1>2, <1>4, <2>2
  <2>5. QED
    BY <1>2, <2>2, <2>3, <2>4, Zenon DEF in, out
<1>5. CASE FireCap # 0
  <2>1. /\ out \in Seq(Hold) /\ Thinned(out, in) /\ Len(out) <= FireCap
        /\ \A m \in 1..Len(in) : Len(in) - m < FireCap =>
             \E i \in 1..Len(out) :
               /\ out[i] = in[m]
               /\ \A j \in 1..Len(out) : j > i => \E l \in 1..Len(in) : l > m /\ out[j] = in[l]
    BY <1>1, <1>2, <1>3, <1>5, YoungestThins
  <2>2. QED
    BY <1>2, <1>5, <2>1 DEF in, out
<1>6. QED
  BY <1>4, <1>5

LEMMA FireHolds ==
    ASSUME HoldInv, NEW k \in Keys, ~ IsHeld(fired, k), fired' = Recorded(fired, k), cued' = cued,
           last' = [l \in Keys |-> IF l = k THEN [ago |-> 0, since |-> {}]
                                   ELSE [last[l] EXCEPT !.since = @ \cup {k}]]
    PROVE  HoldInv'
<1> DEFINE y == Young(fired)
           new == [of |-> k, age |-> 0]
           n == Len(y)
<1>1. /\ fired \in Seq(Hold) /\ cued \in Seq(Hold) /\ Keyed(fired)
      /\ last \in [Keys -> [ago : 0..Window, since : SUBSET Keys]]
      /\ \A l \in Keys : IsFiniteSet(last[l].since)
      /\ FireCap \in Nat /\ Window \in Nat /\ Window > 0
  BY DeskAssumption DEF HoldInv
<1>2. y \in Seq(Hold) /\ Thinned(y, fired) /\ Keyed(y)
  BY <1>1, YoungHolds, ThinnedKeyed
<1>3. \A i \in 1..n : y[i].of # k
  BY <1>1, HeldIs
<1> DEFINE out == Recorded(fired, k)
<1>4. PICK in \in Seq(Hold) :
        /\ in = Append(y, new)
        /\ out \in Seq(Hold) /\ Thinned(out, in)
        /\ FireCap > 0 => Len(out) <= FireCap
        /\ \A m \in 1..Len(in) : FireCap = 0 \/ Len(in) - m < FireCap =>
             \E i \in 1..Len(out) :
               /\ out[i] = in[m]
               /\ \A j \in 1..Len(out) :
                    j > i => \E l \in 1..Len(in) : l > m /\ out[j] = in[l]
  BY <1>1, RecordedIs
<1>5. fired' = out
  OBVIOUS
<1> HIDE DEF out
<1>6. new \in Hold /\ new.of = k /\ new.age = 0
  BY DEF Hold
<1> HIDE DEF new
<1>7. n \in Nat /\ Len(in) = n + 1 /\ in[n + 1] = new /\ \A i \in 1..n : in[i] = y[i]
  BY <1>2, <1>4, <1>6
<1>8. Keyed(in)
  <2>1. ASSUME NEW i \in 1..(n + 1), NEW j \in 1..(n + 1), in[i].of = in[j].of PROVE i = j
    <3>1. CASE i \in 1..n /\ j \in 1..n
      BY <1>2, <1>7, <2>1, <3>1 DEF Keyed
    <3>2. CASE i = n + 1 /\ j \in 1..n
      BY <1>3, <1>6, <1>7, <2>1, <3>2
    <3>3. CASE j = n + 1 /\ i \in 1..n
      BY <1>3, <1>6, <1>7, <2>1, <3>3
    <3>4. QED
      BY <1>7, <3>1, <3>2, <3>3
  <2>2. QED
    BY <1>7, <2>1 DEF Keyed
<1>9. Keyed(out)
  BY <1>4, <1>8, ThinnedKeyed
<1>10. \A l \in Keys : l # k => last'[l] = [last[l] EXCEPT !.since = @ \cup {k}]
  OBVIOUS
<1>11. last'[k] = [ago |-> 0, since |-> {}]
  OBVIOUS
<1>12. ASSUME NEW l \in Keys, l # k
       PROVE  /\ last'[l] \in [ago : 0..Window, since : SUBSET Keys]
              /\ last'[l].ago = last[l].ago /\ last'[l].since = last[l].since \cup {k}
  <2>1. PICK r \in [ago : 0..Window, since : SUBSET Keys] : r = last[l]
    BY <1>1
  <2>2. last'[l] = [r EXCEPT !.since = @ \cup {k}]
    BY <1>10, <1>12, <2>1
  <2>3. QED
    BY <2>1, <2>2
<1>13. last' \in [Keys -> [ago : 0..Window, since : SUBSET Keys]]
  <2>1. \A l \in Keys : last'[l] \in [ago : 0..Window, since : SUBSET Keys]
    BY <1>1, <1>11, <1>12
  <2>2. DOMAIN last' = Keys /\ last' = [l \in DOMAIN last' |-> last'[l]]
    OBVIOUS
  <2>3. QED
    BY <2>1, <2>2
<1>14. ASSUME NEW l \in Keys PROVE IsFiniteSet(last'[l].since)
  <2>1. CASE l = k
    BY <1>11, <2>1, FS_EmptySet
  <2>2. CASE l # k
    <3> DEFINE since == last[l].since
    <3>1. IsFiniteSet(since)
      BY <1>1
    <3> HIDE DEF since
    <3>2. IsFiniteSet(since \cup {k})
      BY <3>1, FS_AddElement
    <3>3. QED
      BY <1>12, <2>2, <3>2 DEF since
  <2>3. QED
    BY <2>1, <2>2
<1>15. ASSUME NEW l \in Keys, last'[l].ago < Window,
              FireCap = 0 \/ Cardinality(last'[l].since) < FireCap
       PROVE  \E i \in 1..Len(out) :
                /\ out[i].of = l /\ out[i].age = last'[l].ago
                /\ \A j \in 1..Len(out) : j > i => out[j].of \in last'[l].since
  <2>1. CASE l = k
    <3>1. FireCap = 0 \/ Len(in) - (n + 1) < FireCap
      BY <1>1, <1>7
    <3>2. n + 1 \in 1..Len(in)
      BY <1>7
    <3>3. PICK i \in 1..Len(out) :
            /\ out[i] = in[n + 1]
            /\ \A j \in 1..Len(out) : j > i => \E m \in 1..Len(in) : m > n + 1 /\ out[j] = in[m]
      BY <1>4, <3>1, <3>2
    <3>4. \A j \in 1..Len(out) : ~ (j > i)
      BY <1>7, <3>3
    <3>5. out[i].of = l /\ out[i].age = last'[l].ago
      BY <1>6, <1>7, <1>11, <2>1, <3>3
    <3>6. QED
      BY <3>4, <3>5
  <2>2. CASE l # k
    <3> DEFINE since == last[l].since
               S == last'[l].since
    <3>1. S = since \cup {k} /\ last'[l].ago = last[l].ago
      BY <1>12, <2>2
    <3>2. IsFiniteSet(S) /\ IsFiniteSet(since)
      BY <1>1, <1>14
    <3> HIDE DEF S, since
    <3>3. Cardinality(since) <= Cardinality(S) /\ Cardinality(since) \in Nat /\ Cardinality(S) \in Nat
      BY <3>1, <3>2, FS_Subset, FS_CardinalityType
    <3>4. Recent(l)
      BY <1>1, <1>15, <3>1, <3>3 DEF Recent, S, since
    <3>5. PICK a \in 1..Len(fired) :
            /\ fired[a].of = l /\ fired[a].age = last[l].ago
            /\ \A j \in 1..Len(fired) : j > a => fired[j].of \in since
      BY <3>4 DEF HoldInv, InPlace, since
    <3>6. fired[a].age < Window
      BY <1>15, <3>1, <3>5
    <3>7. PICK m \in 1..n :
            /\ y[m] = fired[a]
            /\ \A j \in 1..n : j > m => \E b \in 1..Len(fired) : b > a /\ y[j] = fired[b]
      BY <1>1, <3>6, YoungHolds
    <3>8. \A j \in 1..n : j > m => y[j].of \in since
      BY <3>5, <3>7
    <3>9. m \in 1..Len(in) /\ in[m] = fired[a]
      BY <1>7, <3>7
    <3>10. \A j \in 1..Len(in) : j > m => in[j].of \in S
      <4>1. ASSUME NEW j \in 1..(n + 1), j > m PROVE in[j].of \in S
        <5>1. CASE j = n + 1
          BY <1>6, <1>7, <3>1, <5>1
        <5>2. CASE j \in 1..n
          BY <1>7, <3>1, <3>8, <4>1, <5>2
        <5>3. QED
          BY <1>7, <5>1, <5>2
      <4>2. QED
        BY <1>7, <4>1
    <3>11. FireCap = 0 \/ Len(in) - m < FireCap
      <4> DEFINE D == (m + 1)..Len(in)
                 f == [j \in D |-> in[j].of]
      <4>1. f \in [D -> S]
        BY <1>7, <3>10
      <4>2. ASSUME NEW i \in D, NEW j \in D, f[i] = f[j] PROVE i = j
        <5>1. i \in 1..Len(in) /\ j \in 1..Len(in)
          BY <1>7
        <5>2. QED
          BY <1>8, <4>2, <5>1 DEF Keyed
      <4>3. f \in Injection(D, S)
        BY <4>1, <4>2 DEF Injection, IsInjective
      <4>4. Cardinality(D) = IF m + 1 > Len(in) THEN 0 ELSE Len(in) - (m + 1) + 1
        <5>1. m + 1 \in Int /\ Len(in) \in Int
          BY <1>7
        <5>2. QED
          BY <5>1, FS_Interval
      <4>5. Cardinality(D) <= Cardinality(S)
        <5> HIDE DEF D, f
        <5>1. QED
          BY <3>2, <4>3, FS_Injection
      <4> HIDE DEF D, f
      <4>6. Len(in) - m <= Cardinality(S)
        BY <1>7, <3>3, <4>4, <4>5
      <4>7. QED
        BY <1>1, <1>7, <1>15, <3>3, <4>6 DEF S
    <3>12. PICK i \in 1..Len(out) :
            /\ out[i] = in[m]
            /\ \A j \in 1..Len(out) : j > i => \E b \in 1..Len(in) : b > m /\ out[j] = in[b]
      BY <1>4, <3>9, <3>11
    <3>13. \A j \in 1..Len(out) : j > i => out[j].of \in S
      BY <3>10, <3>12
    <3>14. out[i].of = l /\ out[i].age = last'[l].ago
      BY <3>1, <3>5, <3>9, <3>12
    <3>15. QED
      BY <3>13, <3>14 DEF S
  <2>3. QED
    BY <2>1, <2>2
<1>16. FireCap > 0 => Len(fired') <= FireCap /\ Len(cued') <= FireCap
  BY <1>4, <1>5 DEF HoldInv
<1>17. ASSUME NEW l \in Keys, Recent(l)' PROVE InPlace(fired, l)'
  <2>1. last'[l].ago < Window /\ (FireCap = 0 \/ Cardinality(last'[l].since) < FireCap)
    BY <1>17 DEF Recent
  <2>2. PICK i \in 1..Len(out) :
          /\ out[i].of = l /\ out[i].age = last'[l].ago
          /\ \A j \in 1..Len(out) : j > i => out[j].of \in last'[l].since
    BY <1>15, <2>1
  <2>3. QED
    BY <1>5, <2>2 DEF InPlace
<1>18. QED
  BY <1>1, <1>4, <1>5, <1>9, <1>13, <1>14, <1>16, <1>17 DEF HoldInv

LEMMA CueHolds ==
    ASSUME HoldInv, UNCHANGED <<fired, last>>,
           cued' = cued \/ \E k \in Keys : cued' = Recorded(cued, k)
    PROVE  HoldInv'
<1>1. cued \in Seq(Hold) /\ (FireCap > 0 => Len(cued) <= FireCap)
  BY DEF HoldInv
<1>2. cued' \in Seq(Hold) /\ (FireCap > 0 => Len(cued') <= FireCap)
  <2>1. ASSUME NEW k \in Keys, cued' = Recorded(cued, k)
        PROVE  cued' \in Seq(Hold) /\ (FireCap > 0 => Len(cued') <= FireCap)
    BY <1>1, <2>1, RecordedIs
  <2>2. QED
    BY <1>1, <2>1
<1>3. \A k \in Keys : Recent(k)' => InPlace(fired, k)'
  BY DEF HoldInv, Recent, InPlace
<1>4. QED
  BY <1>2, <1>3 DEF HoldInv

\* Forgetting a workspace leaves the other ones' keys as they were.
LEMMA ForgetHolds ==
    ASSUME HoldInv, NEW w,
           fired' = Among(fired, {h \in Range(fired) : WsOf(h.of) # w}),
           cued' = Among(cued, {h \in Range(cued) : WsOf(h.of) # w}),
           last' = [k \in Keys |-> IF WsOf(k) = w THEN [last[k] EXCEPT !.ago = Window] ELSE last[k]]
    PROVE  HoldInv'
<1> DEFINE some == {h \in Range(fired) : WsOf(h.of) # w}
           out == Among(fired, some)
           rest == {h \in Range(cued) : WsOf(h.of) # w}
           cues == Among(cued, rest)
<1>1. /\ fired \in Seq(Hold) /\ cued \in Seq(Hold) /\ Keyed(fired)
      /\ last \in [Keys -> [ago : 0..Window, since : SUBSET Keys]]
      /\ \A l \in Keys : IsFiniteSet(last[l].since)
      /\ FireCap > 0 => Len(fired) <= FireCap /\ Len(cued) <= FireCap
      /\ FireCap \in Nat /\ Window \in Nat /\ Window > 0
  BY DeskAssumption DEF HoldInv
<1>2. fired' = out /\ cued' = cues
  OBVIOUS
<1>3. \A i \in 1..Len(fired) : WsOf(fired[i].of) # w => fired[i] \in some
  BY <1>1 DEF Range
<1> HIDE DEF some, rest
<1>4. out \in Seq(Hold) /\ Thinned(out, fired) /\ Len(out) <= Len(fired)
  BY <1>1, AmongThins
<1>5. cues \in Seq(Hold) /\ Len(cues) <= Len(cued)
  BY <1>1, AmongThins
<1>6. ASSUME NEW k \in 1..Len(fired), fired[k] \in some
      PROVE  \E i \in 1..Len(out) :
               /\ out[i] = fired[k]
               /\ \A j \in 1..Len(out) : j > i => \E l \in 1..Len(fired) : l > k /\ out[j] = fired[l]
  BY <1>1, <1>6, AmongKeepsIt
<1> HIDE DEF out, cues
<1>7. Keyed(out)
  BY <1>1, <1>4, ThinnedKeyed
<1>8. \A l \in Keys : last'[l] = IF WsOf(l) = w THEN [last[l] EXCEPT !.ago = Window] ELSE last[l]
  BY Zenon
<1>9. ASSUME NEW l \in Keys
      PROVE  /\ last'[l] \in [ago : 0..Window, since : SUBSET Keys]
             /\ last'[l].since = last[l].since
             /\ last'[l].ago < Window => WsOf(l) # w /\ last'[l].ago = last[l].ago
  <2>1. PICK r \in [ago : 0..Window, since : SUBSET Keys] : r = last[l]
    BY <1>1
  <2>2. CASE WsOf(l) = w
    <3>1. last'[l] = [r EXCEPT !.ago = Window]
      BY <1>8, <2>1, <2>2
    <3>2. Window \in 0..Window
      BY <1>1
    <3>3. last'[l] \in [ago : 0..Window, since : SUBSET Keys] /\ last'[l].since = r.since /\ last'[l].ago = Window
      BY <3>1, <3>2
    <3>4. QED
      BY <1>1, <2>1, <3>3
  <2>3. CASE WsOf(l) # w
    BY <1>8, <2>1, <2>3
  <2>4. QED
    BY <2>2, <2>3
<1>10. DOMAIN last' = Keys /\ last' = [l \in DOMAIN last' |-> last'[l]]
  OBVIOUS
<1>11. last' \in [Keys -> [ago : 0..Window, since : SUBSET Keys]]
  BY <1>9, <1>10
<1>12. ASSUME NEW l \in Keys, Recent(l)' PROVE InPlace(fired, l)'
  <2>1. last'[l].ago < Window /\ (FireCap = 0 \/ Cardinality(last'[l].since) < FireCap)
    BY <1>12 DEF Recent
  <2>2. WsOf(l) # w /\ last'[l].ago = last[l].ago /\ last'[l].since = last[l].since
    BY <1>9, <2>1
  <2>3. Recent(l)
    BY <2>1, <2>2 DEF Recent
  <2>4. PICK a \in 1..Len(fired) :
          /\ fired[a].of = l /\ fired[a].age = last[l].ago
          /\ \A j \in 1..Len(fired) : j > a => fired[j].of \in last[l].since
    BY <2>3 DEF HoldInv, InPlace
  <2>5. PICK i \in 1..Len(out) :
          /\ out[i] = fired[a]
          /\ \A j \in 1..Len(out) : j > i => \E m \in 1..Len(fired) : m > a /\ out[j] = fired[m]
    BY <1>3, <1>6, <2>2, <2>4
  <2>6. \A j \in 1..Len(out) : j > i => out[j].of \in last[l].since
    BY <2>4, <2>5
  <2>7. out[i].of = l /\ out[i].age = last[l].ago
    BY <2>4, <2>5
  <2>8. QED
    BY <1>2, <2>2, <2>6, <2>7 DEF InPlace
<1>13. FireCap > 0 => Len(fired') <= FireCap /\ Len(cued') <= FireCap
  <2>1. Len(fired) \in Nat /\ Len(cued) \in Nat /\ Len(out) \in Nat /\ Len(cues) \in Nat
    BY <1>1, <1>4, <1>5
  <2>2. QED
    BY <1>1, <1>2, <1>4, <1>5, <2>1
<1>14. \A l \in Keys : IsFiniteSet(last'[l].since)
  BY <1>1, <1>9
<1>15. QED
  BY <1>2, <1>4, <1>5, <1>7, <1>11, <1>12, <1>13, <1>14 DEF HoldInv

LEMMA MinOfTwo ==
    ASSUME NEW a \in Int, NEW b \in Int
    PROVE  Min({a, b}) \in {a, b} /\ Min({a, b}) <= a /\ Min({a, b}) <= b
<1>1. \E x \in {a, b} : \A y \in {a, b} : x <= y
  OBVIOUS
<1>2. Min({a, b}) \in {a, b} /\ \A y \in {a, b} : Min({a, b}) <= y
  BY <1>1 DEF Min
<1>3. QED
  BY <1>2

LEMMA HoldsAge ==
    ASSUME NEW map \in Seq(Hold)
    PROVE  /\ Ages(map) \in Seq(Hold) /\ Len(Ages(map)) = Len(map)
           /\ \A i \in 1..Len(map) : Ages(map)[i].of = map[i].of /\ Ages(map)[i].age = map[i].age + 1
<1>1. ASSUME NEW p \in Hold
      PROVE  /\ [p EXCEPT !.age = @ + 1] \in Hold /\ [p EXCEPT !.age = @ + 1].of = p.of
             /\ [p EXCEPT !.age = @ + 1].age = p.age + 1
  BY DEF Hold
<1>2. Len(map) \in Nat /\ DOMAIN map = 1..Len(map) /\ \A i \in 1..Len(map) : map[i] \in Hold
  OBVIOUS
<1>3. Ages(map) = [i \in 1..Len(map) |-> [map[i] EXCEPT !.age = @ + 1]]
  BY <1>2, Zenon DEF Ages
<1>4. \A i \in 1..Len(map) : [map[i] EXCEPT !.age = @ + 1] \in Hold
  BY <1>1, <1>2
<1>5. /\ Ages(map) \in [1..Len(map) -> Hold]
      /\ \A i \in 1..Len(map) : Ages(map)[i].of = map[i].of /\ Ages(map)[i].age = map[i].age + 1
  BY <1>1, <1>2, <1>3, <1>4
<1>6. QED
  BY <1>2, <1>5

LEMMA TickHolds ==
    ASSUME HoldInv, fired' = Ages(fired), cued' = Ages(cued),
           last' = [k \in Keys |-> [last[k] EXCEPT !.ago = Min({@ + 1, Window})]]
    PROVE  HoldInv'
<1>1. /\ fired \in Seq(Hold) /\ cued \in Seq(Hold) /\ Keyed(fired)
      /\ last \in [Keys -> [ago : 0..Window, since : SUBSET Keys]]
      /\ \A l \in Keys : IsFiniteSet(last[l].since)
      /\ FireCap > 0 => Len(fired) <= FireCap /\ Len(cued) <= FireCap
      /\ FireCap \in Nat /\ Window \in Nat /\ Window > 0
  BY DeskAssumption DEF HoldInv
<1>2. /\ fired' \in Seq(Hold) /\ Len(fired') = Len(fired)
      /\ \A i \in 1..Len(fired) : fired'[i].of = fired[i].of /\ fired'[i].age = fired[i].age + 1
      /\ cued' \in Seq(Hold) /\ Len(cued') = Len(cued)
  BY <1>1, HoldsAge
<1>3. \A l \in Keys : last'[l] = [last[l] EXCEPT !.ago = Min({last[l].ago + 1, Window})]
  BY Zenon
<1>4. ASSUME NEW l \in Keys
      PROVE  /\ last'[l] \in [ago : 0..Window, since : SUBSET Keys]
             /\ last'[l].since = last[l].since
             /\ last'[l].ago < Window => last[l].ago < Window /\ last'[l].ago = last[l].ago + 1
  <2>1. PICK r \in [ago : 0..Window, since : SUBSET Keys] : r = last[l]
    BY <1>1
  <2> DEFINE m == Min({r.ago + 1, Window})
  <2>2. m \in {r.ago + 1, Window} /\ m <= r.ago + 1 /\ m <= Window
    <3>1. r.ago + 1 \in Int /\ Window \in Int
      BY <1>1
    <3>2. QED
      BY <3>1, MinOfTwo
  <2>3. last'[l] = [r EXCEPT !.ago = m]
    BY <1>3, <2>1
  <2> HIDE DEF m
  <2>4. m \in 0..Window
    BY <1>1, <2>2
  <2>5. /\ last'[l] \in [ago : 0..Window, since : SUBSET Keys]
        /\ last'[l].since = r.since /\ last'[l].ago = m
    BY <2>3, <2>4
  <2>6. m < Window => r.ago < Window /\ m = r.ago + 1
    BY <1>1, <2>2
  <2>7. QED
    BY <2>1, <2>5, <2>6
<1>5. DOMAIN last' = Keys /\ last' = [l \in DOMAIN last' |-> last'[l]]
  OBVIOUS
<1>6. last' \in [Keys -> [ago : 0..Window, since : SUBSET Keys]]
  BY <1>4, <1>5
<1>7. ASSUME NEW l \in Keys, Recent(l)' PROVE InPlace(fired, l)'
  <2>1. last'[l].ago < Window /\ (FireCap = 0 \/ Cardinality(last'[l].since) < FireCap)
    BY <1>7 DEF Recent
  <2>2. last[l].ago < Window /\ last'[l].ago = last[l].ago + 1 /\ last'[l].since = last[l].since
    BY <1>4, <2>1
  <2>3. Recent(l)
    BY <2>1, <2>2 DEF Recent
  <2>4. PICK a \in 1..Len(fired) :
          /\ fired[a].of = l /\ fired[a].age = last[l].ago
          /\ \A j \in 1..Len(fired) : j > a => fired[j].of \in last[l].since
    BY <2>3 DEF HoldInv, InPlace
  <2>5. fired'[a].of = l /\ fired'[a].age = last'[l].ago
    BY <1>2, <2>2, <2>4
  <2>6. \A j \in 1..Len(fired') : j > a => fired'[j].of \in last'[l].since
    BY <1>2, <2>2, <2>4
  <2>7. QED
    BY <1>2, <2>5, <2>6 DEF InPlace
<1>8. Keyed(fired')
  BY <1>1, <1>2 DEF Keyed
<1>9. \A l \in Keys : IsFiniteSet(last'[l].since)
  BY <1>1, <1>4
<1>10. FireCap > 0 => Len(fired') <= FireCap /\ Len(cued') <= FireCap
  BY <1>1, <1>2
<1>11. QED
  BY <1>2, <1>6, <1>7, <1>8, <1>9, <1>10 DEF HoldInv

LEMMA Literals == \A body \in {"held", "fired", "forgotten", ""} : body \in Bodies
  BY DEF Bodies, Names

LEMMA CueDoes ==
    ASSUME RunSound, HoldInv, NEW s \in Seat, Cue(s)
    PROVE  /\ ToldTyped' /\ HoldInv' /\ run[s].at = "cue"
           /\ \E e : Goes(s, e) /\ e.at \in {"idle", "fire"}
<1> DEFINE k == run[s].req.key
<1>1. run[s].at = "cue" /\ run[s] \in Errand /\ Sound(run[s]) /\ k \in Keys
  BY DEF Cue, RunSound, Sound
<1>2. UNCHANGED <<fired, last>>
  BY DEF Cue, history
<1>3. CASE (Answer(s, 200, "weak") \/ Answer(s, 200, "held")) /\ cued' = cued
  <2>1. PICK body \in {"weak", "held"} : Answer(s, 200, body)
    BY <1>3
  <2>2. 200 \in Codes /\ body \in Bodies
    BY DEF Codes, Bodies
  <2>3. Goes(s, Idle) /\ ToldTyped'
    BY <2>1, <2>2, AnswerDoes
  <2>4. HoldInv'
    BY <1>2, <1>3, CueHolds
  <2>5. QED
    BY <1>1, <2>3, <2>4, IdleIsSound
<1>4. CASE cued' = Recorded(cued, k) /\ Go(s, "fire")
  <2> DEFINE e == At(run[s], "fire")
  <2>1. "fire" \in Places /\ e.at = "fire" /\ e.req = run[s].req
    BY <1>1, AtKeeps DEF Places
  <2> HIDE DEF e
  <2>2. Sound(e)
    BY <1>1, <2>1 DEF Sound, Carding, AtCard
  <2>3. Goes(s, e) /\ ToldTyped'
    BY <1>4, <2>1, <2>2, GoDoes DEF e
  <2> HIDE DEF k
  <2>4. HoldInv'
    BY <1>1, <1>2, <1>4, CueHolds
  <2>5. QED
    BY <1>1, <2>1, <2>3, <2>4
<1>5. QED
  BY <1>3, <1>4 DEF Cue

LEMMA FireDoes ==
    ASSUME RunSound, HoldInv, NEW s \in Seat, Fire(s)
    PROVE  /\ ToldTyped' /\ HoldInv' /\ run[s].at = "fire"
           /\ \E e : Goes(s, e) /\ e.at = "idle"
<1> DEFINE k == run[s].req.key
<1>1. run[s].at = "fire" /\ k \in Keys /\ cued' = cued
  BY DEF Fire, RunSound, Sound
<1>2. Goes(s, Idle) /\ ToldTyped'
  <2>1. PICK code \in {200, 400}, body \in {"held", "fired", ""} : Answer(s, code, body)
    BY DEF Fire
  <2>2. code \in Codes /\ body \in Bodies
    <3>1. code \in Codes
      BY DEF Codes
    <3>2. body \in {"held", "fired", "forgotten", ""}
      OBVIOUS
    <3>3. QED
      BY <3>1, <3>2, Literals
  <2>3. QED
    BY <2>1, <2>2, AnswerDoes
<1>3. ASSUME UNCHANGED <<fired, last>> PROVE HoldInv'
  BY <1>1, <1>3, CueHolds
<1>4. ASSUME /\ ~ IsHeld(fired, k) /\ fired' = Recorded(fired, k)
             /\ last' = [l \in Keys |-> IF l = k THEN [ago |-> 0, since |-> {}]
                                        ELSE [last[l] EXCEPT !.since = @ \cup {k}]]
      PROVE  HoldInv'
  <2> HIDE DEF k
  <2>1. QED
    BY <1>1, <1>4, FireHolds
<1>5. HoldInv'
  BY <1>3, <1>4 DEF Fire
<1>6. QED
  BY <1>1, <1>2, <1>5, IdleIsSound

LEMMA HoldStay == ASSUME HoldInv, UNCHANGED <<fired, cued, last>> PROVE HoldInv'
  BY CueHolds

LEMMA SlotStay == ASSUME SlotInv, UNCHANGED <<slot, given>> PROVE SlotInv'
  BY DEF SlotInv, Numbered

LEMMA ForgetDoes ==
    ASSUME RunSound, SlotInv, HoldInv, NEW s \in Seat, Forget(s)
    PROVE  /\ ToldTyped' /\ SlotInv' /\ HoldInv' /\ run[s].at = "forget"
           /\ \E e : Goes(s, e) /\ e.at = "idle"
<1> DEFINE w == run[s].req.ws
<1>1. run[s].at = "forget" /\ given' = given
  BY DEF Forget
<1>2. Goes(s, Idle) /\ ToldTyped'
  <2>1. PICK code \in {200, 400}, body \in {"forgotten", ""} : Answer(s, code, body)
    BY DEF Forget
  <2>2. code \in Codes /\ body \in Bodies
    <3>1. code \in Codes
      BY DEF Codes
    <3>2. body \in {"held", "fired", "forgotten", ""}
      OBVIOUS
    <3>3. QED
      BY <3>1, <3>2, Literals
  <2>3. QED
    BY <2>1, <2>2, AnswerDoes
<1>3. ASSUME UNCHANGED <<memory, last>> PROVE SlotInv' /\ HoldInv'
  BY <1>1, <1>3, HoldStay, SlotStay DEF memory
<1>4. ASSUME /\ slot' = But(slot, w)
             /\ fired' = Among(fired, {h \in Range(fired) : WsOf(h.of) # w})
             /\ cued' = Among(cued, {h \in Range(cued) : WsOf(h.of) # w})
             /\ last' = [k \in Keys |-> IF WsOf(k) = w THEN [last[k] EXCEPT !.ago = Window] ELSE last[k]]
      PROVE  SlotInv' /\ HoldInv'
  <2> HIDE DEF w
  <2>1. HoldInv'
    BY <1>4, ForgetHolds
  <2>2. SlotInv'
    BY <1>1, <1>4, ForgetSlots
  <2>3. QED
    BY <2>1, <2>2
<1>5. SlotInv' /\ HoldInv'
  BY <1>3, <1>4 DEF Forget
<1>6. QED
  BY <1>1, <1>2, <1>5, IdleIsSound

-----------------------------------------------------------------------------
(* The whole.                                                              *)

DeskInv ==
  /\ RunSound /\ ToldTyped
  /\ FilesInv /\ TornInv /\ BooksInv /\ PinInv /\ SlotInv /\ HoldInv

\* A request that has its cap asked, or seals its card, is not at the file.
LEMMA LeavesTheFile ==
    ASSUME RunSound, NEW s \in Seat, WriteCapped(s) \/ Seal(s)
    PROVE  run'[s].at # "write"
<1>1. \A place : Go(s, place) => run'[s].at = place
  BY DEF Go, RunSound, Errand
<1>2. \A code, body : Answer(s, code, body) => run'[s].at = "idle"
  BY IdleIsSound DEF Answer, RunSound
<1>3. CASE WriteCapped(s)
  BY <1>1, <1>2, <1>3 DEF WriteCapped
<1>4. CASE Seal(s)
  <2>1. PICK e : Goes(s, e) /\ e.at \in {"idle", "fields"}
    BY <1>4, OnwardsDoes DEF Seal
  <2>2. QED
    BY <2>1, OthersStay
<1>5. QED
  BY <1>3, <1>4

\* A step of a seat that touches neither a card, nor an archive, nor the pin.
LEMMA AsideKeeps ==
    ASSUME DeskInv, NEW s \in Seat, NEW e, Goes(s, e), e.at \in Aside, run[s].at \in Aside,
           UNCHANGED <<disk, lock, put, refused, spoiled>>
    PROVE  RunSound' /\ FilesInv' /\ TornInv' /\ BooksInv' /\ PinInv'
<1>1. e.at \notin AtCard /\ e.at \notin {"add", "pinning"} /\ run[s].at \notin AtCard /\ run[s].at # "pinning"
  BY DEF Aside
<1>2. UNCHANGED <<file, mode>> /\ UNCHANGED <<file, torn>> /\ UNCHANGED book /\ UNCHANGED pin
  BY DEF disk
<1>3. RunSound /\ FilesInv /\ TornInv /\ BooksInv /\ PinInv
  BY DEF DeskInv
<1>4. RunSound'
  BY <1>3, OthersStay
<1>5. FilesInv' /\ TornInv'
  BY <1>1, <1>2, <1>3, FilesStay, TornStay DEF AtCard
<1>6. BooksInv'
  BY <1>1, <1>2, <1>3, BooksStay
<1>7. PinInv'
  BY <1>1, <1>2, <1>3, PinStay
<1>8. QED
  BY <1>4, <1>5, <1>6, <1>7

\* A step of a seat at a card.
LEMMA CardKeeps ==
    ASSUME DeskInv, NEW s \in Seat, NEW e, Goes(s, e), Elsewhere(e), run[s].at # "pinning",
           ToldTyped', FilesInv', TornInv',
           UNCHANGED <<book, pin, memory, lock, history>>
    PROVE  DeskInv'
<1>1. e.at # "add" /\ e.at # "pinning"
  BY DEF Elsewhere
<1>2. UNCHANGED <<book, refused, spoiled>> /\ UNCHANGED <<pin, put, lock>>
      /\ UNCHANGED <<slot, given>> /\ UNCHANGED <<fired, cued, last>>
  BY DEF memory, history
<1>3. RunSound /\ BooksInv /\ PinInv /\ SlotInv /\ HoldInv
  BY DEF DeskInv
<1>4. RunSound'
  BY <1>3, OthersStay
<1>5. BooksInv' /\ PinInv'
  BY <1>1, <1>2, <1>3, BooksStay, PinStay
<1>6. SlotInv' /\ HoldInv'
  BY <1>2, <1>3, SlotStay, HoldStay
<1>7. QED
  BY <1>4, <1>5, <1>6 DEF DeskInv

LEMMA AskingKeeps ==
    ASSUME DeskInv, NEW s \in Seat, Ask(s) \/ Busy(s) \/ Serve(s) \/ WriteSet(s)
    PROVE  DeskInv'
<1>1. RunSound
  BY DEF DeskInv
<1>2. ToldTyped' /\ \E e : Goes(s, e) /\ e.at \in Aside
  BY <1>1, AskDoes, BusyDoes, ServeDoes, WriteSetDoes
<1>3. PICK e : Goes(s, e) /\ e.at \in Aside
  BY <1>2
<1>4. /\ UNCHANGED <<disk, lock, put, refused, spoiled>>
      /\ UNCHANGED <<slot, given>> /\ UNCHANGED <<fired, cued, last>>
  BY DEF Ask, Busy, Serve, WriteSet, memory, history
<1>5. run[s].at \in Aside
  BY DEF Ask, Busy, Serve, WriteSet, Aside, Places, AtCard
<1>6. RunSound' /\ FilesInv' /\ TornInv' /\ BooksInv' /\ PinInv'
  BY <1>3, <1>4, <1>5, AsideKeeps
<1>7. SlotInv' /\ HoldInv'
  BY <1>4, SlotStay, HoldStay DEF DeskInv
<1>8. QED
  BY <1>2, <1>6, <1>7 DEF DeskInv

LEMMA CardingKeeps ==
    ASSUME DeskInv, NEW s \in Seat, WriteCapped(s) \/ Open(s) \/ Write(s) \/ Seal(s)
    PROVE  DeskInv'
<1>1. RunSound /\ FilesInv /\ TornInv
  BY DEF DeskInv
<1>2. ToldTyped' /\ FilesInv' /\ \E e : Goes(s, e) /\ Elsewhere(e)
  BY <1>1, WriteCappedDoes, OpenDoes, WriteDoes, SealDoes
<1>3. PICK e : Goes(s, e) /\ Elsewhere(e)
  BY <1>2
<1>4. TornInv'
  <2>1. CASE WriteCapped(s) \/ Seal(s)
    <3>1. UNCHANGED <<file, torn>>
      BY <2>1 DEF WriteCapped, Seal
    <3>2. run'[s].at # "write"
      BY <1>1, <2>1, LeavesTheFile
    <3>3. run'[s] = e
      BY <1>1, <1>3, OthersStay
    <3>4. QED
      BY <1>1, <1>3, <3>1, <3>2, <3>3, TornStay
  <2>2. CASE Open(s)
    BY <1>1, <2>2, OpenTears
  <2>3. CASE Write(s)
    BY <1>1, <2>3, WriteTears
  <2>4. QED
    BY <2>1, <2>2, <2>3
<1>5. UNCHANGED <<book, pin, memory, lock, history>>
  BY DEF WriteCapped, Open, Write, Seal
<1>6. run[s].at # "pinning"
  BY DEF WriteCapped, Open, Write, Seal, Onwards
<1>7. QED
  BY <1>2, <1>3, <1>5, <1>6, <1>4, CardKeeps

LEMMA ArchiveKeeps ==
    ASSUME DeskInv, NEW s \in Seat, ArchiveReads(s) \/ ArchiveAdds(s)
    PROVE  DeskInv'
<1>1. RunSound /\ FilesInv /\ TornInv /\ BooksInv /\ PinInv /\ SlotInv /\ HoldInv
  BY DEF DeskInv
<1>2. /\ ToldTyped' /\ FilesInv' /\ BooksInv' /\ UNCHANGED <<file, torn>>
      /\ \E e : Goes(s, e) /\ e.at \in {"add", "idle"}
  BY <1>1, ArchiveReadsDoes, ArchiveAddsDoes
<1>3. PICK e : Goes(s, e) /\ e.at \in {"add", "idle"}
  BY <1>2
<1>4. /\ run[s].at # "pinning" /\ UNCHANGED <<pin, put, lock>>
      /\ UNCHANGED <<slot, given>> /\ UNCHANGED <<fired, cued, last>>
  BY DEF ArchiveReads, ArchiveAdds, disk, memory
<1>5. e.at # "pinning" /\ e.at # "write"
  BY <1>3
<1>6. RunSound' /\ PinInv' /\ TornInv'
  BY <1>1, <1>2, <1>3, <1>4, <1>5, OthersStay, PinStay, TornStay
<1>7. SlotInv' /\ HoldInv'
  BY <1>1, <1>4, SlotStay, HoldStay
<1>8. QED
  BY <1>2, <1>6, <1>7 DEF DeskInv

LEMMA PinKeepsIt ==
    ASSUME DeskInv, NEW s \in Seat, PinTakes(s) \/ Pinned(s)
    PROVE  DeskInv'
<1>1. RunSound /\ FilesInv /\ TornInv /\ BooksInv /\ PinInv /\ SlotInv /\ HoldInv
  BY DEF DeskInv
<1>2. /\ ToldTyped' /\ PinInv' /\ run[s].at \in {"pin", "pinning"}
      /\ \E e : Goes(s, e) /\ e.at \in {"pinning", "idle"}
  BY <1>1, PinTakesDoes, PinnedDoes
<1>3. PICK e : Goes(s, e) /\ e.at \in {"pinning", "idle"}
  BY <1>2
<1>4. /\ UNCHANGED <<file, mode>> /\ UNCHANGED <<file, torn>> /\ UNCHANGED <<book, refused, spoiled>>
      /\ UNCHANGED <<slot, given>> /\ UNCHANGED <<fired, cued, last>>
  BY DEF PinTakes, Pinned, memory, history
<1>5. e.at \notin AtCard /\ run[s].at \notin AtCard /\ e.at # "add" /\ e.at # "write"
  BY <1>2, <1>3 DEF AtCard
<1>6. RunSound' /\ FilesInv' /\ TornInv' /\ BooksInv'
  BY <1>1, <1>3, <1>4, <1>5, OthersStay, FilesStay, TornStay, BooksStay
<1>7. SlotInv' /\ HoldInv'
  BY <1>1, <1>4, SlotStay, HoldStay
<1>8. QED
  BY <1>2, <1>6, <1>7 DEF DeskInv

LEMMA HoldingKeeps ==
    ASSUME DeskInv, NEW s \in Seat, Attach(s) \/ Cue(s) \/ Fire(s) \/ Forget(s)
    PROVE  DeskInv'
<1>1. RunSound /\ SlotInv /\ HoldInv
  BY DEF DeskInv
<1>2. /\ ToldTyped' /\ run[s].at \in {"slot", "cue", "fire", "forget"}
      /\ \E e : Goes(s, e) /\ e.at \in {"idle", "fire"}
  BY <1>1, AttachDoes, CueDoes, FireDoes, ForgetDoes
<1>3. SlotInv'
  <2>1. CASE Attach(s) \/ Forget(s)
    BY <1>1, <2>1, AttachDoes, ForgetDoes
  <2>2. CASE Cue(s) \/ Fire(s)
    BY <1>1, <2>2, SlotStay DEF Cue, Fire, history
  <2>3. QED
    BY <2>1, <2>2
<1>4. HoldInv'
  <2>1. CASE Cue(s) \/ Fire(s) \/ Forget(s)
    BY <1>1, <2>1, CueDoes, FireDoes, ForgetDoes
  <2>2. CASE Attach(s)
    BY <1>1, <2>2, HoldStay DEF Attach
  <2>3. QED
    BY <2>1, <2>2
<1>5. PICK e : Goes(s, e) /\ e.at \in {"idle", "fire"}
  BY <1>2
<1>6. e.at \in Aside /\ run[s].at \in Aside
  BY <1>2, <1>5 DEF Aside, Places, AtCard
<1>7. UNCHANGED <<disk, lock, put, refused, spoiled>>
  BY DEF Attach, Cue, Fire, Forget, history
<1>8. RunSound' /\ FilesInv' /\ TornInv' /\ BooksInv' /\ PinInv'
  BY <1>5, <1>6, <1>7, AsideKeeps
<1>9. QED
  BY <1>2, <1>3, <1>4, <1>8 DEF DeskInv

\* What a step that no seat takes leaves as it is.
LEMMA RunStays ==
    ASSUME DeskInv, UNCHANGED <<disk, lock, run, put, refused, spoiled>>
    PROVE  RunSound' /\ FilesInv' /\ TornInv' /\ BooksInv' /\ PinInv'
<1>1. UNCHANGED <<file, torn, mode, book, pin>>
  BY DEF disk
<1>2. \A s \in Seat : CardOf(s)' = CardOf(s) /\ BookOf(s)' = BookOf(s)
  BY InErrand
<1>3. RunSound'
  BY DEF DeskInv, RunSound
<1>4. FilesInv'
  BY <1>1, <1>2 DEF DeskInv, FilesInv, ReadOnlyBetweenWrites
<1>5. TornInv'
  BY <1>1, <1>2 DEF DeskInv, TornInv
<1>6. BooksInv'
  BY <1>1, <1>2 DEF DeskInv, BooksInv, OverflowIsKept
<1>7. PinInv'
  BY <1>1 DEF DeskInv, PinInv, PinIsTheLastPut
<1>8. QED
  BY <1>3, <1>4, <1>6, <1>7, <1>5

LEMMA TickKeeps == ASSUME DeskInv, Tick PROVE DeskInv'
<1>1. UNCHANGED <<disk, lock, run, put, refused, spoiled>> /\ UNCHANGED given /\ NoAnswer
  BY DEF Tick
<1>2. RunSound' /\ FilesInv' /\ TornInv' /\ BooksInv' /\ PinInv'
  BY <1>1, RunStays
<1>3. SlotInv'
  BY <1>1, TickSlots DEF Tick, DeskInv
<1>4. HoldInv'
  BY TickHolds DEF Tick, DeskInv
<1>5. QED
  BY <1>1, <1>2, <1>3, <1>4, NoAnswerTyped DEF DeskInv

LEMMA StutterKeeps == ASSUME DeskInv, UNCHANGED vars PROVE DeskInv'
<1>1. /\ UNCHANGED <<disk, lock, run, put, refused, spoiled>> /\ told' = told
      /\ UNCHANGED <<slot, given>> /\ UNCHANGED <<fired, cued, last>>
  BY DEF vars, memory, history
<1>2. RunSound' /\ FilesInv' /\ TornInv' /\ BooksInv' /\ PinInv'
  BY <1>1, RunStays
<1>3. SlotInv' /\ HoldInv' /\ ToldTyped'
  BY <1>1, SlotStay, HoldStay DEF DeskInv, ToldTyped
<1>4. QED
  BY <1>2, <1>3 DEF DeskInv

LEMMA DeskStarts == Init => DeskInv
<1> SUFFICES ASSUME Init PROVE DeskInv
  OBVIOUS
<1>1. \A s \in Seat : run[s] = Idle
  BY DEF Init
<1>2. RunSound
  <2>1. run \in [Seat -> Errand]
    BY IdleIsSound DEF Init
  <2>2. QED
    BY <1>1, <2>1, IdleIsSound DEF RunSound
<1>3. ToldTyped
  BY QuietTyped DEF Init, ToldTyped
<1>4. \A s \in Seat : run[s].at = "idle"
  BY <1>1, IdleIsSound
<1>5. FilesInv
  <2>1. ReadOnlyBetweenWrites
    BY DEF Init, ReadOnlyBetweenWrites, Cards
  <2>2. file \in [Cards -> Capped \cup {Absent}] /\ mode \in [Cards -> {"rw", "ro"}]
    BY DEF Init
  <2>3. QED
    BY <1>4, <2>1, <2>2 DEF FilesInv
<1>6. TornInv
  BY <1>4 DEF Init, TornInv
<1>7. BooksInv
  <2>1. book \in [Books -> SUBSET Text] /\ refused = {} /\ spoiled = {}
    BY DEF Init
  <2>2. QED
    BY <1>4, <2>1 DEF BooksInv, OverflowIsKept
<1>8. PinInv
  <2>1. /\ pin \in [Workspace -> Names] /\ put \in [Workspace -> Names]
        /\ \A w \in Workspace : pin[w] = put[w]
    BY DEF Init, Names
  <2>2. lock = Nobody
    BY DEF Init
  <2>3. \A s \in Seat : lock # s
    BY <2>2, DeskAssumption
  <2>4. QED
    BY <1>4, <2>1, <2>2, <2>3 DEF PinInv, PinIsTheLastPut
<1>9. SlotInv
  <2>1. slot = <<>> /\ given = <<>>
    BY DEF Init
  <2>2. QED
    BY <2>1, DeskAssumption DEF SlotInv, Numbered
<1>10. HoldInv
  <2>1. fired = <<>> /\ cued = <<>> /\ last = [k \in Keys |-> [ago |-> Window, since |-> {}]]
    BY DEF Init
  <2>2. Window \in 0..Window /\ ~ (Window < Window)
    BY DeskAssumption
  <2>3. last \in [Keys -> [ago : 0..Window, since : SUBSET Keys]]
    BY <2>1, <2>2
  <2>4. \A k \in Keys : ~ Recent(k) /\ IsFiniteSet(last[k].since)
    BY <2>1, <2>2, FS_EmptySet DEF Recent
  <2>5. fired \in Seq(Hold) /\ cued \in Seq(Hold) /\ Keyed(fired)
        /\ (FireCap > 0 => Len(fired) <= FireCap /\ Len(cued) <= FireCap)
    BY <2>1, DeskAssumption DEF Keyed
  <2>6. QED
    BY <2>3, <2>4, <2>5 DEF HoldInv
<1>11. QED
  BY <1>2, <1>3, <1>5, <1>7, <1>8, <1>9, <1>10, <1>6 DEF DeskInv

LEMMA DeskSteps == ASSUME DeskInv, [Next]_vars PROVE DeskInv'
<1>1. CASE Tick
  BY <1>1, TickKeeps
<1>2. CASE UNCHANGED vars
  BY <1>2, StutterKeeps
<1>3. ASSUME NEW s \in Seat, Ask(s) \/ Busy(s) \/ Step(s) PROVE DeskInv'
  <2>1. CASE Ask(s) \/ Busy(s) \/ Serve(s) \/ WriteSet(s)
    BY <2>1, AskingKeeps
  <2>2. CASE WriteCapped(s) \/ Open(s) \/ Write(s) \/ Seal(s)
    BY <2>2, CardingKeeps
  <2>3. CASE ArchiveReads(s) \/ ArchiveAdds(s)
    BY <2>3, ArchiveKeeps
  <2>4. CASE PinTakes(s) \/ Pinned(s)
    BY <2>4, PinKeepsIt
  <2>5. CASE Attach(s) \/ Cue(s) \/ Fire(s) \/ Forget(s)
    BY <2>5, HoldingKeeps
  <2>6. QED
    BY <1>3, <2>1, <2>2, <2>3, <2>4, <2>5 DEF Step
<1>4. QED
  BY <1>1, <1>2, <1>3 DEF Next

\* What the desk is at every step, of however many seats: each request is
\* where its own step says and has what it reads there, a card that one request
\* alone has open is empty, the one that adds to an unspoiled archive has read
\* it as it is, the lock has the one that holds it, no two attachments have one
\* number, and every key recorded within the hour has its place in the map
\* (service.rs, cards.rs).
THEOREM DeskHolds == Spec => []DeskInv
<1>1. Init => DeskInv
  BY DeskStarts
<1>2. DeskInv /\ [Next]_vars => DeskInv'
  BY DeskSteps
<1>3. QED
  BY <1>1, <1>2, PTL DEF Spec

LEMMA InvFollows == ASSUME DeskInv PROVE Inv
<1>1. RunSound /\ ToldTyped /\ FilesInv /\ TornInv /\ BooksInv /\ PinInv /\ SlotInv /\ HoldInv
  BY DEF DeskInv
<1>2. TypeOK
  <2>1. (\A c \in Cards : file[c] = Absent \/ file[c] \in Seq(Bytes)) /\ torn \subseteq Cards
    BY <1>1 DEF FilesInv, TornInv, Capped
  <2>2. mode \in [Cards -> {"rw", "ro"}] /\ book \in [Books -> SUBSET Text] /\ pin \in [Workspace -> Names]
    BY <1>1 DEF FilesInv, BooksInv, PinInv
  <2>3. ASSUME NEW s \in Seat PROVE run[s].at \in Places /\ run[s].tries <= BusyRetries
    <3>1. run[s] \in Errand
      BY <1>1 DEF RunSound
    <3>2. run[s].at \in Places /\ run[s].tries \in 0..BusyRetries /\ BusyRetries \in Nat
      BY <3>1, DeskAssumption DEF Errand
    <3>3. QED
      BY <3>2
  <2>4. lock \in Seat \cup {Nobody} /\ (lock # Nobody => run[lock].at = "pinning")
    BY <1>1 DEF PinInv
  <2>5. Len(slot) <= Slots /\ (FireCap > 0 => Len(fired) <= FireCap /\ Len(cued) <= FireCap)
    BY <1>1 DEF SlotInv, HoldInv
  <2>6. told \in [Seat -> [code : {0, 200, 400, 401, 404, 413, 503}, body : Bodies]]
    BY <1>1, Zenon DEF ToldTyped, Codes
  <2>7. QED
    BY <2>1, <2>2, <2>3, <2>4, <2>5, <2>6, Zenon DEF TypeOK
<1>3. CardsWithinCap
  BY <1>1 DEF FilesInv, TornInv, CardsWithinCap, Capped
<1>4. ReadOnlyBetweenWrites /\ PinIsTheLastPut
  BY <1>1 DEF FilesInv, PinInv
<1>5. OneTurnEach
  <2>1. given \in Seq(Piece) /\ Numbered(given) /\ \A i \in 1..Len(given) : given[i].age < Window
    BY <1>1 DEF SlotInv
  <2>2. DOMAIN given = 1..Len(given)
    BY <2>1
  <2>3. QED
    BY <2>1, <2>2 DEF Numbered, OneTurnEach
<1>6. QED
  BY <1>2, <1>3, <1>4, <1>5 DEF Inv

LEMMA HeldFollows == ASSUME DeskInv PROVE HeldForTheHour
<1>1. HoldInv /\ fired \in Seq(Hold)
  BY DEF DeskInv, HoldInv
<1>2. ASSUME NEW k \in Keys, Recent(k) PROVE IsHeld(fired, k)
  <2>1. PICK a \in 1..Len(fired) : fired[a].of = k /\ fired[a].age = last[k].ago
    BY <1>1, <1>2 DEF HoldInv, InPlace
  <2>2. fired[a].age < Window
    BY <1>2, <2>1 DEF Recent
  <2>3. PICK i \in 1..Len(Young(fired)) : Young(fired)[i] = fired[a]
    BY <1>1, <2>2, YoungHolds
  <2>4. QED
    BY <1>1, <2>1, <2>3, HeldIs
<1>3. QED
  BY <1>2 DEF HeldForTheHour, Recent

\* Of however many requests that write the cards and the pin at once and
\* fail half way, no card on disk is left writable, none is past its cap of
\* characters unless two requests had it open at once, and none is then longer
\* in bytes than a text within the cap; the pin is the last put's, and an
\* attachment is given once, within its hour.
THEOREM DeskIsKept == Spec => []Inv
<1>1. DeskInv => Inv
  BY InvFollows
<1>2. QED
  BY <1>1, DeskHolds, PTL

\* A text refused with 413 is in its day's archive, or the archive has no room
\* for it, unless two requests wrote that archive at once or it failed to be
\* read or written (service.rs, set_user).
THEOREM RefusedIsArchived == Spec => []OverflowIsKept
<1>1. DeskInv => OverflowIsKept
  BY DEF DeskInv, BooksInv
<1>2. QED
  BY <1>1, DeskHolds, PTL

\* A key recorded within the hour is held, for every cap and any number of
\* workspaces forgotten in between (service.rs, hold_key).
THEOREM FiresHeld == Spec => []HeldForTheHour
<1>1. DeskInv => HeldForTheHour
  BY HeldFollows
<1>2. QED
  BY <1>1, DeskHolds, PTL
=============================================================================
