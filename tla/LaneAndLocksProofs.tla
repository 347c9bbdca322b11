------------------------- MODULE LaneAndLocksProofs -------------------------
(***************************************************************************)
(* What a request waits for, for every number of connections, workers,     *)
(* threads and names and every bound: DearLane's invariant, which is       *)
(* inductive as it stands, and of StoreLocks that there is no circle of    *)
(* waiting, that counts are no older than the question, and that the       *)
(* caches come back to their cap.                                          *)
(***************************************************************************)
EXTENDS DearLane, StoreLocks, FiniteSetTheorems, SequenceTheorems, TLAPS

(***************************************************************************)
(* DearLane.                                                               *)
(***************************************************************************)

-----------------------------------------------------------------------------
(* Queues without repetition. *)

\* Appending a connection that is not in a queue.
LEMMA Appended ==
    ASSUME NEW s \in Seq(Conns), NEW c \in Conns
    PROVE  /\ Append(s, c) \in Seq(Conns)
           /\ Len(Append(s, c)) = Len(s) + 1
           /\ ToSet(Append(s, c)) = ToSet(s) \cup {c}
           /\ IsInjective(s) /\ c \notin ToSet(s) => IsInjective(Append(s, c))
<1>1. /\ Append(s, c) \in Seq(Conns)
      /\ Len(s) \in Nat /\ Len(Append(s, c)) = Len(s) + 1
      /\ \A k \in 1..Len(s) : Append(s, c)[k] = s[k]
      /\ Append(s, c)[Len(s) + 1] = c
  OBVIOUS
<1>2. DOMAIN s = 1..Len(s) /\ DOMAIN Append(s, c) = 1..(Len(s) + 1)
  BY <1>1
<1>3. ToSet(Append(s, c)) = ToSet(s) \cup {c}
  BY <1>1, <1>2 DEF ToSet
<1>4. IsInjective(s) /\ c \notin ToSet(s) => IsInjective(Append(s, c))
  BY <1>1, <1>2 DEF ToSet, IsInjective
<1>5. QED
  BY <1>1, <1>3, <1>4

\* Taking the head of a queue.
LEMMA Taken ==
    ASSUME NEW s \in Seq(Conns), s # <<>>, IsInjective(s)
    PROVE  /\ Head(s) \in ToSet(s) /\ Head(s) \in Conns /\ Head(s) = s[1]
           /\ Tail(s) \in Seq(Conns)
           /\ Len(s) \in Nat \ {0} /\ Len(Tail(s)) = Len(s) - 1
           /\ \A k \in 1..(Len(s) - 1) : Tail(s)[k] = s[k + 1]
           /\ ToSet(Tail(s)) = ToSet(s) \ {Head(s)}
           /\ IsInjective(Tail(s))
<1>1. /\ Tail(s) \in Seq(Conns) /\ Head(s) = s[1]
      /\ Len(s) \in Nat \ {0} /\ Len(Tail(s)) = Len(s) - 1
      /\ \A k \in 1..(Len(s) - 1) : Tail(s)[k] = s[k + 1]
  BY HeadTailProperties, EmptySeq
<1>2. DOMAIN s = 1..Len(s) /\ DOMAIN Tail(s) = 1..(Len(s) - 1)
  BY <1>1
<1>3. Head(s) \in ToSet(s) /\ Head(s) \in Conns
  BY <1>1, <1>2 DEF ToSet
<1>4. ToSet(Tail(s)) \subseteq ToSet(s) \ {Head(s)}
  BY <1>1, <1>2 DEF ToSet, IsInjective
<1>5. ToSet(s) \ {Head(s)} \subseteq ToSet(Tail(s))
  <2> SUFFICES ASSUME NEW c \in ToSet(s), c # Head(s)
               PROVE  c \in ToSet(Tail(s))
    OBVIOUS
  <2>1. PICK k \in 1..Len(s) : c = s[k]
    BY <1>2 DEF ToSet
  <2>2. k - 1 \in 1..(Len(s) - 1) /\ (k - 1) + 1 = k
    BY <1>1, <2>1
  <2>3. c = Tail(s)[k - 1]
    BY <1>1, <2>1, <2>2
  <2>4. QED
    BY <1>2, <2>2, <2>3 DEF ToSet
<1>6. IsInjective(Tail(s))
  BY <1>1, <1>2 DEF IsInjective
<1>7. QED
  BY <1>1, <1>3, <1>4, <1>5, <1>6

\* What is waited in is made of connections.
LEMMA InQueue ==
    ASSUME NEW s \in Seq(Conns)
    PROVE  /\ ToSet(s) \subseteq Conns
           /\ \A k \in 1..Len(s) : s[k] \in ToSet(s)
BY DEF ToSet

\* None names no connection, and some worker may do dear work.
LEMMA Constants ==
    /\ None \notin Conns /\ None \notin Requests
    /\ Slots \in Nat \ {0} /\ dear_limit \in Nat \ {0}
    /\ Room \in Nat \ {0} /\ BodyCap \in Nat
<1>1. Requests \subseteq [kind : {"cheap", "refused", "dear"}, body : 0..BodyCap]
  <2>1. {0} \subseteq 0..BodyCap /\ Sizes \subseteq 0..BodyCap
    BY LaneAssumption
  <2>2. [kind : {"cheap", "refused"}, body : {0}]
          \subseteq [kind : {"cheap", "refused", "dear"}, body : 0..BodyCap]
    BY <2>1
  <2>3. [kind : {"dear"}, body : Sizes]
          \subseteq [kind : {"cheap", "refused", "dear"}, body : 0..BodyCap]
    BY <2>1
  <2>4. QED
    BY <2>2, <2>3 DEF Requests
<1>2. None \notin Requests
  BY <1>1, LaneAssumption
<1>3. dear_limit \in Nat \ {0}
  BY LaneAssumption DEF dear_limit
<1>4. QED
  BY <1>2, <1>3, LaneAssumption

\* A request that was made is cheap, refused or dear, with the body it has.
LEMMA RequestShape ==
    ASSUME TypeOK, NEW c \in Conns, request[c] # None
    PROVE  /\ request[c] \in Requests
           /\ request[c].kind \in {"cheap", "refused", "dear"}
           /\ Body(c) \in 0..BodyCap
<1>1. request[c] \in Requests
  BY DEF TypeOK
<1>2. CASE request[c] \in [kind : {"cheap", "refused"}, body : {0}]
  BY <1>1, <1>2, Constants DEF Body
<1>3. CASE request[c] \in [kind : {"dear"}, body : Sizes]
  BY <1>1, <1>3, LaneAssumption DEF Body
<1>4. QED
  BY <1>1, <1>2, <1>3 DEF Requests

-----------------------------------------------------------------------------
(* Types. *)

\* Every way a worker may move keeps pc and serving what they are.
LEMMA StepType ==
    ASSUME TypeOK, NEW a \in Workers, NEW step \in Pcs, NEW c \in Conns \cup {None},
           Step(a, step, c)
    PROVE  pc' \in [Workers -> Pcs] /\ serving' \in [Workers -> Conns \cup {None}]
BY DEF TypeOK, Step

\* So does noting what a request came to.
LEMMA CameType ==
    ASSUME TypeOK, NEW c \in Conns,
           NEW what \in {"ran", "busy", "refused", "dropped"}, Came(c, what)
    PROVE  ends' \in [Conns -> Seq({"ran", "busy", "refused", "dropped"})]
<1>1. Append(ends[c], what) \in Seq({"ran", "busy", "refused", "dropped"})
  BY DEF TypeOK
<1>2. QED
  BY <1>1 DEF TypeOK, Came

\* A worker that is not at the queue has a connection in hand.
LEMMA InHand ==
    ASSUME TypeOK, AtHand, NEW a \in Workers, pc[a] # "recv"
    PROVE  serving[a] \in Conns /\ serving[a] # None /\ request[serving[a]] # None
<1>1. serving[a] # None /\ serving[a] \in Conns
  BY DEF TypeOK, AtHand
<1>2. serving[a] \in Served
  BY <1>1 DEF Served
<1>3. QED
  BY <1>1, <1>2 DEF AtHand, Away, Open

\* Every step keeps the types.
LEMMA TypeStep ==
    ASSUME TypeOK, OnePlace, AtHand, ParkedIsBounded, SlotsAreHeld, Next
    PROVE  TypeOK'
<1> USE Constants
<1>1. ASSUME NEW c \in Conns, NEW r \in Requests, Connect(c, r)
      PROVE  TypeOK'
  <2>1. ends' \in [Conns -> Seq({"ran", "busy", "refused", "dropped"})]
    BY <1>1 DEF TypeOK, Connect
  <2>2. request' \in [Conns -> Requests \cup {None}]
    BY <1>1 DEF TypeOK, Connect
  <2>3. backlog' \in Seq(Conns) /\ closed' \subseteq Conns
    BY <1>1, Appended DEF TypeOK, Connect
  <2>4. QED
    BY <1>1, <2>1, <2>2, <2>3 DEF TypeOK, Connect, lane, dear_limit
<1>2. ASSUME NEW c \in Conns, Leave(c)
      PROVE  TypeOK'
  BY <1>2 DEF TypeOK, Leave, lane, dear_limit
<1>3. CASE Accept
  <2>1. Head(backlog) \in Conns /\ Tail(backlog) \in Seq(Conns)
    BY <1>3, Taken DEF TypeOK, Accept, OnePlace
  <2>2. Append(queue, Head(backlog)) \in Seq(Conns)
    BY <2>1, Appended DEF TypeOK
  <2>3. queue' \in Seq(Conns) /\ shedding' \in Conns \cup {None}
    BY <1>3, <2>1, <2>2 DEF TypeOK, Accept
  <2>4. QED
    BY <1>3, <2>1, <2>3 DEF TypeOK, Accept, lane, dear_limit
<1>4. CASE Shed
  BY <1>4, CameType DEF TypeOK, Shed, lane, dear_limit
<1>5. ASSUME NEW a \in Workers, Work(a)
      PROVE  TypeOK'
  <2>1. CASE Take(a)
    BY <2>1, StepType, Taken DEF TypeOK, Take, lane, dear_limit, OnePlace, Pcs
  <2>2. CASE ReadRequest(a)
    BY <2>2, StepType, InHand DEF TypeOK, ReadRequest, lane, dear_limit, Pcs
  <2>3. CASE Refuse(a)
    BY <2>3, StepType, CameType, InHand DEF TypeOK, Refuse, lane, dear_limit, Pcs
  <2>4. CASE BeginRun(a)
    BY <2>4, StepType, InHand DEF TypeOK, BeginRun, lane, dear_limit, Pcs
  <2>5. CASE BeginPark(a)
    <3>1. serving[a] \in Conns /\ Body(serving[a]) \in 0..BodyCap
      BY <2>5, InHand, RequestShape DEF BeginPark
    <3>2. parked_bytes + Body(serving[a]) \in 0..BodyCap
      BY <2>5, <3>1 DEF BeginPark, TypeOK, park_body
    <3>3. QED
      BY <2>5, <3>1, <3>2, StepType, Appended DEF TypeOK, BeginPark, lane, dear_limit, Pcs
  <2>6. CASE BeginFull(a)
    BY <2>6, StepType, CameType, InHand DEF TypeOK, BeginFull, lane, dear_limit, Pcs
  <2>7. CASE DropAbandoned(a)
    BY <2>7, StepType, CameType, InHand DEF TypeOK, DropAbandoned, lane, dear_limit, Pcs, After, Keep
  <2>8. CASE StartRun(a)
    BY <2>8, StepType, InHand DEF TypeOK, StartRun, lane, dear_limit, Pcs
  <2>9. CASE Run(a)
    BY <2>9, StepType, CameType, InHand DEF TypeOK, Run, lane, dear_limit, Pcs, After, Keep
  <2>10. CASE NextParked(a)
    <3>1. /\ Head(parked) \in Conns /\ Tail(parked) \in Seq(Conns)
          /\ request[Head(parked)] # None
      BY <2>10, Taken DEF NextParked, TypeOK, OnePlace, AtHand, Away, Open
    <3>2. parked_bytes' \in 0..BodyCap
      BY <2>10, <3>1, RequestShape DEF NextParked, TypeOK
    <3>3. QED
      BY <2>10, <3>1, <3>2, StepType DEF TypeOK, NextParked, lane, dear_limit, Pcs
  <2>11. CASE Release(a)
    BY <2>11, StepType DEF TypeOK, Release, lane, dear_limit, Pcs
  <2>12. QED
    BY <1>5, <2>1, <2>2, <2>3, <2>4, <2>5, <2>6, <2>7, <2>8, <2>9, <2>10, <2>11 DEF Work
<1>6. QED
  BY <1>1, <1>2, <1>3, <1>4, <1>5 DEF Next, AcceptLoop

-----------------------------------------------------------------------------
(* One place. *)

\* A worker that lets go of what it has and takes something no worker has.
LEMMA ServedStep ==
    ASSUME TypeOK, OnePlace, NEW a \in Workers, NEW step, NEW c,
           Step(a, step, c), c \notin Served \/ c = serving[a]
    PROVE  /\ Served' = (Served \ {serving[a]}) \cup ({c} \ {None})
           /\ \A x, y \in Workers : (serving[x] = serving[y] /\ x # y => serving[x] = None)'
<1>1. \A x \in Workers : serving'[x] = IF x = a THEN c ELSE serving[x]
  BY DEF TypeOK, Step
<1>2. \A x, y \in Workers : serving[x] = serving[y] /\ x # y => serving[x] = None
  BY DEF OnePlace
<1>3. \A x \in Workers : serving[x] # None => serving[x] \in Served
  BY DEF Served
<1>4. \A x, y \in Workers : (serving[x] = serving[y] /\ x # y => serving[x] = None)'
  BY <1>1, <1>2, <1>3
<1>5. Served' \subseteq (Served \ {serving[a]}) \cup ({c} \ {None})
  BY <1>1, <1>2 DEF Served
<1>6. (Served \ {serving[a]}) \cup ({c} \ {None}) \subseteq Served'
  BY <1>1, <1>2 DEF Served
<1>7. QED
  BY <1>4, <1>5, <1>6

\* A connection that is nowhere stays so.
StaysAway == \A c \in Conns : Away(c) => Away(c)'

\* A connection moves from one place to the next, never to two.
LEMMA OnePlaceStep ==
    ASSUME TypeOK, OnePlace, AtHand, Next
    PROVE  /\ OnePlace'
           /\ StaysAway \/ \E c \in Conns, r \in Requests : Connect(c, r)
<1> USE Constants
<1>1. ASSUME NEW c \in Conns, NEW r \in Requests, Connect(c, r)
      PROVE  OnePlace'
  BY <1>1, Appended DEF TypeOK, Connect, lane, OnePlace, Served, Away, Open
<1>2. ASSUME NEW c \in Conns, Leave(c)
      PROVE  OnePlace' /\ StaysAway
  BY <1>2 DEF Leave, lane, OnePlace, Served, StaysAway, Away, Open
<1>3. CASE Accept
  <2>1. /\ Head(backlog) \in ToSet(backlog) /\ Head(backlog) \in Conns
        /\ ToSet(backlog') = ToSet(backlog) \ {Head(backlog)} /\ IsInjective(backlog')
    BY <1>3, Taken DEF TypeOK, Accept, OnePlace
  <2>2. Served' = Served /\ UNCHANGED <<serving, parked>>
    BY <1>3 DEF Accept, lane, Served
  <2>3. CASE Len(queue) < Room
    <3>1. shedding' = shedding /\ ToSet(queue') = ToSet(queue) \cup {Head(backlog)}
      BY <1>3, <2>1, <2>3, Appended DEF TypeOK, Accept
    <3>2. IsInjective(queue')
      <4>1. Head(backlog) \notin ToSet(queue) /\ IsInjective(queue) /\ queue \in Seq(Conns)
        BY <2>1 DEF TypeOK, OnePlace
      <4>2. QED
        BY <1>3, <2>1, <2>3, <4>1, Appended DEF Accept
    <3>3. QED
      BY <1>3, <2>1, <2>2, <3>1, <3>2 DEF OnePlace, Accept, StaysAway, Away, Open
  <2>4. CASE ~(Len(queue) < Room)
    BY <1>3, <2>1, <2>2, <2>4 DEF OnePlace, Accept, StaysAway, Away, Open
  <2>5. QED
    BY <2>3, <2>4
<1>4. CASE Shed
  BY <1>4, InQueue DEF TypeOK, Shed, lane, OnePlace, Served, StaysAway, Away, Open
<1>5. ASSUME NEW a \in Workers, Work(a)
      PROVE  OnePlace' /\ StaysAway
  <2> None \notin Served /\ None \notin ToSet(backlog) /\ None \notin ToSet(queue) /\ None \notin ToSet(parked)
    BY InQueue DEF TypeOK, Served
  <2> serving[a] # None => serving[a] \in Served
    BY DEF Served
  <2>1. CASE Take(a)
    <3>1. /\ Head(queue) \in ToSet(queue) /\ Head(queue) \in Conns
          /\ ToSet(queue') = ToSet(queue) \ {Head(queue)} /\ IsInjective(queue')
      BY <2>1, Taken DEF TypeOK, Take, OnePlace
    <3>2. serving[a] = None
      BY <2>1 DEF Take, AtHand
    <3>3. /\ Served' = Served \cup {Head(queue)}
          /\ \A x, y \in Workers : (serving[x] = serving[y] /\ x # y => serving[x] = None)'
      BY <2>1, <3>1, <3>2, ServedStep DEF Take, OnePlace
    <3>4. QED
      BY <2>1, <3>1, <3>3 DEF Take, OnePlace, lane, StaysAway, Away, Open
  <2>2. CASE ReadRequest(a) \/ BeginRun(a) \/ StartRun(a)
    <3>1. PICK step : Step(a, step, serving[a])
      BY <2>2 DEF ReadRequest, BeginRun, StartRun
    <3>2. serving[a] # None
      BY <2>2 DEF ReadRequest, BeginRun, StartRun, AtHand
    <3>3. /\ Served' = Served
          /\ \A x, y \in Workers : (serving[x] = serving[y] /\ x # y => serving[x] = None)'
      BY <3>1, <3>2, ServedStep
    <3>4. UNCHANGED <<backlog, queue, shedding, parked>>
      BY <2>2 DEF ReadRequest, BeginRun, StartRun, lane
    <3>5. QED
      BY <3>3, <3>4 DEF OnePlace, StaysAway, Away, Open
  <2>3. CASE Refuse(a) \/ BeginFull(a) \/ DropAbandoned(a) \/ Run(a) \/ Release(a)
    <3>1. \E step \in Pcs : \E c \in {None, serving[a]} : Step(a, step, c)
      <4>1. \A step, c : Step(a, step, c) /\ step \in Pcs /\ c \in {None, serving[a]} =>
              \E s \in Pcs : \E d \in {None, serving[a]} : Step(a, s, d)
        OBVIOUS
      <4>2. /\ Keep(serving[a]) \in {None, serving[a]}
            /\ After(serving[a]) \in Pcs /\ "recv" \in Pcs
        BY DEF After, Keep, Pcs
      <4>3. CASE DropAbandoned(a) \/ Run(a)
        BY <4>1, <4>2, <4>3 DEF DropAbandoned, Run
      <4>4. CASE Refuse(a) \/ BeginFull(a) \/ Release(a)
        BY <4>1, <4>2, <4>4 DEF Refuse, BeginFull, Release
      <4>5. QED
        BY <2>3, <4>3, <4>4
    <3>2. /\ Served' \subseteq Served
          /\ \A x, y \in Workers : (serving[x] = serving[y] /\ x # y => serving[x] = None)'
      <4>1. PICK step \in Pcs, c \in {None, serving[a]} : Step(a, step, c)
        BY <3>1
      <4>2. c \notin Served \/ c = serving[a]
        BY <4>1
      <4>3. QED
        BY <4>1, <4>2, ServedStep
    <3>3. UNCHANGED <<backlog, queue, shedding, parked>>
      BY <2>3 DEF Refuse, BeginFull, DropAbandoned, Run, Release, lane
    <3>4. QED
      BY <3>2, <3>3 DEF OnePlace, StaysAway, Away, Open
  <2>4. CASE BeginPark(a)
    <3>1. serving[a] \in Conns /\ serving[a] \in Served
      BY <2>4, InHand DEF BeginPark
    <3>2. /\ Served' = Served \ {serving[a]}
          /\ \A x, y \in Workers : (serving[x] = serving[y] /\ x # y => serving[x] = None)'
      BY <2>4, ServedStep DEF BeginPark
    <3>3. ToSet(parked') = ToSet(parked) \cup {serving[a]} /\ IsInjective(parked')
      BY <2>4, <3>1, Appended DEF TypeOK, BeginPark, OnePlace
    <3>4. QED
      BY <2>4, <3>1, <3>2, <3>3 DEF BeginPark, OnePlace, StaysAway, Away, Open
  <2>5. CASE NextParked(a)
    <3>1. /\ Head(parked) \in ToSet(parked) /\ Head(parked) \in Conns
          /\ ToSet(parked') = ToSet(parked) \ {Head(parked)} /\ IsInjective(parked')
      BY <2>5, Taken DEF TypeOK, NextParked, OnePlace
    <3>2. /\ Served' = (Served \ {serving[a]}) \cup {Head(parked)}
          /\ \A x, y \in Workers : (serving[x] = serving[y] /\ x # y => serving[x] = None)'
      BY <2>5, <3>1, ServedStep DEF NextParked, OnePlace
    <3>3. QED
      BY <2>5, <3>1, <3>2 DEF NextParked, OnePlace, StaysAway, Away, Open
  <2>6. QED
    BY <1>5, <2>1, <2>2, <2>3, <2>4, <2>5 DEF Work
<1>6. QED
  BY <1>1, <1>2, <1>3, <1>4, <1>5 DEF Next, AcceptLoop

-----------------------------------------------------------------------------
(* In hand. *)

\* What a worker has fits where the step takes it, and nobody else moved.
LEMMA MovedAtHand ==
    ASSUME TypeOK, OnePlace, AtHand, StaysAway, NEW a \in Workers, NEW step, NEW c,
           Step(a, step, c), UNCHANGED <<request, closed>>,
           c = None <=> step = "recv",
           step \in {"begin", "end"} => request[c].kind = "dear",
           step \in {"check", "run"} => request[c].kind # "refused",
           step = "run" => c \notin closed,
           \A d \in ToSet(parked') : request[d].kind = "dear"
    PROVE  AtHand'
<1>1. \A x \in Workers : /\ serving'[x] = IF x = a THEN c ELSE serving[x]
                         /\ pc'[x] = IF x = a THEN step ELSE pc[x]
  BY DEF TypeOK, Step
<1>2. QED
  BY <1>1 DEF AtHand, StaysAway

\* Every step keeps what is in hand fit for where it is.
LEMMA AtHandStep ==
    ASSUME TypeOK, OnePlace, AtHand, Next
    PROVE  AtHand'
<1> USE Constants
<1>1. ASSUME NEW c \in Conns, NEW r \in Requests, Connect(c, r)
      PROVE  AtHand'
  <2>1. \A d \in Conns : request'[d] = IF d = c THEN r ELSE request[d]
    BY <1>1 DEF Connect, TypeOK
  <2>2. c \notin Served /\ c \notin ToSet(parked)
    BY <1>1 DEF Connect, Away, Open
  <2>3. \A x \in Workers : serving[x] # None =>
          serving[x] \in Conns /\ request'[serving[x]] = request[serving[x]]
    BY <2>1, <2>2 DEF Served, TypeOK
  <2>4. \A d \in ToSet(parked) : d \in Conns /\ request'[d] = request[d]
    BY <2>1, <2>2, InQueue DEF TypeOK
  <2>5. \A x \in Workers :
          /\ serving[x] = None <=> pc[x] = "recv"
          /\ pc[x] \in {"begin", "end"} => request'[serving[x]].kind = "dear"
          /\ pc[x] \in {"check", "run"} => request'[serving[x]].kind # "refused"
          /\ pc[x] = "run" => serving[x] \notin closed'
    BY <1>1, <2>3 DEF AtHand, Connect
  <2>6. \A d \in Conns : request'[d] = None => Away(d)'
    <3>1. ToSet(backlog') = ToSet(backlog) \cup {c}
      BY <1>1, Appended DEF TypeOK, Connect
    <3>2. QED
      BY <1>1, <2>1, <3>1 DEF AtHand, Away, Open, Served, Connect, lane
  <2>7. QED
    BY <1>1, <2>4, <2>5, <2>6 DEF AtHand, Connect, lane
<1>2. ASSUME NEW c \in Conns, Leave(c)
      PROVE  AtHand'
  <2>1. \A x \in Workers : pc[x] = "run" => serving[x] # c
    <3> SUFFICES ASSUME NEW x \in Workers, pc[x] = "run", serving[x] = c
                 PROVE  FALSE
      OBVIOUS
    <3>1. c \in Served
      BY InHand DEF Served
    <3>2. PICK y \in Workers : serving[y] = c /\ pc[y] \in {"read", "begin", "check"}
      BY <1>2, <3>1 DEF Leave, OnePlace
    <3>3. x = y
      BY <3>2 DEF OnePlace
    <3>4. QED
      BY <3>2, <3>3
  <2>2. Away(c)' <=> Away(c)
    BY <1>2 DEF Leave, lane, Away, Open, Served
  <2>3. \A d \in Conns : Away(d)' <=> Away(d)
    BY <1>2 DEF Leave, lane, Away, Open, Served
  <2>4. QED
    BY <1>2, <2>1, <2>3 DEF Leave, AtHand, lane
<1>3. CASE AcceptLoop
  <2>1. StaysAway
    BY <1>3, OnePlaceStep DEF AcceptLoop, Accept, Shed, Connect, TypeOK, lane
  <2>2. UNCHANGED <<pc, serving, parked, request, closed>>
    BY <1>3 DEF AcceptLoop, Accept, Shed, lane
  <2>3. QED
    BY <2>1, <2>2 DEF AtHand, StaysAway
<1>4. ASSUME NEW a \in Workers, Work(a)
      PROVE  AtHand'
  <2>1. StaysAway
    <3>1. UNCHANGED closed /\ UNCHANGED backlog /\ UNCHANGED request
      BY <1>4 DEF Work, Take, ReadRequest, Refuse, BeginRun, BeginPark, BeginFull,
                  DropAbandoned, StartRun, Run, NextParked, Release
    <3>2. \A c \in Conns, r \in Requests : ~Connect(c, r)
      BY <3>1, Appended DEF Connect, TypeOK
    <3>3. QED
      BY <3>2, OnePlaceStep
  <2> USE MovedAtHand
  <2> pc[a] # "recv" => serving[a] \in Conns /\ serving[a] # None /\ request[serving[a]] # None
    BY InHand
  <2> \A d \in ToSet(parked) : request[d].kind = "dear"
    BY DEF AtHand
  <2>2. CASE Take(a)
    <3>1. Head(queue) \in Conns
      BY <2>2, Taken DEF TypeOK, Take, OnePlace
    <3>2. QED
      BY <2>1, <2>2, <3>1 DEF Take, lane
  <2>3. CASE ReadRequest(a)
    BY <2>1, <2>3, RequestShape DEF ReadRequest, lane, IsCheap
  <2>4. CASE Refuse(a) \/ BeginFull(a) \/ Release(a)
    BY <2>1, <2>4 DEF Refuse, BeginFull, Release, lane
  <2>5. CASE BeginRun(a)
    BY <2>1, <2>5 DEF BeginRun, AtHand
  <2>6. CASE BeginPark(a)
    <3>1. ToSet(parked') = ToSet(parked) \cup {serving[a]}
      BY <2>6, Appended DEF TypeOK, BeginPark
    <3>2. request[serving[a]].kind = "dear"
      BY <2>6 DEF BeginPark, AtHand
    <3>3. QED
      BY <2>1, <2>6, <3>1, <3>2 DEF BeginPark
  <2>7. CASE DropAbandoned(a) \/ Run(a)
    <3>1. request[serving[a]].kind # "cheap" => request[serving[a]].kind = "dear"
      BY <2>7, RequestShape DEF DropAbandoned, Run, AtHand
    <3>2. QED
      BY <2>1, <2>7, <3>1 DEF DropAbandoned, Run, lane, After, Keep, IsCheap
  <2>8. CASE StartRun(a)
    BY <2>1, <2>8 DEF StartRun, lane, AtHand, Abandoned
  <2>9. CASE NextParked(a)
    <3>1. /\ Head(parked) \in ToSet(parked) /\ Head(parked) \in Conns
          /\ ToSet(parked') \subseteq ToSet(parked)
      BY <2>9, Taken DEF TypeOK, NextParked, OnePlace
    <3>2. QED
      BY <2>1, <2>9, <3>1 DEF NextParked, AtHand
  <2>10. QED
    BY <1>4, <2>2, <2>3, <2>4, <2>5, <2>6, <2>7, <2>8, <2>9 DEF Work
<1>5. QED
  BY <1>1, <1>2, <1>3, <1>4 DEF Next

-----------------------------------------------------------------------------
(* Slots. *)

\* The workers that hold a slot, after one worker moved.
LEMMA HoldersMove ==
    ASSUME TypeOK, NEW a \in Workers, NEW step, NEW c, Step(a, step, c), UNCHANGED request
    PROVE  Holders' = (Holders \ {a}) \cup
               (IF step \in {"check", "run", "end"} /\ ~IsCheap(c) THEN {a} ELSE {})
<1>1. \A x \in Workers : /\ serving'[x] = IF x = a THEN c ELSE serving[x]
                         /\ pc'[x] = IF x = a THEN step ELSE pc[x]
  BY DEF TypeOK, Step
<1>2. QED
  BY <1>1 DEF Holders, IsCheap

\* The holders are workers, so they are finitely many.
LEMMA HoldersFinite ==
    IsFiniteSet(Holders) /\ Cardinality(Holders) \in Nat
<1>1. Holders \subseteq Workers
  BY DEF Holders
<1>2. QED
  BY <1>1, FS_Subset, FS_CardinalityType, LaneAssumption

\* A lane that counts its holders leaves a worker out of dear work.
LEMMA OneIsLeft ==
    ASSUME NEW held, Cardinality(held) \in 0..dear_limit
    PROVE  Slots > 1 /\ Cardinality(Workers) = Slots => held # Workers
<1>1. Slots > 1 => Cardinality(held) < Slots
  BY LaneAssumption DEF dear_limit
<1>2. QED
  BY <1>1, LaneAssumption

\* Every step keeps the count of slots, and parks only beside a full lane.
LEMMA SlotsStep ==
    ASSUME TypeOK, OnePlace, AtHand, SlotsAreHeld, ParkedOnlyWhenFull, Next
    PROVE  (in_flight = Cardinality(Holders))' /\ ParkedOnlyWhenFull'
<1> USE Constants
<1>0. in_flight = Cardinality(Holders) /\ in_flight \in 0..dear_limit
  BY DEF SlotsAreHeld, TypeOK
<1>1. ASSUME NEW c \in Conns, NEW r \in Requests, Connect(c, r)
      PROVE  (in_flight = Cardinality(Holders))' /\ ParkedOnlyWhenFull'
  <2>1. \A x \in Workers : pc[x] # "recv" => serving[x] \in Conns /\ serving[x] # c
    BY <1>1, InHand DEF Connect, Away, Open, Served
  <2>2. \A d \in Conns : d # c => request'[d] = request[d]
    BY <1>1 DEF Connect, TypeOK
  <2>3. UNCHANGED <<pc, serving, in_flight, parked>>
    BY <1>1 DEF Connect, lane
  <2>4. Holders' = Holders
    BY <2>1, <2>2, <2>3 DEF Holders, IsCheap
  <2>5. QED
    BY <1>0, <2>3, <2>4 DEF ParkedOnlyWhenFull, dear_limit
<1>2. CASE AcceptLoop \/ \E c \in Conns : Leave(c)
  <2>1. UNCHANGED <<pc, serving, request, in_flight, parked>>
    BY <1>2 DEF AcceptLoop, Accept, Shed, Leave, lane
  <2>2. Holders' = Holders
    BY <2>1 DEF Holders, IsCheap
  <2>3. QED
    BY <1>0, <2>1, <2>2 DEF ParkedOnlyWhenFull, dear_limit
<1>3. ASSUME NEW a \in Workers, Work(a)
      PROVE  (in_flight = Cardinality(Holders))' /\ ParkedOnlyWhenFull'
  <2> USE HoldersMove
  <2>1. CASE Take(a)
    <3>1. Holders' = Holders
      BY <2>1 DEF Take, Holders
    <3>2. QED
      BY <1>0, <2>1, <3>1 DEF Take, lane, ParkedOnlyWhenFull
  <2>2. CASE ReadRequest(a) \/ Refuse(a) \/ BeginFull(a)
    <3>1. Holders' = Holders
      BY <2>2 DEF ReadRequest, Refuse, BeginFull, Holders
    <3>2. QED
      BY <1>0, <2>2, <3>1 DEF ReadRequest, Refuse, BeginFull, lane, ParkedOnlyWhenFull
  <2>3. CASE BeginRun(a)
    <3>1. a \notin Holders /\ Holders' = Holders \cup {a}
      BY <2>3 DEF BeginRun, Holders, AtHand, IsCheap
    <3>2. Cardinality(Holders') = Cardinality(Holders) + 1
      BY <3>1, FS_AddElement, HoldersFinite
    <3>3. parked = <<>> /\ parked' = parked
      BY <1>0, <2>3 DEF BeginRun, ParkedOnlyWhenFull
    <3>4. QED
      BY <1>0, <2>3, <3>2, <3>3 DEF BeginRun, ParkedOnlyWhenFull
  <2>4. CASE BeginPark(a)
    <3>1. Holders' = Holders
      BY <2>4 DEF BeginPark, Holders
    <3>2. in_flight = dear_limit /\ in_flight' = in_flight
      BY <1>0, <2>4 DEF BeginPark
    <3>3. QED
      BY <1>0, <3>1, <3>2 DEF ParkedOnlyWhenFull
  <2>5. CASE DropAbandoned(a) \/ Run(a)
    <3>1. Holders' = Holders
      BY <2>5 DEF DropAbandoned, Run, Holders, After, Keep, IsCheap
    <3>2. QED
      BY <1>0, <2>5, <3>1 DEF DropAbandoned, Run, lane, ParkedOnlyWhenFull
  <2>6. CASE StartRun(a)
    <3>1. Holders' = Holders
      BY <2>6 DEF StartRun, Holders, IsCheap
    <3>2. QED
      BY <1>0, <2>6, <3>1 DEF StartRun, lane, ParkedOnlyWhenFull
  <2>7. CASE NextParked(a)
    <3>1. Head(parked) \in ToSet(parked)
      BY <2>7, Taken DEF NextParked, TypeOK, OnePlace
    <3>2. a \in Holders /\ Holders' = Holders
      BY <2>7, <3>1 DEF NextParked, Holders, IsCheap, AtHand
    <3>3. in_flight = dear_limit /\ in_flight' = in_flight
      BY <2>7 DEF NextParked, ParkedOnlyWhenFull
    <3>4. QED
      BY <1>0, <3>2, <3>3 DEF ParkedOnlyWhenFull
  <2>8. CASE Release(a)
    <3>1. a \in Holders /\ Holders' = Holders \ {a}
      BY <2>8 DEF Release, Holders, AtHand, IsCheap
    <3>2. Cardinality(Holders') = Cardinality(Holders) - 1
      BY <3>1, FS_RemoveElement, HoldersFinite
    <3>3. Cardinality(Holders) > 0
      BY <3>1, FS_EmptySet, HoldersFinite
    <3>4. in_flight' = in_flight - 1 /\ parked' = <<>>
      BY <1>0, <2>8, <3>3 DEF Release
    <3>5. QED
      BY <1>0, <3>2, <3>4 DEF ParkedOnlyWhenFull
  <2>9. QED
    BY <1>3, <2>1, <2>2, <2>3, <2>4, <2>5, <2>6, <2>7, <2>8 DEF Work
<1>4. QED
  BY <1>1, <1>2, <1>3 DEF Next

-----------------------------------------------------------------------------
(* Bytes. *)

\* Every step keeps the byte count the sum of the bodies that are parked.
LEMMA BytesStep ==
    ASSUME TypeOK, OnePlace, AtHand, ParkedIsBounded, Next
    PROVE  ParkedIsBounded'
<1> USE Constants
<1>0. PICK left \in [1..(Len(parked) + 1) -> 0..BodyCap] :
        Remaining(left) /\ left[1] = parked_bytes
  BY DEF ParkedIsBounded
<1>1. Len(parked) \in Nat /\ Len(parked) <= Room
  BY DEF TypeOK, ParkedIsBounded
<1>2. \A k \in 1..Len(parked) : parked[k] \in Conns /\ request[parked[k]] # None
  BY InQueue DEF TypeOK, AtHand, Away, Open
<1>3. ASSUME UNCHANGED <<parked, parked_bytes>>,
             \A k \in 1..Len(parked) : request'[parked[k]] = request[parked[k]]
      PROVE  ParkedIsBounded'
  <2>1. Remaining(left)'
    BY <1>0, <1>3 DEF Remaining, Body
  <2>2. QED
    BY <1>0, <1>1, <1>3, <2>1 DEF ParkedIsBounded
<1>4. ASSUME NEW c \in Conns, NEW r \in Requests, Connect(c, r)
      PROVE  ParkedIsBounded'
  <2>1. c \notin ToSet(parked)
    BY <1>4 DEF Connect, Away, Open
  <2>2. \A k \in 1..Len(parked) : request'[parked[k]] = request[parked[k]]
    BY <1>2, <1>4, <2>1, InQueue DEF Connect, TypeOK
  <2>3. QED
    BY <1>3, <1>4, <2>2 DEF Connect, lane
<1>5. CASE AcceptLoop \/ \E c \in Conns : Leave(c)
  BY <1>3, <1>5 DEF AcceptLoop, Accept, Shed, Leave, lane
<1>6. ASSUME NEW a \in Workers, Work(a)
      PROVE  ParkedIsBounded'
  <2>1. CASE BeginPark(a)
    <3> DEFINE c == serving[a]
               more == [k \in 1..(Len(parked) + 2) |->
                           IF k = Len(parked) + 2 THEN 0 ELSE left[k] + Body(c)]
    <3>1. c \in Conns /\ Body(c) \in 0..BodyCap
      BY <2>1, InHand, RequestShape DEF BeginPark
    <3>2. /\ parked' = Append(parked, c) /\ Len(parked') = Len(parked) + 1
          /\ \A k \in 1..Len(parked) : parked'[k] = parked[k]
          /\ parked'[Len(parked) + 1] = c
      BY <2>1, <3>1 DEF BeginPark, TypeOK
    <3>3. /\ Len(parked) < Room /\ parked_bytes + Body(c) <= BodyCap
          /\ parked_bytes' = parked_bytes + Body(c)
      BY <2>1 DEF BeginPark, park_body
    <3>4. \A k \in 1..(Len(parked) + 1) : left[k] \in 0..BodyCap /\ left[k] <= parked_bytes
      BY <1>0, <1>1 DEF Remaining
    <3>5. more \in [1..(Len(parked') + 1) -> 0..BodyCap] /\ more[1] = parked_bytes'
      <4>1. \A k \in 1..(Len(parked) + 1) : left[k] + Body(c) \in 0..BodyCap
        BY <3>1, <3>3, <3>4, <1>0
      <4>2. \A k \in 1..(Len(parked) + 2) : more[k] \in 0..BodyCap
        BY <1>1, <4>1
      <4>3. Len(parked') + 1 = Len(parked) + 2
        BY <1>1, <3>2
      <4>4. more[1] = left[1] + Body(c)
        BY <1>1
      <4>5. QED
        BY <1>0, <3>3, <4>2, <4>3, <4>4
    <3>6. \A d : request'[d].body = Body(d)
      BY <2>1 DEF BeginPark, Body
    <3>7. \A k \in 1..(Len(parked) + 1) : more[k] = more[k + 1] + Body(parked'[k])
      <4> SUFFICES ASSUME NEW k \in 1..(Len(parked) + 1)
                   PROVE  more[k] = more[k + 1] + Body(parked'[k])
        OBVIOUS
      <4>1. CASE k = Len(parked) + 1
        <5>1. more[k] = left[k] + Body(c) /\ more[k + 1] = 0 /\ left[k] = 0
          BY <1>0, <1>1, <4>1 DEF Remaining
        <5>2. QED
          BY <3>1, <3>2, <4>1, <5>1
      <4>2. CASE k # Len(parked) + 1
        <5>1. /\ k \in 1..Len(parked) /\ k + 1 \in 1..(Len(parked) + 1)
              /\ more[k] = left[k] + Body(c) /\ more[k + 1] = left[k + 1] + Body(c)
          BY <1>1, <4>2
        <5>2. left[k] = left[k + 1] + Body(parked[k]) /\ parked'[k] = parked[k]
          BY <1>0, <3>2, <5>1 DEF Remaining
        <5>3. Body(parked[k]) \in Nat
          BY <1>2, <5>1, RequestShape
        <5>4. QED
          BY <3>1, <3>4, <5>1, <5>2, <5>3
      <4>3. QED
        BY <4>1, <4>2
    <3>8. \A j, k \in 1..(Len(parked) + 2) : j <= k => more[k] <= more[j]
      <4> SUFFICES ASSUME NEW j \in 1..(Len(parked) + 2), NEW k \in 1..(Len(parked) + 2), j <= k
                   PROVE  more[k] <= more[j]
        OBVIOUS
      <4>1. CASE k = Len(parked) + 2
        BY <1>1, <3>2, <3>5, <4>1
      <4>2. CASE k # Len(parked) + 2
        <5>1. j \in 1..(Len(parked) + 1) /\ k \in 1..(Len(parked) + 1)
          BY <1>1, <4>2
        <5>2. left[k] <= left[j]
          BY <1>0, <5>1 DEF Remaining
        <5>3. QED
          BY <1>1, <3>1, <3>4, <5>1, <5>2
      <4>3. QED
        BY <4>1, <4>2
    <3>9. PICK held : held = more
      OBVIOUS
    <3>10. Remaining(held)'
      <4>1. held[Len(parked') + 1] = 0
        BY <1>1, <3>2, <3>9
      <4>2. \A k \in 1..Len(parked') : held[k] = held[k + 1] + Body(parked'[k])
        BY <3>2, <3>7, <3>9
      <4>3. \A j, k \in 1..(Len(parked') + 1) : j <= k => held[k] <= held[j]
        BY <1>1, <3>2, <3>8, <3>9
      <4>4. QED
        BY <3>6, <4>1, <4>2, <4>3 DEF Remaining, Body
    <3>11. held \in [1..(Len(parked') + 1) -> 0..BodyCap] /\ held[1] = parked_bytes'
      BY <3>5, <3>9
    <3>12. Len(parked') <= Room
      BY <1>1, <3>2, <3>3
    <3>13. QED
      BY <3>10, <3>11, <3>12 DEF ParkedIsBounded
  <2>2. CASE NextParked(a)
    <3> DEFINE less == [k \in 1..Len(parked) |-> left[k + 1]]
    <3>1. /\ parked' = Tail(parked) /\ Len(parked) \in Nat \ {0}
          /\ Len(parked') = Len(parked) - 1 /\ Head(parked) = parked[1]
          /\ \A k \in 1..(Len(parked) - 1) : parked'[k] = parked[k + 1]
      BY <2>2, Taken DEF NextParked, TypeOK, OnePlace
    <3>2. /\ left[1] = left[2] + Body(Head(parked))
          /\ left[2] \in 0..BodyCap /\ Body(Head(parked)) \in Nat
      BY <1>0, <1>2, <3>1, RequestShape DEF Remaining
    <3>3. parked_bytes' = left[2]
      BY <1>0, <2>2, <3>2 DEF NextParked
    <3>4. less \in [1..(Len(parked') + 1) -> 0..BodyCap] /\ less[1] = parked_bytes'
      BY <1>0, <3>1, <3>3
    <3>5. \A k \in 1..(Len(parked) - 1) : less[k] = less[k + 1] + Body(parked'[k])
      BY <1>0, <3>1 DEF Remaining
    <3>6. \A j, k \in 1..Len(parked) : j <= k => less[k] <= less[j]
      BY <1>0, <3>1 DEF Remaining
    <3>7. less[Len(parked)] = 0
      BY <1>0, <3>1 DEF Remaining
    <3>8. \A d : request'[d].body = Body(d)
      BY <2>2 DEF NextParked, Body
    <3>9. PICK held : held = less
      OBVIOUS
    <3>10. Remaining(held)'
      <4>1. held[Len(parked') + 1] = 0
        BY <3>1, <3>7, <3>9
      <4>2. \A k \in 1..Len(parked') : held[k] = held[k + 1] + Body(parked'[k])
        BY <3>1, <3>5, <3>9
      <4>3. \A j, k \in 1..(Len(parked') + 1) : j <= k => held[k] <= held[j]
        BY <3>1, <3>6, <3>9
      <4>4. QED
        BY <3>8, <4>1, <4>2, <4>3 DEF Remaining, Body
    <3>11. held \in [1..(Len(parked') + 1) -> 0..BodyCap] /\ held[1] = parked_bytes'
      BY <3>4, <3>9
    <3>12. Len(parked') <= Room
      BY <1>1, <3>1
    <3>13. QED
      BY <3>10, <3>11, <3>12 DEF ParkedIsBounded
  <2>3. CASE ~BeginPark(a) /\ ~NextParked(a)
    BY <1>3, <1>6, <2>3 DEF Work, Take, ReadRequest, Refuse, BeginRun, BeginFull,
                            DropAbandoned, StartRun, Run, Release, lane
  <2>4. QED
    BY <2>1, <2>2, <2>3
<1>7. QED
  BY <1>4, <1>5, <1>6 DEF Next

-----------------------------------------------------------------------------
(* Ends. *)

\* Ends and Leaves, with what each request came to.
EndsOK == GivenUpNeverRuns /\ OneEnd

\* What a connection that has an end to come is in.
Waits(c) == c \in ToSet(backlog) \cup ToSet(queue) \cup ToSet(parked) \cup {shedding}

InWork(c) ==
    \E a \in Workers : serving[a] = c /\ pc[a] \in {"read", "begin", "check", "run"}

LEMMA PendingIs == \A c : Pending(c) <=> Waits(c) \/ InWork(c)
BY DEF Pending, Waits, InWork

\* Who is in work once one worker moved.
LEMMA InWorkMove ==
    ASSUME TypeOK, OnePlace, AtHand, NEW a \in Workers, NEW step, NEW c, Step(a, step, c),
           NEW d \in Conns
    PROVE  InWork(d)' <=>
             \/ d = c /\ step \in {"read", "begin", "check", "run"}
             \/ d # serving[a] /\ InWork(d)
<1> USE Constants
<1>1. \A x \in Workers : /\ serving'[x] = IF x = a THEN c ELSE serving[x]
                         /\ pc'[x] = IF x = a THEN step ELSE pc[x]
  BY DEF TypeOK, Step
<1>2. \A x \in Workers : x # a /\ serving[x] = d => d # serving[a]
  BY DEF OnePlace
<1>3. QED
  BY <1>1, <1>2 DEF InWork

\* A connection with an end to come has none yet, and one is no other's.
LEMMA EndsCame ==
    ASSUME TypeOK, EndsOK, NEW c \in Conns,
           NEW what \in {"ran", "busy", "refused", "dropped"}, Came(c, what),
           UNCHANGED <<request, closed>>,
           Pending(c), request[c] # None, ~Pending(c)', what = "ran" => c \notin closed,
           \A d \in Conns : d # c => (Pending(d)' <=> Pending(d))
    PROVE  EndsOK'
<1>1. \A d \in Conns : ends'[d] = IF d = c THEN Append(ends[c], what) ELSE ends[d]
  BY DEF TypeOK, Came
<1>2. ends[c] \in Seq({"ran", "busy", "refused", "dropped"}) /\ Len(ends[c]) = 0
  BY DEF TypeOK, EndsOK, OneEnd
<1>3. Len(Append(ends[c], what)) = 1 /\ Append(ends[c], what)[1] = what
  BY <1>2
<1>4. OneEnd'
  BY <1>1, <1>3 DEF EndsOK, OneEnd
<1>5. GivenUpNeverRuns'
  <2>1. what # "ran" => Append(ends[c], what) # <<"ran">>
    <3>1. <<"ran">>[1] = "ran"
      OBVIOUS
    <3>2. QED
      BY <1>3, <3>1
  <2>2. closed \subseteq Conns
    BY DEF TypeOK
  <2>3. QED
    BY <1>1, <2>1, <2>2 DEF EndsOK, GivenUpNeverRuns
<1>6. QED
  BY <1>4, <1>5 DEF EndsOK

\* A step that answers nobody.
LEMMA EndsKept ==
    ASSUME EndsOK, UNCHANGED <<request, closed, ends>>,
           \A d \in Conns : Pending(d)' <=> Pending(d)
    PROVE  EndsOK'
BY DEF EndsOK, OneEnd, GivenUpNeverRuns

\* Every request comes to one end, and to none after its client left.
LEMMA EndsStep ==
    ASSUME TypeOK, OnePlace, AtHand, EndsOK, Next
    PROVE  EndsOK'
<1> USE Constants
<1>1. ASSUME NEW c \in Conns, NEW r \in Requests, Connect(c, r)
      PROVE  EndsOK'
  <2>1. /\ \A d \in Conns : ends'[d] = IF d = c THEN <<>> ELSE ends[d]
        /\ \A d \in Conns : request'[d] = IF d = c THEN r ELSE request[d]
        /\ closed' = closed \ {c}
    BY <1>1 DEF Connect, TypeOK
  <2>2. ToSet(backlog') = ToSet(backlog) \cup {c}
    BY <1>1, Appended DEF TypeOK, Connect
  <2>3. \A d \in Conns : Pending(d)' <=> d = c \/ Pending(d)
    BY <1>1, <2>2 DEF Connect, Pending, lane
  <2>4. OneEnd'
    BY <2>1, <2>3 DEF EndsOK, OneEnd
  <2>5. closed \subseteq Conns
    BY DEF TypeOK
  <2>6. GivenUpNeverRuns'
    BY <2>1, <2>5 DEF EndsOK, GivenUpNeverRuns
  <2>7. QED
    BY <2>4, <2>6 DEF EndsOK
<1>2. ASSUME NEW c \in Conns, Leave(c)
      PROVE  EndsOK'
  <2>1. Pending(c)
    BY <1>2 DEF Leave, Pending
  <2>2. Len(ends[c]) = 0
    BY <2>1 DEF EndsOK, OneEnd
  <2>3. Len(<<"ran">>) = 1
    OBVIOUS
  <2>4. \A d \in Conns : Pending(d)' <=> Pending(d)
    BY <1>2 DEF Leave, Pending, lane
  <2>5. QED
    BY <1>2, <2>2, <2>3, <2>4 DEF Leave, EndsOK, OneEnd, GivenUpNeverRuns
<1>3. CASE Accept
  <2>1. /\ Head(backlog) \in ToSet(backlog) /\ Head(backlog) \in Conns
        /\ ToSet(backlog') = ToSet(backlog) \ {Head(backlog)}
    BY <1>3, Taken DEF TypeOK, Accept, OnePlace
  <2>2. queue' # queue => ToSet(queue') = ToSet(queue) \cup {Head(backlog)}
    BY <1>3, <2>1, Appended DEF TypeOK, Accept
  <2>3. \A d \in Conns : Waits(d)' <=> Waits(d)
    <3>1. CASE Len(queue) < Room
      <4>1. ToSet(queue') = ToSet(queue) \cup {Head(backlog)} /\ UNCHANGED <<shedding, parked>>
        BY <1>3, <2>1, <3>1, Appended DEF TypeOK, Accept, lane
      <4>2. QED
        BY <2>1, <4>1 DEF Waits
    <3>2. CASE ~(Len(queue) < Room)
      <4>1. shedding' = Head(backlog) /\ shedding = None /\ UNCHANGED <<queue, parked>>
        BY <1>3, <3>2 DEF Accept, lane
      <4>2. QED
        BY <2>1, <4>1 DEF Waits
    <3>3. QED
      BY <3>1, <3>2
  <2>4. \A d \in Conns : InWork(d)' <=> InWork(d)
    BY <1>3 DEF Accept, InWork
  <2>5. \A d \in Conns : Pending(d)' <=> Pending(d)
    BY <2>3, <2>4 DEF Waits, InWork, Pending
  <2>6. QED
    BY <1>3, <2>5, EndsKept DEF Accept
<1>4. CASE Shed
  <2>1. PICK c \in Conns : c = shedding /\ c \notin Served /\ request[c] # None
    BY <1>4 DEF Shed, TypeOK, OnePlace, AtHand, Away, Open
  <2>2. Pending(c) /\ ~InWork(c)
    BY <2>1 DEF Pending, InWork, Served
  <2>3. c \notin ToSet(backlog) /\ c \notin ToSet(queue) /\ c \notin ToSet(parked)
    BY <2>1 DEF OnePlace
  <2>4. UNCHANGED <<backlog, queue, parked, pc, serving, request, closed>> /\ shedding' = None
    BY <1>4 DEF Shed, lane
  <2>5. \A d \in Conns : Pending(d)' <=> d # c /\ Pending(d)
    BY <2>1, <2>2, <2>3, <2>4 DEF Pending, InWork
  <2>6. QED
    BY <1>4, <2>1, <2>2, <2>4, <2>5, EndsCame DEF Shed
<1>5. ASSUME NEW a \in Workers, Work(a)
      PROVE  EndsOK'
  <2> USE InWorkMove
  <2>1. CASE pc[a] = "recv"
    <3>1. Take(a) /\ serving[a] = None
      BY <1>5, <2>1 DEF Work, Take, ReadRequest, Refuse, BeginRun, BeginPark, BeginFull,
                        DropAbandoned, StartRun, Run, NextParked, Release, AtHand
    <3>2. PICK c \in Conns : c = Head(queue) /\ c \in ToSet(queue) /\ ToSet(queue') = ToSet(queue) \ {c}
      BY <3>1, Taken DEF TypeOK, Take, OnePlace
    <3>3. \A d \in Conns : InWork(d)' <=> d = c \/ InWork(d)
      BY <3>1, <3>2 DEF Take
    <3>4. UNCHANGED <<backlog, parked, shedding, request, closed, ends>>
      BY <3>1 DEF Take, lane
    <3>5. \A d \in Conns : Waits(d)' <=> d # c /\ Waits(d)
      BY <3>2, <3>4 DEF Waits, OnePlace
    <3>6. \A d \in Conns : Pending(d)' <=> Pending(d)
      BY <3>2, <3>3, <3>5 DEF Pending, Waits, InWork
    <3>7. QED
      BY <3>4, <3>6, EndsKept
  <2>2. CASE pc[a] # "recv"
    <3>1. PICK c \in Conns : c = serving[a] /\ request[c] # None
      BY <2>2, InHand
    <3>2. c \in Served /\ ~Waits(c)
      BY <3>1 DEF Served, Waits, OnePlace
    <3>3. pc[a] # "end" => InWork(c) /\ Pending(c)
      BY <2>2, <3>1 DEF InWork, Pending, TypeOK, Pcs
    <3>4. pc[a] = "end" => ~InWork(c)
      BY <3>1 DEF InWork, OnePlace
    <3>5. CASE ReadRequest(a) \/ BeginRun(a) \/ StartRun(a)
      <4>1. \E step \in {"begin", "check", "run"} : Step(a, step, c)
        BY <3>1, <3>5 DEF ReadRequest, BeginRun, StartRun
      <4>2. InWork(c)
        BY <3>3, <3>5 DEF ReadRequest, BeginRun, StartRun
      <4>3. \A d \in Conns : InWork(d)' <=> InWork(d)
        BY <3>1, <4>1, <4>2
      <4>4. UNCHANGED <<backlog, queue, parked, shedding, request, closed, ends>>
        BY <3>5 DEF ReadRequest, BeginRun, StartRun, lane
      <4>5. \A d \in Conns : Pending(d)' <=> Pending(d)
        BY <4>3, <4>4 DEF Pending, InWork
      <4>6. QED
        BY <4>4, <4>5, EndsKept
    <3>6. CASE Refuse(a) \/ BeginFull(a) \/ DropAbandoned(a) \/ Run(a)
      <4>1. \E step \in {"recv", "end"} : \E k \in {None, c} : Step(a, step, k)
        <5>1. After(c) \in {"recv", "end"} /\ Keep(c) \in {None, c}
          BY DEF After, Keep
        <5>2. QED
          BY <3>1, <3>6, <5>1 DEF Refuse, BeginFull, DropAbandoned, Run
      <4>2. \A d \in Conns : InWork(d)' <=> d # c /\ InWork(d)
        BY <3>1, <4>1
      <4>3. UNCHANGED <<backlog, queue, parked, shedding, request, closed>>
        BY <3>6 DEF Refuse, BeginFull, DropAbandoned, Run, lane
      <4>4. \A d \in Conns : Pending(d)' <=> d # c /\ Pending(d)
        BY <3>2, <4>2, <4>3 DEF Pending, InWork, Waits
      <4>5. \E what \in {"ran", "busy", "refused", "dropped"} :
              Came(c, what) /\ (what = "ran" => Run(a))
        BY <3>1, <3>6 DEF Refuse, BeginFull, DropAbandoned, Run
      <4>6. Run(a) => c \notin closed
        BY <3>1 DEF Run, AtHand
      <4>7. Pending(c)
        BY <3>3, <3>6 DEF Refuse, BeginFull, DropAbandoned, Run
      <4>8. QED
        BY <3>1, <4>3, <4>4, <4>5, <4>6, <4>7, EndsCame
    <3>7. CASE BeginPark(a)
      <4>1. ToSet(parked') = ToSet(parked) \cup {c}
        BY <3>1, <3>7, Appended DEF TypeOK, BeginPark
      <4>2. UNCHANGED <<backlog, queue, shedding, request, closed, ends>>
        BY <3>7 DEF BeginPark
      <4>3. \A d \in Conns : InWork(d)' <=> d # c /\ InWork(d)
        BY <3>1, <3>7 DEF BeginPark
      <4>4. \A d \in Conns : Pending(d)' <=> Pending(d)
        BY <3>3, <3>7, <4>1, <4>2, <4>3 DEF Pending, InWork, BeginPark
      <4>5. QED
        BY <4>2, <4>4, EndsKept
    <3>8. CASE NextParked(a)
      <4>1. PICK h \in Conns : h = Head(parked) /\ h \in ToSet(parked) /\ ToSet(parked') = ToSet(parked) \ {h}
        BY <3>8, Taken DEF TypeOK, NextParked, OnePlace
      <4>2. UNCHANGED <<backlog, queue, shedding, request, closed, ends>>
        BY <3>8 DEF NextParked
      <4>3. \A d \in Conns : InWork(d)' <=> d = h \/ (d # c /\ InWork(d))
        BY <3>1, <3>8, <4>1 DEF NextParked
      <4>4. ~InWork(c)
        BY <3>4, <3>8 DEF NextParked
      <4>5. \A d \in Conns : Pending(d)' <=> Pending(d)
        <5>1. \A d \in Conns : Waits(d)' <=> d # h /\ Waits(d)
          BY <4>1, <4>2 DEF Waits, OnePlace
        <5>2. Waits(h)
          BY <4>1 DEF Waits
        <5>3. QED
          BY <4>3, <4>4, <5>1, <5>2 DEF Pending, Waits, InWork
      <4>6. QED
        BY <4>2, <4>5, EndsKept
    <3>9. CASE Release(a)
      <4>1. \A d \in Conns : InWork(d)' <=> InWork(d)
        BY <3>1, <3>4, <3>9 DEF Release
      <4>2. UNCHANGED <<backlog, queue, parked, shedding, request, closed, ends>>
        BY <3>9 DEF Release
      <4>3. \A d \in Conns : Pending(d)' <=> Pending(d)
        BY <4>1, <4>2 DEF Pending, InWork
      <4>4. QED
        BY <4>2, <4>3, EndsKept
    <3>10. CASE Take(a)
      BY <2>2, <3>10 DEF Take
    <3>11. QED
      BY <1>5, <3>5, <3>6, <3>7, <3>8, <3>9, <3>10 DEF Work
  <2>3. QED
    BY <2>1, <2>2
<1>6. QED
  BY <1>1, <1>2, <1>3, <1>4, <1>5 DEF Next, AcceptLoop

-----------------------------------------------------------------------------
\* The machine starts with nothing anywhere.
LEMMA Initially == Init => Inv
<1> SUFFICES ASSUME Init PROVE Inv
  OBVIOUS
<1> USE Constants
<1>1. ToSet(<<>>) = {} /\ IsInjective(<<>>) /\ <<>> \in Seq(Conns) /\ Len(<<>>) = 0
  BY DEF ToSet, IsInjective
<1>2. Served = {}
  BY DEF Init, Served
<1>3. TypeOK
  <2>1. <<>> \in Seq({"ran", "busy", "refused", "dropped"})
    OBVIOUS
  <2>2. QED
    BY <1>1, <2>1 DEF Init, TypeOK, Pcs
<1>4. OnePlace
  BY <1>1, <1>2 DEF Init, OnePlace
<1>5. AtHand
  BY <1>1, <1>2 DEF Init, AtHand, Away, Open
<1>6. SlotsAreHeld
  <2>1. Holders = {}
    BY DEF Init, Holders
  <2>2. in_flight = Cardinality(Holders) /\ in_flight \in 0..dear_limit
    BY <2>1, FS_EmptySet DEF Init
  <2>3. QED
    BY <2>2, OneIsLeft DEF SlotsAreHeld
<1>7. ParkedOnlyWhenFull /\ GivenUpNeverRuns
  BY DEF Init, ParkedOnlyWhenFull, GivenUpNeverRuns
<1>8. ParkedIsBounded
  <2>1. PICK left \in [1..1 -> 0..BodyCap] : left[1] = 0
    <3> DEFINE nothing == [k \in 1..1 |-> 0]
    <3>1. nothing \in [1..1 -> 0..BodyCap] /\ nothing[1] = 0
      OBVIOUS
    <3>2. QED
      BY <3>1 DEF nothing
  <2>2. Remaining(left)
    BY <1>1, <2>1 DEF Init, Remaining
  <2>3. QED
    BY <1>1, <2>1, <2>2 DEF Init, ParkedIsBounded
<1>9. OneEnd
  BY <1>1 DEF Init, OneEnd
<1>10. QED
  BY <1>3, <1>4, <1>5, <1>6, <1>7, <1>8, <1>9 DEF Inv

\* A step that changes nothing.
LEMMA Stuttering ==
    ASSUME Inv, UNCHANGED vars
    PROVE  Inv'
<1> UNCHANGED <<backlog, queue, shedding, pc, serving, in_flight, parked, parked_bytes,
                request, closed, ends>>
  BY DEF vars
<1>1. TypeOK' /\ OnePlace' /\ AtHand'
  BY DEF Inv, TypeOK, OnePlace, AtHand, Served, Away, Open, dear_limit
<1>2. SlotsAreHeld' /\ ParkedOnlyWhenFull' /\ ParkedIsBounded'
  BY DEF Inv, SlotsAreHeld, Holders, IsCheap, ParkedOnlyWhenFull, ParkedIsBounded, Remaining,
         Body, dear_limit
<1>3. GivenUpNeverRuns' /\ OneEnd'
  BY DEF Inv, GivenUpNeverRuns, OneEnd, Pending
<1>4. QED
  BY <1>1, <1>2, <1>3 DEF Inv

(***************************************************************************)
(* Whatever the connections, workers, slots and bounds, and in whatever    *)
(* order they connect, leave, park and run: the slots counted are the      *)
(* slots held and one of several workers stays out of dear work, a request *)
(* is parked only beside a full lane and within its two bounds, what a     *)
(* client gave up on is never run, and every request comes to one end.     *)
(***************************************************************************)
THEOREM Invariance == Spec => []Inv
<1>1. Init => Inv
  BY Initially
<1>2. Inv /\ [Next]_vars => Inv'
  <2> SUFFICES ASSUME Inv, [Next]_vars
               PROVE  Inv'
    OBVIOUS
  <2>1. CASE Next
    <3>1. TypeOK' /\ OnePlace' /\ AtHand'
      BY <2>1, TypeStep, OnePlaceStep, AtHandStep DEF Inv
    <3>2. (in_flight = Cardinality(Holders))' /\ ParkedOnlyWhenFull'
      BY <2>1, SlotsStep DEF Inv
    <3>3. SlotsAreHeld'
      <4>1. in_flight' \in 0..dear_limit
        BY <3>1 DEF TypeOK, dear_limit
      <4>2. QED
        BY <3>2, <4>1, OneIsLeft DEF SlotsAreHeld
    <3>4. ParkedIsBounded'
      BY <2>1, BytesStep DEF Inv
    <3>5. GivenUpNeverRuns' /\ OneEnd'
      BY <2>1, EndsStep DEF Inv, EndsOK
    <3>6. QED
      BY <3>1, <3>2, <3>3, <3>4, <3>5 DEF Inv
  <2>2. CASE UNCHANGED vars
    BY <2>2, Stuttering
  <2>3. QED
    BY <2>1, <2>2
<1>3. QED
  BY <1>1, <1>2, PTL DEF Spec

-----------------------------------------------------------------------------
(***************************************************************************)
(* StoreLocks.                                                             *)
(***************************************************************************)

-----------------------------------------------------------------------------
(* The steps of a call, and the locks held at each. *)

Counting == {"counts_cached", "counts_build", "counts_seen", "counts_scan", "counts_insert",
             "evict_counts", "drop_live", "drop_terms", "counts_out"}
Evicting == {"evict_cached", "evict_terms_of", "evict_counts_of"}
Looking  == {"live_load", "live_cached", "live_check", "live_insert"}
Indexing == {"terms_cached", "terms_build", "terms_take", "terms_insert", "evict_terms"}
Clearing == {"forget_live", "forget_terms", "forget_counts", "forget_used"}
Writing  == {"commit", "bump", "patch"} \cup Clearing
Steps    == {"idle", "write"} \cup Counting \cup Looking \cup Evicting \cup Indexing \cup Writing

Locks == {"writes", "terms_build", "counts_build", "live", "terms", "counts"}

\* The order the locks are taken in; a thread that waits for none is last.
Rank(lock) ==
  CASE lock = "writes"       -> 1
    [] lock = "terms_build"  -> 2
    [] lock = "counts_build" -> 3
    [] lock = "live"         -> 4
    [] lock = "terms"        -> 5
    [] lock = "counts"       -> 6
    [] OTHER                 -> 7

May(place) ==
  CASE place \in Counting \ {"counts_build", "evict_counts", "drop_terms"} -> {<<"counts_build", "w">>}
    [] place = "evict_counts" -> {<<"counts_build", "w">>, <<"counts", "w">>}
    [] place = "drop_terms"   -> {<<"counts_build", "w">>, <<"live", "r">>}
    [] place \in Looking \cup (Indexing \ {"terms_build", "evict_terms"}) -> {<<"terms_build", "w">>}
    [] place \in Evicting     -> {<<"terms_build", "w">>, <<"live", "w">>}
    [] place = "evict_terms"  -> {<<"terms_build", "w">>, <<"terms", "w">>}
    [] place \in Writing      -> {<<"writes", "w">>}
    [] OTHER               -> {}

Calls == [pc : Steps, op : {"none", "status", "read", "search", "write", "forget"},
          key : Names \cup {Nobody}, lap : 0..3, seen : Int, saw : Int,
          out : Names \cup {Nobody}, dropped : SUBSET Names, floor : Nat]

Entries == [at : Int, saw : Int]

-----------------------------------------------------------------------------
(* The inductive invariant. *)

Held == SUBSET (Locks \X {"r", "w"})

StoreTypeOK ==
  /\ commits \in Nat /\ stamp \in Nat
  /\ parsed \in [Names -> Int] /\ indexed \in [Names -> Int]
  /\ counts \in [Names -> Entries]
  /\ used \in [Names -> Nat]

LocksTypeOK ==
  /\ StoreTypeOK
  /\ holds \in [Threads -> Held]
  /\ thread \in [Threads -> Calls]

\* A call past its beginning has its key, an eviction its victim, and what
\* it does next is of its kind.
CallOK(me) ==
  /\ me.pc # "idle" => me.key \in Names
  /\ me.pc \in {"evict_terms_of", "evict_counts_of"} => me.out \in Names
  /\ me.op = "read" => me.lap = 0
  /\ me.pc \in Indexing => me.op = "search"
  /\ me.pc \in Looking \cup Evicting => me.op \in {"read", "search"}

\* What a thread may hold where it is, and must.
LockOK(me, held) ==
  /\ held \subseteq May(me.pc)
  /\ me.lap <= 1 => <<"terms_build", "w">> \notin held
  /\ me.pc \in Writing => <<"writes", "w">> \in held

OneWriter == \A t, u \in Threads : <<"writes", "w">> \in holds[t] \cap holds[u] => t = u

HeldOK ==
  /\ \A t \in Threads : LockOK(thread[t], holds[t])
  /\ OneWriter

\* A status goes by a generation no older than its question, and by counts
\* of a scan no older than that; the commits are ahead while a writer is at
\* the generation.
CountOK(me, s, c) ==
  /\ me.pc = "bump" => c > s
  /\ me.floor <= s
  /\ me.pc \in {"counts_cached", "counts_scan", "counts_insert"} => me.floor <= me.seen
  /\ me.pc = "counts_scan" => me.seen <= s
  /\ me.pc = "counts_insert" => me.seen <= me.saw
  /\ me.pc \in {"evict_counts", "drop_live", "drop_terms", "counts_out"} => me.floor <= me.saw

EntriesOK == \A w \in Names : counts[w].saw >= counts[w].at

CountsOK ==
  /\ commits >= stamp
  /\ EntriesOK
  /\ \A t \in Threads : CountOK(thread[t], stamp, commits)

\* A cache is over its cap only while the thread that filled it evicts.
Small(S) == IsFiniteSet(S) /\ Cardinality(S) <= CacheCap

NoneAt(some) == \A t \in Threads : thread[t].pc \notin some

Finite == IsFiniteSet(CachedIn(parsed)) /\ IsFiniteSet(CachedIn(indexed)) /\ IsFiniteSet(Counted)

CapOK ==
  /\ Finite
  /\ NoneAt(Evicting) => Small(CachedIn(parsed))
  /\ NoneAt({"evict_terms"}) => Small(CachedIn(indexed))
  /\ NoneAt({"evict_counts"}) => Small(Counted)

LocksIInv ==
  /\ LocksTypeOK
  /\ IsFiniteSet(Named)
  /\ \A t \in Threads : CallOK(thread[t])
  /\ HeldOK
  /\ CountsOK
  /\ CapOK

-----------------------------------------------------------------------------
(* Deadlock. *)

\* The locks wanted and held, step by step.
LEMMA WantsAt ==
    /\ Wants("counts_cached") = <<"counts", "r">>
    /\ Wants("counts_build") = <<"counts_build", "w">>
    /\ Wants("counts_insert") = <<"counts", "w">>
    /\ Wants("drop_live") = <<"live", "r">>
    /\ Wants("drop_terms") = <<"terms", "r">>
    /\ Wants("live_cached") = <<"live", "r">>
    /\ Wants("live_insert") = <<"live", "w">>
    /\ Wants("evict_terms_of") = <<"terms", "w">>
    /\ Wants("evict_counts_of") = <<"counts", "w">>
    /\ Wants("terms_cached") = <<"terms", "r">>
    /\ Wants("terms_build") = <<"terms_build", "w">>
    /\ Wants("terms_take") = <<"terms", "w">>
    /\ Wants("terms_insert") = <<"terms", "w">>
    /\ Wants("write") = <<"writes", "w">>
    /\ Wants("patch") = <<"live", "w">>
    /\ Wants("forget_live") = <<"live", "w">>
    /\ Wants("forget_terms") = <<"terms", "w">>
    /\ Wants("forget_counts") = <<"counts", "w">>
    /\ \A place \in {"idle", "counts_seen", "counts_scan", "evict_counts", "counts_out", "live_load",
                "live_check", "evict_cached", "evict_terms", "commit", "bump", "forget_used"} :
         Wants(place) = <<"none", "r">>
BY DEF Wants

LEMMA MayAt ==
    /\ \A place \in {"idle", "write", "counts_build", "terms_build"} : May(place) = {}
    /\ \A place \in {"counts_cached", "counts_seen", "counts_scan", "counts_insert", "drop_live", "counts_out"} :
         May(place) = {<<"counts_build", "w">>}
    /\ May("evict_counts") = {<<"counts_build", "w">>, <<"counts", "w">>}
    /\ May("drop_terms") = {<<"counts_build", "w">>, <<"live", "r">>}
    /\ \A place \in {"live_load", "live_cached", "live_check", "live_insert",
                   "terms_cached", "terms_take", "terms_insert"} :
         May(place) = {<<"terms_build", "w">>}
    /\ \A place \in {"evict_cached", "evict_terms_of", "evict_counts_of"} :
         May(place) = {<<"terms_build", "w">>, <<"live", "w">>}
    /\ May("evict_terms") = {<<"terms_build", "w">>, <<"terms", "w">>}
    /\ \A place \in {"commit", "bump", "patch", "forget_live", "forget_terms", "forget_counts", "forget_used"} :
         May(place) = {<<"writes", "w">>}
BY DEF May, Counting, Evicting, Looking, Indexing, Writing, Clearing

LEMMA RankAt ==
    /\ Rank("writes") = 1 /\ Rank("terms_build") = 2 /\ Rank("counts_build") = 3
    /\ Rank("live") = 4 /\ Rank("terms") = 5 /\ Rank("counts") = 6 /\ Rank("none") = 7
BY DEF Rank

\* At every step, what is waited for is above what is held.
LEMMA StepsAreOrdered ==
    ASSUME NEW place \in Steps, NEW held \in May(place)
    PROVE  Rank(held[1]) < Rank(Wants(place)[1])
<1>1. CASE place \in Counting
  BY <1>1, WantsAt, MayAt, RankAt DEF Counting
<1>2. CASE place \in Looking \cup Evicting
  BY <1>2, WantsAt, MayAt, RankAt DEF Looking, Evicting
<1>3. CASE place \in Indexing
  BY <1>3, WantsAt, MayAt, RankAt DEF Indexing
<1>4. CASE place \in Writing
  BY <1>4, WantsAt, MayAt, RankAt DEF Writing, Clearing
<1>5. CASE place \in {"idle", "write"}
  BY <1>5, MayAt
<1>6. QED
  BY <1>1, <1>2, <1>3, <1>4, <1>5 DEF Steps

\* A thread waits for a lock above every lock it holds.
LEMMA WaitsAbove ==
    ASSUME LocksTypeOK, HeldOK, NEW t \in Threads, NEW held \in holds[t]
    PROVE  Rank(held[1]) < Rank(Wants(thread[t].pc)[1])
<1>1. thread[t].pc \in Steps /\ held \in May(thread[t].pc)
  BY DEF LocksTypeOK, HeldOK, LockOK, Calls
<1>2. QED
  BY <1>1, StepsAreOrdered

\* What a thread wants is a lock in the order, to read or to write.
LEMMA WantsALock ==
    ASSUME LocksTypeOK, NEW t \in Threads
    PROVE  /\ Wants(thread[t].pc) \in (Locks \cup {"none"}) \X {"r", "w"}
           /\ Rank(Wants(thread[t].pc)[1]) \in 1..7
<1>1. Wants(thread[t].pc) \in (Locks \cup {"none"}) \X {"r", "w"}
  BY DEF Wants, Locks
<1>2. \A lock \in Locks \cup {"none"} : Rank(lock) \in 1..7
  BY DEF Rank, Locks
<1>3. QED
  BY <1>1, <1>2

\* Of the threads of a circle, one waits for the highest lock, and to write
\* it if any of those at that lock does: nobody in the circle keeps it.
LEMMA NoneInACircle ==
    ASSUME LocksTypeOK, HeldOK
    PROVE  NoCircle
<1> SUFFICES ASSUME NEW circle \in (SUBSET Threads) \ {{}}
             PROVE  \E t \in circle : KeptBy(t) \cap circle = {}
  BY DEF NoCircle
<1> DEFINE At(t) == Wants(thread[t].pc)
           Place(t) == Rank(At(t)[1])
<1>0. \A t \in circle : At(t) \in (Locks \cup {"none"}) \X {"r", "w"} /\ Place(t) \in 1..7
  BY WantsALock
<1>1. PICK top \in circle : \A u \in circle : Place(u) <= Place(top)
  <2>1. \E first \in circle : TRUE
    OBVIOUS
  <2>2. \/ \E t \in circle : Place(t) = 7
        \/ \E t \in circle : Place(t) = 6 /\ \A u \in circle : Place(u) <= 6
        \/ \E t \in circle : Place(t) = 5 /\ \A u \in circle : Place(u) <= 5
        \/ \E t \in circle : Place(t) = 4 /\ \A u \in circle : Place(u) <= 4
        \/ \E t \in circle : Place(t) = 3 /\ \A u \in circle : Place(u) <= 3
        \/ \E t \in circle : Place(t) = 2 /\ \A u \in circle : Place(u) <= 2
        \/ \E t \in circle : Place(t) = 1 /\ \A u \in circle : Place(u) <= 1
    <3> HIDE DEF Place
    <3>1. QED
      BY <1>0, <2>1
  <2> HIDE DEF Place
  <2>3. QED
    BY <1>0, <2>2
<1>2. ASSUME NEW t \in circle, Place(t) = Place(top), NEW u \in circle, NEW held \in holds[u],
             Conflict(At(t), held)
      PROVE  FALSE
  <2>1. held[1] = At(t)[1]
    BY <1>2 DEF Conflict
  <2>2. Rank(held[1]) < Place(u)
    BY WaitsAbove
  <2>3. Place(u) <= Place(top) /\ Place(u) \in Int /\ Place(top) \in Int
    BY <1>0, <1>1
  <2>4. QED
    BY <1>2, <2>1, <2>2, <2>3
<1>3. CASE \E t \in circle : Place(t) = Place(top) /\ At(t)[2] = "w"
  <2>1. PICK t \in circle : Place(t) = Place(top) /\ At(t)[2] = "w"
    BY <1>3
  <2>2. KeptBy(t) = {u \in Threads : \E held \in holds[u] : Conflict(At(t), held)}
    BY <2>1 DEF KeptBy
  <2>3. QED
    BY <1>2, <2>1, <2>2
<1>4. CASE \A t \in circle : Place(t) = Place(top) => At(t)[2] # "w"
  <2>1. ASSUME NEW u \in circle, Wants(thread[u].pc) = <<At(top)[1], "w">>
        PROVE  FALSE
    BY <1>4, <2>1
  <2>2. QED
    BY <1>2, <2>1 DEF KeptBy
<1>5. QED
  BY <1>3, <1>4

-----------------------------------------------------------------------------
(* The caps. *)

\* An entry that leaves, or is given another generation, keeps a cache small.
LEMMA FewerSmall ==
    ASSUME NEW S, NEW T, T \subseteq S, IsFiniteSet(S)
    PROVE  IsFiniteSet(T) /\ (Small(S) => Small(T))
<1>1. IsFiniteSet(T) /\ Cardinality(T) <= Cardinality(S)
  BY FS_Subset
<1>2. Cardinality(T) \in Nat /\ Cardinality(S) \in Nat
  BY <1>1, FS_CardinalityType
<1>3. QED
  BY <1>1, <1>2, StoreLocksAssumption DEF Small

\* A set of naturals that is not empty has a least element.
LEMMA LeastExists ==
    ASSUME NEW S \in SUBSET Nat, S # {}
    PROVE  \E x \in S : \A y \in S : x <= y
<1>1. IsWellFoundedOn(OpToRel(<, Nat), Nat)
  BY NatLessThanWellFounded
<1>2. \E x \in S : \A y \in S : ~ (<<y, x>> \in OpToRel(<, Nat))
  BY <1>1, WFMin
<1>3. ASSUME NEW x \in Nat, NEW y \in Nat, x < y
      PROVE  <<x, y>> \in OpToRel(<, Nat)
  <2>1. <<x, y>> \in Nat \X Nat /\ <<x, y>>[1] = x /\ <<x, y>>[2] = y
    OBVIOUS
  <2>2. QED
    BY <1>3, <2>1 DEF OpToRel
<1>4. PICK x \in S : \A y \in S : ~ (<<y, x>> \in OpToRel(<, Nat))
  BY <1>2
<1>5. \A y \in S : ~ (y < x)
  BY <1>3, <1>4
<1>6. QED
  BY <1>5

\* The coldest of several names: there is one.
LEMMA ColdestThere ==
    ASSUME LocksTypeOK, NEW cached \in SUBSET Names, NEW keep, cached \ {keep} # {}
    PROVE  Coldest(cached, keep) # {}
<1> DEFINE others == cached \ {keep}
           ages == {used[w] : w \in others}
<1>1. ages \in SUBSET Nat /\ ages # {}
  BY DEF LocksTypeOK, StoreTypeOK
<1>2. PICK least \in ages : \A y \in ages : least <= y
  BY <1>1, LeastExists
<1>3. PICK w \in others : used[w] = least
  BY <1>2
<1>4. QED
  BY <1>2, <1>3 DEF Coldest

\* With nothing left to evict, only the name asked for is cached.
LEMMA EvictedSmall ==
    ASSUME LocksTypeOK, NEW cached \in SUBSET Names, NEW keep, IsFiniteSet(cached),
           ~ (Cardinality(cached) > CacheCap /\ Coldest(cached, keep) # {})
    PROVE  Small(cached)
<1>1. CASE Coldest(cached, keep) = {}
  <2>1. cached \subseteq {keep}
    BY <1>1, ColdestThere
  <2>2. IsFiniteSet({keep}) /\ Cardinality({keep}) = 1
    BY FS_Singleton
  <2>3. Cardinality(cached) <= 1
    BY <2>1, <2>2, FS_Subset
  <2>4. QED
    BY <2>3, FS_CardinalityType, StoreLocksAssumption DEF Small
<1>2. CASE ~ (Cardinality(cached) > CacheCap)
  BY <1>2, FS_CardinalityType, StoreLocksAssumption DEF Small
<1>3. QED
  BY <1>1, <1>2

-----------------------------------------------------------------------------
(* The use clock. *)

\* A note keeps every place a natural and names one name more.
LEMMA NotedFits ==
    ASSUME StoreTypeOK, IsFiniteSet(Named), NEW w \in Names
    PROVE  /\ Noted(w) \in [Names -> Nat]
           /\ IsFiniteSet({v \in Names : Noted(w)[v] # 0})
<1>1. IsFiniteSet(Named \cup {w}) /\ Cardinality(Named \cup {w}) \in Nat
  BY FS_AddElement, FS_CardinalityType
<1>2. Noted(w) \in [Names -> Nat]
  BY <1>1 DEF Noted, StoreTypeOK
<1>3. {v \in Names : Noted(w)[v] # 0} \subseteq Named \cup {w}
  <2>1. ASSUME NEW v \in Names, v # w, used[v] = 0
        PROVE  Noted(w)[v] = 0
    BY <2>1 DEF Noted, StoreTypeOK
  <2>2. QED
    BY <2>1 DEF Named
<1>4. QED
  BY <1>1, <1>2, <1>3, FS_Subset

\* Names that leave keep every place a natural and name none.
LEMMA UnnamedFits ==
    ASSUME StoreTypeOK, IsFiniteSet(Named), NEW gone
    PROVE  /\ Unnamed(gone) \in [Names -> Nat]
           /\ IsFiniteSet({v \in Names : Unnamed(gone)[v] # 0})
<1> DEFINE Before(v) == {used[u] : u \in Names \ gone} \cap (1..used[v])
<1>1. ASSUME NEW v \in Names
      PROVE  IsFiniteSet(Before(v)) /\ Cardinality(Before(v)) \in Nat
  <2>1. IsFiniteSet(1..used[v])
    BY FS_Interval DEF StoreTypeOK
  <2>2. IsFiniteSet(Before(v))
    BY <2>1, FS_Subset
  <2>3. QED
    BY <2>2, FS_CardinalityType
<1>2. Unnamed(gone) \in [Names -> Nat]
  BY <1>1 DEF Unnamed
<1>3. {v \in Names : Unnamed(gone)[v] # 0} \subseteq Named
  <2>1. ASSUME NEW v \in Names, used[v] = 0
        PROVE  Unnamed(gone)[v] = 0
    <3>1. Before(v) = {}
      BY <2>1
    <3>2. Cardinality(Before(v)) = 0
      BY <3>1, FS_EmptySet
    <3>3. QED
      BY <3>2 DEF Unnamed
  <2>2. QED
    BY <2>1 DEF Named
<1>4. QED
  BY <1>2, <1>3, FS_Subset

-----------------------------------------------------------------------------
(* What a step does to the threads: one of them goes on. *)

Turn(t) ==
  /\ thread' \in [Threads -> Calls]
  /\ holds' \in [Threads -> Held]
  /\ \A u \in Threads \ {t} : thread'[u] = thread[u] /\ holds'[u] = holds[u]

LEMMA BecomesTurns ==
    ASSUME LocksTypeOK, NEW t \in Threads, NEW next \in Calls, Becomes(t, next)
    PROVE  /\ thread' \in [Threads -> Calls]
           /\ thread'[t] = next
           /\ \A u \in Threads \ {t} : thread'[u] = thread[u]
BY DEF LocksTypeOK, Becomes

\* The calls a step leaves its thread with: at another place, with the fields
\* it gives a value.
At(r, p) == [r EXCEPT !.pc = p]
Sees(r, p, seen) == [r EXCEPT !.pc = p, !.seen = seen]
Saws(r, p, saw) == [r EXCEPT !.pc = p, !.saw = saw]
Answers(r, p, seen, saw) == [r EXCEPT !.pc = p, !.seen = seen, !.saw = saw]
Laps(r, p, lap, seen) == [r EXCEPT !.pc = p, !.lap = lap, !.seen = seen]
Victim(r, p, w) == [r EXCEPT !.pc = p, !.out = w]
Drops(r, gone) == [r EXCEPT !.dropped = gone]

\* The other threads stay where they are.
OnlyIts(t) ==
  /\ thread' \in [Threads -> Calls]
  /\ \A u \in Threads \ {t} : thread'[u] = thread[u]

LEMMA AtTurns ==
    ASSUME LocksTypeOK, NEW t \in Threads, NEW p \in Steps,
           Becomes(t, At(thread[t], p))
    PROVE  /\ OnlyIts(t)
           /\ thread'[t].pc = p
           /\ thread'[t].op = thread[t].op /\ thread'[t].key = thread[t].key /\ thread'[t].lap = thread[t].lap /\ thread'[t].seen = thread[t].seen
           /\ thread'[t].saw = thread[t].saw /\ thread'[t].out = thread[t].out /\ thread'[t].dropped = thread[t].dropped /\ thread'[t].floor = thread[t].floor
<1> DEFINE was == thread[t]
           me == At(was, p)
<1>1. was \in Calls
  BY DEF LocksTypeOK
<1> HIDE DEF was
<1>2. /\ me \in Calls
      /\ me.pc = p
      /\ me.op = was.op /\ me.key = was.key /\ me.lap = was.lap /\ me.seen = was.seen
      /\ me.saw = was.saw /\ me.out = was.out /\ me.dropped = was.dropped /\ me.floor = was.floor
  BY <1>1 DEF Calls, At
<1>3. Becomes(t, me)
  BY DEF was
<1> HIDE DEF me
<1>4. QED
  BY <1>2, <1>3, BecomesTurns DEF was, OnlyIts

LEMMA SeesTurns ==
    ASSUME LocksTypeOK, NEW t \in Threads, NEW p \in Steps, NEW seen \in Int,
           Becomes(t, Sees(thread[t], p, seen))
    PROVE  /\ OnlyIts(t)
           /\ thread'[t].pc = p /\ thread'[t].seen = seen
           /\ thread'[t].op = thread[t].op /\ thread'[t].key = thread[t].key /\ thread'[t].lap = thread[t].lap /\ thread'[t].saw = thread[t].saw
           /\ thread'[t].out = thread[t].out /\ thread'[t].dropped = thread[t].dropped /\ thread'[t].floor = thread[t].floor
<1> DEFINE was == thread[t]
           me == Sees(was, p, seen)
<1>1. was \in Calls
  BY DEF LocksTypeOK
<1> HIDE DEF was
<1>2. /\ me \in Calls
      /\ me.pc = p /\ me.seen = seen
      /\ me.op = was.op /\ me.key = was.key /\ me.lap = was.lap /\ me.saw = was.saw
      /\ me.out = was.out /\ me.dropped = was.dropped /\ me.floor = was.floor
  BY <1>1 DEF Calls, Sees
<1>3. Becomes(t, me)
  BY DEF was
<1> HIDE DEF me
<1>4. QED
  BY <1>2, <1>3, BecomesTurns DEF was, OnlyIts

LEMMA SawsTurns ==
    ASSUME LocksTypeOK, NEW t \in Threads, NEW p \in Steps, NEW saw \in Int,
           Becomes(t, Saws(thread[t], p, saw))
    PROVE  /\ OnlyIts(t)
           /\ thread'[t].pc = p /\ thread'[t].saw = saw
           /\ thread'[t].op = thread[t].op /\ thread'[t].key = thread[t].key /\ thread'[t].lap = thread[t].lap /\ thread'[t].seen = thread[t].seen
           /\ thread'[t].out = thread[t].out /\ thread'[t].dropped = thread[t].dropped /\ thread'[t].floor = thread[t].floor
<1> DEFINE was == thread[t]
           me == Saws(was, p, saw)
<1>1. was \in Calls
  BY DEF LocksTypeOK
<1> HIDE DEF was
<1>2. /\ me \in Calls
      /\ me.pc = p /\ me.saw = saw
      /\ me.op = was.op /\ me.key = was.key /\ me.lap = was.lap /\ me.seen = was.seen
      /\ me.out = was.out /\ me.dropped = was.dropped /\ me.floor = was.floor
  BY <1>1 DEF Calls, Saws
<1>3. Becomes(t, me)
  BY DEF was
<1> HIDE DEF me
<1>4. QED
  BY <1>2, <1>3, BecomesTurns DEF was, OnlyIts

LEMMA AnswersTurns ==
    ASSUME LocksTypeOK, NEW t \in Threads, NEW p \in Steps, NEW seen \in Int, NEW saw \in Int,
           Becomes(t, Answers(thread[t], p, seen, saw))
    PROVE  /\ OnlyIts(t)
           /\ thread'[t].pc = p /\ thread'[t].seen = seen /\ thread'[t].saw = saw
           /\ thread'[t].op = thread[t].op /\ thread'[t].key = thread[t].key /\ thread'[t].lap = thread[t].lap /\ thread'[t].out = thread[t].out
           /\ thread'[t].dropped = thread[t].dropped /\ thread'[t].floor = thread[t].floor
<1> DEFINE was == thread[t]
           me == Answers(was, p, seen, saw)
<1>1. was \in Calls
  BY DEF LocksTypeOK
<1> HIDE DEF was
<1>2. /\ me \in Calls
      /\ me.pc = p /\ me.seen = seen /\ me.saw = saw
      /\ me.op = was.op /\ me.key = was.key /\ me.lap = was.lap /\ me.out = was.out
      /\ me.dropped = was.dropped /\ me.floor = was.floor
  BY <1>1 DEF Calls, Answers
<1>3. Becomes(t, me)
  BY DEF was
<1> HIDE DEF me
<1>4. QED
  BY <1>2, <1>3, BecomesTurns DEF was, OnlyIts

LEMMA LapsTurns ==
    ASSUME LocksTypeOK, NEW t \in Threads, NEW p \in Steps, NEW lap \in 0..3, NEW seen \in Int,
           Becomes(t, Laps(thread[t], p, lap, seen))
    PROVE  /\ OnlyIts(t)
           /\ thread'[t].pc = p /\ thread'[t].lap = lap /\ thread'[t].seen = seen
           /\ thread'[t].op = thread[t].op /\ thread'[t].key = thread[t].key /\ thread'[t].saw = thread[t].saw /\ thread'[t].out = thread[t].out
           /\ thread'[t].dropped = thread[t].dropped /\ thread'[t].floor = thread[t].floor
<1> DEFINE was == thread[t]
           me == Laps(was, p, lap, seen)
<1>1. was \in Calls
  BY DEF LocksTypeOK
<1> HIDE DEF was
<1>2. /\ me \in Calls
      /\ me.pc = p /\ me.lap = lap /\ me.seen = seen
      /\ me.op = was.op /\ me.key = was.key /\ me.saw = was.saw /\ me.out = was.out
      /\ me.dropped = was.dropped /\ me.floor = was.floor
  BY <1>1 DEF Calls, Laps
<1>3. Becomes(t, me)
  BY DEF was
<1> HIDE DEF me
<1>4. QED
  BY <1>2, <1>3, BecomesTurns DEF was, OnlyIts

LEMMA VictimTurns ==
    ASSUME LocksTypeOK, NEW t \in Threads, NEW p \in Steps, NEW w \in Names \cup {Nobody},
           Becomes(t, Victim(thread[t], p, w))
    PROVE  /\ OnlyIts(t)
           /\ thread'[t].pc = p /\ thread'[t].out = w
           /\ thread'[t].op = thread[t].op /\ thread'[t].key = thread[t].key /\ thread'[t].lap = thread[t].lap /\ thread'[t].seen = thread[t].seen
           /\ thread'[t].saw = thread[t].saw /\ thread'[t].dropped = thread[t].dropped /\ thread'[t].floor = thread[t].floor
<1> DEFINE was == thread[t]
           me == Victim(was, p, w)
<1>1. was \in Calls
  BY DEF LocksTypeOK
<1> HIDE DEF was
<1>2. /\ me \in Calls
      /\ me.pc = p /\ me.out = w
      /\ me.op = was.op /\ me.key = was.key /\ me.lap = was.lap /\ me.seen = was.seen
      /\ me.saw = was.saw /\ me.dropped = was.dropped /\ me.floor = was.floor
  BY <1>1 DEF Calls, Victim
<1>3. Becomes(t, me)
  BY DEF was
<1> HIDE DEF me
<1>4. QED
  BY <1>2, <1>3, BecomesTurns DEF was, OnlyIts

LEMMA DropsTurns ==
    ASSUME LocksTypeOK, NEW t \in Threads, NEW gone \in SUBSET Names,
           Becomes(t, Drops(thread[t], gone))
    PROVE  /\ OnlyIts(t)
           /\ thread'[t].dropped = gone
           /\ thread'[t].pc = thread[t].pc /\ thread'[t].op = thread[t].op /\ thread'[t].key = thread[t].key /\ thread'[t].lap = thread[t].lap
           /\ thread'[t].seen = thread[t].seen /\ thread'[t].saw = thread[t].saw /\ thread'[t].out = thread[t].out /\ thread'[t].floor = thread[t].floor
<1> DEFINE was == thread[t]
           me == Drops(was, gone)
<1>1. was \in Calls
  BY DEF LocksTypeOK
<1> HIDE DEF was
<1>2. /\ me \in Calls
      /\ me.dropped = gone
      /\ me.pc = was.pc /\ me.op = was.op /\ me.key = was.key /\ me.lap = was.lap
      /\ me.seen = was.seen /\ me.saw = was.saw /\ me.out = was.out /\ me.floor = was.floor
  BY <1>1 DEF Calls, Drops
<1>3. Becomes(t, me)
  BY DEF was
<1> HIDE DEF me
<1>4. QED
  BY <1>2, <1>3, BecomesTurns DEF was, OnlyIts

LEMMA RestingOK ==
    /\ Resting \in Calls
    /\ Resting.pc = "idle" /\ Resting.op = "none" /\ Resting.key = Nobody /\ Resting.lap = 0
    /\ Resting.seen = 0 /\ Resting.saw = 0 /\ Resting.out = Nobody /\ Resting.dropped = {} /\ Resting.floor = 0
BY DEF Resting, Calls, Steps

LEMMA EndsTurns ==
    ASSUME LocksTypeOK, NEW t \in Threads, Ends(t)
    PROVE  OnlyIts(t) /\ thread'[t] = Resting
BY RestingOK DEF LocksTypeOK, Ends, OnlyIts

LEMMA KeepsTurns ==
    ASSUME LocksTypeOK, NEW t \in Threads, Keeps(t), Wants(thread[t].pc) \in Locks \X {"r", "w"}
    PROVE  /\ holds' \in [Threads -> Held]
           /\ holds'[t] = holds[t] \cup {Wants(thread[t].pc)}
           /\ \A u \in Threads \ {t} : holds'[u] = holds[u]
BY DEF LocksTypeOK, Keeps, Held

LEMMA LetsGoTurns ==
    ASSUME LocksTypeOK, NEW t \in Threads, NEW locks, LetsGo(t, locks)
    PROVE  /\ holds' \in [Threads -> Held]
           /\ holds'[t] = {h \in holds[t] : h[1] \notin locks}
           /\ \A u \in Threads \ {t} : holds'[u] = holds[u]
BY DEF LocksTypeOK, LetsGo, Held

-----------------------------------------------------------------------------
(* The invariant, from what a step does to its own thread and to the store. *)

\* A thread that has `writes` either had it or found it free.
LEMMA WriterStaysOne ==
    ASSUME LocksTypeOK, HeldOK, NEW t \in Threads, Turn(t), LockOK(thread'[t], holds'[t]),
           \/ <<"writes", "w">> \in holds'[t] => <<"writes", "w">> \in holds[t]
           \/ \A u \in Threads : <<"writes", "w">> \notin holds[u]
    PROVE  HeldOK'
<1>1. ASSUME NEW u \in Threads
      PROVE  LockOK(thread'[u], holds'[u])
  <2>1. CASE u = t
    BY <2>1
  <2>2. CASE u # t
    BY <2>2 DEF Turn, HeldOK
  <2>3. QED
    BY <2>1, <2>2
<1>2. OneWriter'
  BY DEF Turn, OneWriter, HeldOK
<1>3. QED
  BY <1>1, <1>2 DEF HeldOK

\* A cache that only shrinks, or whose filler evicts, keeps its cap.
Kept(some, S, T, t) ==
  /\ IsFiniteSet(T)
  /\ \/ thread'[t].pc \in some
     \/ Small(T)
     \/ T \subseteq S /\ thread[t].pc \notin some

LEMMA KeptCapped ==
    ASSUME NEW t \in Threads, Turn(t), NEW some, NEW S, NEW T, Kept(some, S, T, t), IsFiniteSet(S),
           NoneAt(some) => Small(S), NoneAt(some)'
    PROVE  Small(T)
<1>1. thread'[t].pc \notin some /\ \A u \in Threads \ {t} : thread[u].pc \notin some
  BY DEF NoneAt, Turn
<1>2. CASE T \subseteq S /\ thread[t].pc \notin some
  BY <1>1, <1>2, FewerSmall DEF NoneAt
<1>3. QED
  BY <1>1, <1>2 DEF Kept

LEMMA CapKept ==
    ASSUME CapOK, NEW t \in Threads, Turn(t),
           Kept(Evicting, CachedIn(parsed), CachedIn(parsed'), t),
           Kept({"evict_terms"}, CachedIn(indexed), CachedIn(indexed'), t),
           Kept({"evict_counts"}, Counted, Counted', t)
    PROVE  CapOK'
<1>1. Finite'
  BY DEF Finite, Kept, CachedIn, Counted
<1>2. NoneAt(Evicting)' => Small(CachedIn(parsed'))
  BY KeptCapped DEF CapOK, Finite
<1>3. NoneAt({"evict_terms"})' => Small(CachedIn(indexed'))
  BY KeptCapped DEF CapOK, Finite
<1>4. NoneAt({"evict_counts"})' => Small(Counted')
  BY KeptCapped DEF CapOK, Finite
<1>5. QED
  BY <1>1, <1>2, <1>3, <1>4 DEF CapOK, CachedIn, Counted

LEMMA CountsKept ==
    ASSUME LocksTypeOK, CountsOK, StoreTypeOK', NEW t \in Threads, Turn(t),
           stamp' >= stamp, commits' >= commits, commits' >= stamp', EntriesOK',
           CountOK(thread'[t], stamp', commits'),
           stamp' = stamp \/ \A u \in Threads \ {t} : thread[u].pc # "bump"
    PROVE  CountsOK'
<1>1. ASSUME NEW u \in Threads
      PROVE  CountOK(thread'[u], stamp', commits')
  <2>1. CASE u = t
    BY <2>1
  <2>2. CASE u # t
    <3>1. thread'[u] = thread[u] /\ CountOK(thread[u], stamp, commits)
      BY <2>2 DEF Turn, CountsOK
    <3>2. thread[u].floor \in Nat /\ thread[u].seen \in Int
      BY DEF LocksTypeOK, Calls
    <3>3. /\ stamp \in Nat /\ commits \in Nat /\ stamp' \in Nat /\ commits' \in Nat
      BY DEF LocksTypeOK, StoreTypeOK
    <3>4. CountOK(thread[u], stamp', commits')
      BY <2>2, <3>1, <3>2, <3>3 DEF CountOK
    <3>5. QED
      BY <3>1, <3>4
  <2>3. QED
    BY <2>1, <2>2
<1>2. QED
  BY <1>1 DEF CountsOK

\* What is left to show of a step: its thread, its locks, and the store.
LEMMA StepKeeps ==
    ASSUME LocksIInv, NEW t \in Threads, Turn(t), StoreTypeOK', IsFiniteSet(Named)',
           CallOK(thread'[t]), LockOK(thread'[t], holds'[t]),
           \/ <<"writes", "w">> \in holds'[t] => <<"writes", "w">> \in holds[t]
           \/ \A u \in Threads : <<"writes", "w">> \notin holds[u],
           CountsOK', CapOK'
    PROVE  LocksIInv'
<1>1. HeldOK'
  BY WriterStaysOne DEF LocksIInv
<1>2. \A u \in Threads : CallOK(thread'[u])
  BY DEF LocksIInv, Turn
<1>3. LocksTypeOK'
  BY DEF LocksTypeOK, Turn
<1>4. QED
  BY <1>1, <1>2, <1>3 DEF LocksIInv

\* A step that leaves the store alone and no eviction.
LEMMA QuietKeeps ==
    ASSUME LocksIInv, NEW t \in Threads, Turn(t),
           UNCHANGED <<commits, stamp, parsed, indexed, counts>>,
           used' \in [Names -> Nat], IsFiniteSet(Named)',
           CallOK(thread'[t]), LockOK(thread'[t], holds'[t]), CountOK(thread'[t], stamp, commits),
           \/ <<"writes", "w">> \in holds'[t] => <<"writes", "w">> \in holds[t]
           \/ \A u \in Threads : <<"writes", "w">> \notin holds[u],
           thread[t].pc \notin Evicting \cup {"evict_terms", "evict_counts"}
    PROVE  LocksIInv'
<1>1. StoreTypeOK'
  BY DEF LocksIInv, LocksTypeOK, StoreTypeOK
<1>2. CountsOK'
  <2>1. EntriesOK' /\ stamp' >= stamp /\ commits' >= commits /\ commits' >= stamp'
    BY <1>1 DEF LocksIInv, CountsOK, EntriesOK, StoreTypeOK
  <2>2. QED
    BY <1>1, <2>1, CountsKept DEF LocksIInv
<1>3. CapOK'
  <2>1. Counted' = Counted
    BY DEF Counted
  <2>2. /\ Kept(Evicting, CachedIn(parsed), CachedIn(parsed'), t)
        /\ Kept({"evict_terms"}, CachedIn(indexed), CachedIn(indexed'), t)
        /\ Kept({"evict_counts"}, Counted, Counted', t)
    BY <2>1 DEF Kept, LocksIInv, CapOK, Finite
  <2>3. QED
    BY <2>2, CapKept DEF LocksIInv
<1>4. QED
  BY <1>1, <1>2, <1>3, StepKeeps

-----------------------------------------------------------------------------
(* The steps that leave the caches alone. *)

\* What the invariant says of one thread.
LEMMA Here ==
    ASSUME LocksIInv, NEW t \in Threads
    PROVE  /\ LocksTypeOK /\ StoreTypeOK
           /\ thread[t] \in Calls /\ holds[t] \in Held /\ holds \in [Threads -> Held]
           /\ CallOK(thread[t]) /\ LockOK(thread[t], holds[t]) /\ CountOK(thread[t], stamp, commits)
           /\ commits >= stamp /\ stamp \in Nat /\ commits \in Nat
BY DEF LocksIInv, LocksTypeOK, StoreTypeOK, HeldOK, CountsOK

\* The use clock is not looked at.
LEMMA ClockStays ==
    ASSUME LocksIInv, UNCHANGED used
    PROVE  used' \in [Names -> Nat] /\ IsFiniteSet(Named)'
<1>1. Named' = Named
  BY DEF Named
<1>2. QED
  BY <1>1 DEF LocksIInv, LocksTypeOK, StoreTypeOK

LEMMA ClockNotes ==
    ASSUME LocksIInv, NEW w \in Names, used' = Noted(w)
    PROVE  used' \in [Names -> Nat] /\ IsFiniteSet(Named)'
<1>1. Named' = {v \in Names : Noted(w)[v] # 0}
  BY DEF Named
<1>2. QED
  BY <1>1, NotedFits DEF LocksIInv, LocksTypeOK

LEMMA ClockForgets ==
    ASSUME LocksIInv, NEW gone, used' = Unnamed(gone)
    PROVE  used' \in [Names -> Nat] /\ IsFiniteSet(Named)'
<1>1. Named' = {v \in Names : Unnamed(gone)[v] # 0}
  BY DEF Named
<1>2. QED
  BY <1>1, UnnamedFits DEF LocksIInv, LocksTypeOK

\* A new call is a call.
LEMMA AskedOK ==
    ASSUME LocksIInv, NEW op \in {"status", "read", "search", "write", "forget"}, NEW key \in Names
    PROVE  /\ Asked(op, key) \in Calls
           /\ CallOK(Asked(op, key)) /\ LockOK(Asked(op, key), {}) /\ CountOK(Asked(op, key), stamp, commits)
<1> DEFINE p == FirstStep(op)
           lap == IF op = "search" THEN 1 ELSE 0
           seen == IF op \in {"write", "forget"} THEN 0 ELSE stamp
           floor == IF op = "status" THEN stamp ELSE 0
           none == Resting
           me == [none EXCEPT !.pc = p, !.op = op, !.key = key, !.lap = lap, !.seen = seen, !.floor = floor]
<1>1. /\ p \in {"counts_cached", "live_cached", "write"} /\ lap \in 0..1 /\ seen \in Nat /\ floor \in Nat
      /\ op = "read" => lap = 0
      /\ p = "live_cached" => op \in {"read", "search"}
      /\ floor <= stamp /\ (p = "counts_cached" => floor <= seen)
  <2>1. stamp \in Nat
    BY DEF LocksIInv, LocksTypeOK, StoreTypeOK
  <2>2. QED
    BY <2>1 DEF FirstStep
<1>2. Asked(op, key) = me
  BY DEF Asked
<1>3. p \in Steps
  BY <1>1 DEF Steps, Counting, Looking
<1>4. /\ none \in Calls /\ lap \in 0..3 /\ seen \in Int /\ floor \in Nat
      /\ op \in {"none", "status", "read", "search", "write", "forget"}
  BY <1>1, RestingOK
<1> HIDE DEF p, lap, seen, floor, none
<1>5. /\ me \in Calls /\ me.pc = p /\ me.op = op /\ me.key = key /\ me.lap = lap /\ me.seen = seen
      /\ me.floor = floor
  BY <1>3, <1>4 DEF Calls
<1> HIDE DEF me
<1>6. CallOK(me) /\ LockOK(me, {}) /\ CountOK(me, stamp, commits)
  BY <1>1, <1>5 DEF CallOK, LockOK, CountOK, Looking, Indexing, Evicting, Writing, Clearing
<1>7. QED
  BY <1>2, <1>5, <1>6

LEMMA AskKeeps ==
    ASSUME LocksIInv, NEW t \in Threads, Ask(t)
    PROVE  LocksIInv'
<1>1. PICK op \in {"status", "read", "search", "write", "forget"}, key \in Names : Becomes(t, Asked(op, key))
  BY DEF Ask
<1>2. holds[t] = {}
  BY Here, MayAt DEF LockOK, Ask
<1>3. Turn(t) /\ thread'[t] = Asked(op, key) /\ holds'[t] = holds[t]
  BY <1>1, AskedOK, Here, BecomesTurns DEF Turn, Ask
<1>4. thread[t].pc \notin Evicting \cup {"evict_terms", "evict_counts"}
  BY DEF Ask, Evicting
<1>5. QED
  BY <1>1, <1>2, <1>3, <1>4, AskedOK, ClockStays, QuietKeeps DEF Ask

\* A call that is over is one.
LEMMA RestsOK ==
    ASSUME LocksIInv
    PROVE  CallOK(Resting) /\ LockOK(Resting, {}) /\ CountOK(Resting, stamp, commits)
BY RestingOK DEF CallOK, LockOK, CountOK, Looking, Indexing, Evicting, Writing, Clearing, LocksIInv, LocksTypeOK, StoreTypeOK

\* The places a call goes through are steps.
LEMMA StepsAre ==
    {"idle", "write", "commit", "bump", "patch", "forget_live", "forget_terms", "forget_counts", "forget_used",
     "counts_cached", "counts_build", "counts_seen", "counts_scan", "counts_insert", "evict_counts", "drop_live",
     "drop_terms", "counts_out", "live_load", "live_cached", "live_check", "live_insert", "evict_cached",
     "evict_terms_of", "evict_counts_of", "terms_cached", "terms_build", "terms_take", "terms_insert",
     "evict_terms"} \subseteq Steps
BY DEF Steps, Counting, Looking, Evicting, Indexing, Writing, Clearing

LEMMA CountsCachedKeeps ==
    ASSUME LocksIInv, NEW t \in Threads, CountsCached(t)
    PROVE  LocksIInv'
<1> DEFINE was == thread[t]
           saw == counts[was.key].saw
           next == IF <<"counts_build", "w">> \in holds[t] THEN "counts_seen" ELSE "counts_build"
<1>1. /\ was \in Calls /\ was.pc = "counts_cached" /\ was.key \in Names /\ was.floor \in Nat
      /\ was.floor <= was.seen /\ was.seen \in Int /\ was.floor <= stamp
      /\ was.op = "read" => was.lap = 0
  BY Here DEF CountsCached, Ready, CallOK, CountOK, Calls
<1>2. saw >= counts[was.key].at /\ saw \in Int /\ counts[was.key].at \in Int
  BY <1>1 DEF LocksIInv, LocksTypeOK, StoreTypeOK, CountsOK, EntriesOK, Entries
<1>3. \/ counts[was.key].at = was.seen /\ Becomes(t, Answers(was, "counts_out", 0, saw))
      \/ Becomes(t, Sees(was, next, 0))
  BY DEF CountsCached, Answers, Sees
<1>4. UNCHANGED <<commits, stamp, parsed, indexed, counts, used, holds>>
  BY DEF CountsCached
<1>5. holds[t] \subseteq {<<"counts_build", "w">>} /\ (was.lap <= 1 => <<"terms_build", "w">> \notin holds[t])
  BY <1>1, Here, MayAt DEF LockOK
<1>6. next \in {"counts_seen", "counts_build"} /\ (next = "counts_build" => holds[t] = {})
  BY <1>5
<1>7. was.pc \notin Evicting \cup {"evict_terms", "evict_counts"}
  BY <1>1 DEF Evicting
<1>8. next \in Steps /\ "counts_out" \in Steps /\ 0 \in Int
  BY <1>6, StepsAre
<1> HIDE DEF next, saw
<1>9. /\ OnlyIts(t) /\ thread'[t].op = was.op /\ thread'[t].key = was.key /\ thread'[t].lap = was.lap
      /\ thread'[t].floor = was.floor
      /\ \/ thread'[t].pc = "counts_out" /\ thread'[t].saw = saw /\ counts[was.key].at = was.seen
         \/ thread'[t].pc = next
  BY <1>2, <1>3, <1>8, Here, AnswersTurns, SeesTurns
<1>10. Turn(t)
  BY <1>4, <1>9, Here DEF Turn, OnlyIts
<1>11. CallOK(thread'[t]) /\ CountOK(thread'[t], stamp, commits)
  BY <1>1, <1>2, <1>6, <1>9 DEF CallOK, CountOK, Indexing, Looking, Evicting
<1>12. LockOK(thread'[t], holds'[t])
  BY <1>4, <1>5, <1>6, <1>9, MayAt DEF LockOK, Writing, Clearing
<1>13. QED
  BY <1>4, <1>7, <1>10, <1>11, <1>12, ClockStays, QuietKeeps

LEMMA CountsBuildKeeps ==
    ASSUME LocksIInv, NEW t \in Threads, CountsBuild(t)
    PROVE  LocksIInv'
<1>1. thread[t].pc = "counts_build" /\ Becomes(t, Sees(thread[t], "counts_cached", stamp)) /\ Keeps(t)
  BY DEF CountsBuild, Ready, Sees
<1>2. OnlyIts(t) /\ thread'[t].pc = "counts_cached" /\ thread'[t].seen = stamp /\ thread'[t].op = thread[t].op
      /\ thread'[t].key = thread[t].key /\ thread'[t].lap = thread[t].lap /\ thread'[t].floor = thread[t].floor
  BY <1>1, Here, StepsAre, SeesTurns
<1>3. holds[t] = {} /\ Wants(thread[t].pc) = <<"counts_build", "w">>
  BY <1>1, Here, MayAt, WantsAt DEF LockOK
<1>4. holds' \in [Threads -> Held] /\ holds'[t] = {<<"counts_build", "w">>}
      /\ \A u \in Threads \ {t} : holds'[u] = holds[u]
  BY <1>1, <1>3, Here, KeepsTurns DEF Locks
<1>5. Turn(t)
  BY <1>2, <1>4 DEF Turn, OnlyIts
<1>6. CallOK(thread'[t]) /\ CountOK(thread'[t], stamp, commits)
  BY <1>1, <1>2, Here DEF CallOK, CountOK, Indexing, Looking, Evicting
<1>7. LockOK(thread'[t], holds'[t])
  BY <1>2, <1>4, MayAt DEF LockOK, Writing, Clearing
<1>8. QED
  BY <1>1, <1>4, <1>5, <1>6, <1>7, ClockStays, QuietKeeps DEF CountsBuild, Evicting

LEMMA CountsSeenKeeps ==
    ASSUME LocksIInv, NEW t \in Threads, CountsSeen(t)
    PROVE  LocksIInv'
<1>1. thread[t].pc = "counts_seen" /\ Becomes(t, Sees(thread[t], "counts_scan", stamp)) /\ holds' = holds
  BY DEF CountsSeen, Ready, Sees
<1>2. OnlyIts(t) /\ thread'[t].pc = "counts_scan" /\ thread'[t].seen = stamp /\ thread'[t].op = thread[t].op
      /\ thread'[t].key = thread[t].key /\ thread'[t].lap = thread[t].lap /\ thread'[t].floor = thread[t].floor
  BY <1>1, Here, StepsAre, SeesTurns
<1>3. Turn(t)
  BY <1>1, <1>2, Here DEF Turn, OnlyIts
<1>4. CallOK(thread'[t]) /\ CountOK(thread'[t], stamp, commits)
  BY <1>1, <1>2, Here DEF CallOK, CountOK, Indexing, Looking, Evicting
<1>5. LockOK(thread'[t], holds'[t])
  BY <1>1, <1>2, Here, MayAt DEF LockOK, Writing, Clearing
<1>6. QED
  BY <1>1, <1>3, <1>4, <1>5, ClockStays, QuietKeeps DEF CountsSeen, Evicting

LEMMA CountsScanKeeps ==
    ASSUME LocksIInv, NEW t \in Threads, CountsScan(t)
    PROVE  LocksIInv'
<1>1. thread[t].pc = "counts_scan" /\ Becomes(t, Saws(thread[t], "counts_insert", commits)) /\ holds' = holds
  BY DEF CountsScan, Ready, Saws
<1>2. OnlyIts(t) /\ thread'[t].pc = "counts_insert" /\ thread'[t].saw = commits /\ thread'[t].op = thread[t].op
      /\ thread'[t].key = thread[t].key /\ thread'[t].lap = thread[t].lap /\ thread'[t].floor = thread[t].floor
      /\ thread'[t].seen = thread[t].seen
  BY <1>1, Here, StepsAre, SawsTurns
<1>3. Turn(t)
  BY <1>1, <1>2, Here DEF Turn, OnlyIts
<1>4. CallOK(thread'[t])
  BY <1>1, <1>2, Here DEF CallOK, Indexing, Looking, Evicting
<1>5. CountOK(thread'[t], stamp, commits)
  <2>1. thread[t].seen \in Int /\ thread[t].seen <= stamp /\ stamp <= commits /\ stamp \in Nat /\ commits \in Nat
    BY <1>1, Here DEF CountOK, Calls
  <2>2. QED
    BY <1>1, <1>2, <2>1, Here DEF CountOK
<1>6. LockOK(thread'[t], holds'[t])
  BY <1>1, <1>2, Here, MayAt DEF LockOK, Writing, Clearing
<1>7. QED
  BY <1>1, <1>3, <1>4, <1>5, <1>6, ClockStays, QuietKeeps DEF CountsScan, Evicting

LEMMA DropLiveLockKeeps ==
    ASSUME LocksIInv, NEW t \in Threads, DropLiveLock(t)
    PROVE  LocksIInv'
<1>1. thread[t].pc = "drop_live" /\ Becomes(t, At(thread[t], "drop_terms")) /\ Keeps(t)
  BY DEF DropLiveLock, Ready, Goto, At
<1>2. OnlyIts(t) /\ thread'[t].pc = "drop_terms" /\ thread'[t].op = thread[t].op /\ thread'[t].saw = thread[t].saw
      /\ thread'[t].key = thread[t].key /\ thread'[t].lap = thread[t].lap /\ thread'[t].floor = thread[t].floor
  BY <1>1, Here, StepsAre, AtTurns
<1>3. holds[t] \subseteq {<<"counts_build", "w">>} /\ Wants(thread[t].pc) = <<"live", "r">>
  BY <1>1, Here, MayAt, WantsAt DEF LockOK
<1>4. holds' \in [Threads -> Held] /\ holds'[t] = holds[t] \cup {<<"live", "r">>}
      /\ \A u \in Threads \ {t} : holds'[u] = holds[u]
  BY <1>1, <1>3, Here, KeepsTurns DEF Locks
<1>5. Turn(t)
  BY <1>2, <1>4 DEF Turn, OnlyIts
<1>6. CallOK(thread'[t]) /\ CountOK(thread'[t], stamp, commits)
  BY <1>1, <1>2, Here DEF CallOK, CountOK, Indexing, Looking, Evicting
<1>7. LockOK(thread'[t], holds'[t])
  BY <1>2, <1>3, <1>4, MayAt DEF LockOK, Writing, Clearing
<1>8. QED
  BY <1>1, <1>3, <1>4, <1>5, <1>6, <1>7, ClockStays, QuietKeeps DEF DropLiveLock, Evicting

LEMMA DropCountOnlyKeeps ==
    ASSUME LocksIInv, NEW t \in Threads, DropCountOnly(t)
    PROVE  LocksIInv'
<1> DEFINE gone == thread[t].dropped \ (CachedIn(parsed) \cup CachedIn(indexed))
<1>1. thread[t].pc = "drop_terms" /\ Becomes(t, At(thread[t], "counts_out")) /\ LetsGo(t, {"live"})
      /\ used' = Unnamed(gone)
  BY DEF DropCountOnly, Ready, Goto, At
<1>2. OnlyIts(t) /\ thread'[t].pc = "counts_out" /\ thread'[t].op = thread[t].op /\ thread'[t].saw = thread[t].saw
      /\ thread'[t].key = thread[t].key /\ thread'[t].lap = thread[t].lap /\ thread'[t].floor = thread[t].floor
  BY <1>1, Here, StepsAre, AtTurns
<1>3. holds[t] \subseteq {<<"counts_build", "w">>, <<"live", "r">>}
  BY <1>1, Here, MayAt DEF LockOK
<1>4. holds' \in [Threads -> Held] /\ holds'[t] \subseteq {<<"counts_build", "w">>}
      /\ \A u \in Threads \ {t} : holds'[u] = holds[u]
  BY <1>1, <1>3, Here, LetsGoTurns
<1>5. Turn(t)
  BY <1>2, <1>4 DEF Turn, OnlyIts
<1>6. CallOK(thread'[t]) /\ CountOK(thread'[t], stamp, commits)
  BY <1>1, <1>2, Here DEF CallOK, CountOK, Indexing, Looking, Evicting
<1>7. LockOK(thread'[t], holds'[t])
  BY <1>2, <1>4, MayAt DEF LockOK, Writing, Clearing
<1> HIDE DEF gone
<1>8. used' \in [Names -> Nat] /\ IsFiniteSet(Named)'
  BY <1>1, ClockForgets
<1>9. QED
  BY <1>1, <1>4, <1>5, <1>6, <1>7, <1>8, QuietKeeps DEF DropCountOnly, Evicting

LEMMA CountsOutKeeps ==
    ASSUME LocksIInv, NEW t \in Threads, CountsOut(t)
    PROVE  LocksIInv'
<1>1. thread[t].pc = "counts_out" /\ Ends(t) /\ LetsGo(t, {"counts", "counts_build"})
  BY DEF CountsOut, Ready
<1>2. OnlyIts(t) /\ thread'[t] = Resting
  BY <1>1, Here, EndsTurns
<1>3. holds[t] \subseteq {<<"counts_build", "w">>}
  BY <1>1, Here, MayAt DEF LockOK
<1>4. holds' \in [Threads -> Held] /\ holds'[t] = {}
      /\ \A u \in Threads \ {t} : holds'[u] = holds[u]
  BY <1>1, <1>3, Here, LetsGoTurns
<1>5. Turn(t)
  BY <1>2, <1>4 DEF Turn, OnlyIts
<1>6. CallOK(Resting) /\ CountOK(Resting, stamp, commits) /\ LockOK(Resting, {})
  BY RestsOK
<1>7. QED
  BY <1>1, <1>2, <1>4, <1>5, <1>6, ClockStays, QuietKeeps DEF CountsOut, Evicting

\* With the live set in hand a read is over, and a search goes on.
LEMMA OnwardTurns ==
    ASSUME LocksIInv, NEW t \in Threads, thread[t].pc \in Looking \cup Evicting, Onward(t),
           NEW held \in SUBSET {<<"terms_build", "w">>}, held \subseteq holds[t]
    PROVE  OnlyIts(t) /\ CallOK(thread'[t]) /\ LockOK(thread'[t], held) /\ CountOK(thread'[t], stamp, commits)
<1>1. thread[t].op \in {"read", "search"} /\ thread[t].key \in Names
  BY Here DEF CallOK, Looking, Evicting
<1>2. thread[t].lap <= 1 => held = {}
  BY Here DEF LockOK
<1>3. CASE thread[t].op = "read"
  <2>1. thread[t].lap = 0
    BY <1>3, Here DEF CallOK
  <2>2. Ends(t)
    BY <1>3, <2>1 DEF Onward
  <2>3. QED
    BY <1>2, <2>1, <2>2, EndsTurns, RestsOK, Here
<1>4. CASE thread[t].op = "search"
  <2>1. Becomes(t, At(thread[t], "terms_take")) \/ Becomes(t, At(thread[t], "terms_cached"))
    BY <1>4 DEF Onward, Goto, At
  <2>2. /\ OnlyIts(t) /\ thread'[t].pc \in {"terms_take", "terms_cached"} /\ thread'[t].op = thread[t].op
        /\ thread'[t].key = thread[t].key /\ thread'[t].lap = thread[t].lap /\ thread'[t].floor = thread[t].floor
    BY <2>1, Here, StepsAre, AtTurns
  <2>3. CallOK(thread'[t]) /\ CountOK(thread'[t], stamp, commits)
    BY <1>1, <1>4, <2>2, Here DEF CallOK, CountOK, Looking, Evicting
  <2>4. LockOK(thread'[t], held)
    BY <1>2, <2>2, MayAt DEF LockOK, Writing, Clearing
  <2>5. QED
    BY <2>2, <2>3, <2>4
<1>5. QED
  BY <1>1, <1>3, <1>4

LEMMA LiveLoadKeeps ==
    ASSUME LocksIInv, NEW t \in Threads, LiveLoad(t)
    PROVE  LocksIInv'
<1>1. thread[t].pc = "live_load" /\ Becomes(t, Sees(thread[t], "live_cached", stamp)) /\ holds' = holds
  BY DEF LiveLoad, Ready, Sees
<1>2. OnlyIts(t) /\ thread'[t].pc = "live_cached" /\ thread'[t].op = thread[t].op
      /\ thread'[t].key = thread[t].key /\ thread'[t].lap = thread[t].lap /\ thread'[t].floor = thread[t].floor
  BY <1>1, Here, StepsAre, SeesTurns
<1>3. Turn(t)
  BY <1>1, <1>2, Here DEF Turn, OnlyIts
<1>4. CallOK(thread'[t]) /\ CountOK(thread'[t], stamp, commits)
  BY <1>1, <1>2, Here DEF CallOK, CountOK, Indexing, Looking, Evicting
<1>5. LockOK(thread'[t], holds'[t])
  BY <1>1, <1>2, Here, MayAt DEF LockOK, Writing, Clearing
<1>6. QED
  BY <1>1, <1>3, <1>4, <1>5, ClockStays, QuietKeeps DEF LiveLoad, Evicting

LEMMA LiveCachedKeeps ==
    ASSUME LocksIInv, NEW t \in Threads, LiveCached(t)
    PROVE  LocksIInv'
<1>1. thread[t].pc = "live_cached" /\ holds' = holds /\ thread[t].key \in Names
      /\ thread[t].pc \in Looking /\ thread[t].pc \notin Evicting \cup {"evict_terms", "evict_counts"}
  BY Here DEF LiveCached, Ready, Looking, Evicting, CallOK
<1>2. holds[t] \in SUBSET {<<"terms_build", "w">>}
  BY <1>1, Here, MayAt DEF LockOK
<1>3. CASE used' = Noted(thread[t].key) /\ Onward(t)
  <2>1. OnlyIts(t) /\ CallOK(thread'[t]) /\ LockOK(thread'[t], holds'[t]) /\ CountOK(thread'[t], stamp, commits)
    BY <1>1, <1>2, <1>3, OnwardTurns
  <2>2. Turn(t)
    BY <1>1, <2>1, Here DEF Turn, OnlyIts
  <2>3. used' \in [Names -> Nat] /\ IsFiniteSet(Named)'
    BY <1>1, <1>3, ClockNotes
  <2>4. QED
    BY <1>1, <2>1, <2>2, <2>3, QuietKeeps DEF LiveCached
<1>4. CASE used' = used /\ Becomes(t, At(thread[t], "live_check"))
  <2>1. OnlyIts(t) /\ thread'[t].pc = "live_check" /\ thread'[t].op = thread[t].op
        /\ thread'[t].key = thread[t].key /\ thread'[t].lap = thread[t].lap /\ thread'[t].floor = thread[t].floor
    BY <1>4, Here, StepsAre, AtTurns
  <2>2. Turn(t)
    BY <1>1, <2>1, Here DEF Turn, OnlyIts
  <2>3. CallOK(thread'[t]) /\ CountOK(thread'[t], stamp, commits)
    BY <1>1, <2>1, Here DEF CallOK, CountOK, Indexing, Looking, Evicting
  <2>4. LockOK(thread'[t], holds'[t])
    BY <1>1, <1>2, <2>1, Here, MayAt DEF LockOK, Writing, Clearing
  <2>5. QED
    BY <1>1, <1>4, <2>2, <2>3, <2>4, ClockStays, QuietKeeps DEF LiveCached
<1>5. QED
  BY <1>3, <1>4 DEF LiveCached, Goto, At

LEMMA LiveCheckKeeps ==
    ASSUME LocksIInv, NEW t \in Threads, LiveCheck(t)
    PROVE  LocksIInv'
<1>1. thread[t].pc = "live_check" /\ holds' = holds /\ thread[t].key \in Names
      /\ thread[t].pc \in Looking /\ thread[t].pc \notin Evicting \cup {"evict_terms", "evict_counts"}
  BY Here DEF LiveCheck, Ready, Looking, Evicting, CallOK
<1>2. holds[t] \in SUBSET {<<"terms_build", "w">>}
  BY <1>1, Here, MayAt DEF LockOK
<1>3. OnlyIts(t) /\ CallOK(thread'[t]) /\ LockOK(thread'[t], holds'[t]) /\ CountOK(thread'[t], stamp, commits)
  <2>1. CASE Onward(t)
    BY <1>1, <1>2, <2>1, OnwardTurns
  <2>2. CASE Becomes(t, At(thread[t], "live_insert"))
    <3>1. OnlyIts(t) /\ thread'[t].pc = "live_insert" /\ thread'[t].op = thread[t].op
          /\ thread'[t].key = thread[t].key /\ thread'[t].lap = thread[t].lap /\ thread'[t].floor = thread[t].floor
      BY <2>2, Here, StepsAre, AtTurns
    <3>2. CallOK(thread'[t]) /\ CountOK(thread'[t], stamp, commits)
      BY <1>1, <3>1, Here DEF CallOK, CountOK, Indexing, Looking, Evicting
    <3>3. LockOK(thread'[t], holds'[t])
      BY <1>1, <1>2, <3>1, Here, MayAt DEF LockOK, Writing, Clearing
    <3>4. QED
      BY <3>1, <3>2, <3>3
  <2>3. QED
    BY <2>1, <2>2 DEF LiveCheck, Goto, At
<1>4. Turn(t)
  BY <1>1, <1>3, Here DEF Turn, OnlyIts
<1>5. QED
  BY <1>1, <1>3, <1>4, ClockStays, QuietKeeps DEF LiveCheck

LEMMA TermsCachedKeeps ==
    ASSUME LocksIInv, NEW t \in Threads, TermsCached(t)
    PROVE  LocksIInv'
<1> DEFINE next == IF thread[t].lap = 1 THEN "terms_build" ELSE "live_load"
<1>1. thread[t].pc = "terms_cached" /\ thread[t].key \in Names /\ thread[t].op = "search"
      /\ thread[t].pc \notin Evicting \cup {"evict_terms", "evict_counts"}
  BY Here DEF TermsCached, Ready, Indexing, Evicting, CallOK
<1>2. holds[t] \in SUBSET {<<"terms_build", "w">>} /\ (thread[t].lap <= 1 => holds[t] = {})
  BY <1>1, Here, MayAt DEF LockOK
<1>3. CASE Ends(t) /\ LetsGo(t, {"terms_build"})
  <2>1. OnlyIts(t) /\ thread'[t] = Resting
    BY <1>3, Here, EndsTurns
  <2>2. holds' \in [Threads -> Held] /\ holds'[t] = {} /\ \A u \in Threads \ {t} : holds'[u] = holds[u]
    BY <1>2, <1>3, Here, LetsGoTurns
  <2>3. Turn(t)
    BY <2>1, <2>2 DEF Turn, OnlyIts
  <2>4. QED
    BY <1>1, <2>1, <2>2, <2>3, RestsOK, ClockStays, QuietKeeps DEF TermsCached
<1>4. CASE holds' = holds /\ Becomes(t, Laps(thread[t], next, 3, 0))
  <2>1. next \in {"terms_build", "live_load"} /\ (next = "terms_build" => holds[t] = {}) /\ next \in Steps
    BY <1>2, StepsAre
  <2> HIDE DEF next
  <2>2. OnlyIts(t) /\ thread'[t].pc = next /\ thread'[t].op = thread[t].op
        /\ thread'[t].key = thread[t].key /\ thread'[t].lap = 3 /\ thread'[t].floor = thread[t].floor
    BY <1>4, <2>1, Here, LapsTurns
  <2>3. Turn(t)
    BY <1>4, <2>2, Here DEF Turn, OnlyIts
  <2>4. CallOK(thread'[t]) /\ CountOK(thread'[t], stamp, commits)
    BY <1>1, <2>1, <2>2, Here DEF CallOK, CountOK, Indexing, Looking, Evicting
  <2>5. LockOK(thread'[t], holds'[t])
    BY <1>2, <1>4, <2>1, <2>2, Here, MayAt DEF LockOK, Writing, Clearing
  <2>6. QED
    BY <1>1, <1>4, <2>3, <2>4, <2>5, ClockStays, QuietKeeps DEF TermsCached
<1>5. QED
  BY <1>3, <1>4 DEF TermsCached, Laps

LEMMA TermsBuildKeeps ==
    ASSUME LocksIInv, NEW t \in Threads, TermsBuild(t)
    PROVE  LocksIInv'
<1>1. thread[t].pc = "terms_build" /\ Becomes(t, Laps(thread[t], "live_cached", 2, stamp)) /\ Keeps(t)
      /\ thread[t].op = "search" /\ thread[t].key \in Names
  BY Here DEF TermsBuild, Ready, Laps, Indexing, CallOK
<1>2. OnlyIts(t) /\ thread'[t].pc = "live_cached" /\ thread'[t].op = thread[t].op
      /\ thread'[t].key = thread[t].key /\ thread'[t].lap = 2 /\ thread'[t].floor = thread[t].floor
  BY <1>1, Here, StepsAre, LapsTurns
<1>3. holds[t] = {} /\ Wants(thread[t].pc) = <<"terms_build", "w">>
  BY <1>1, Here, MayAt, WantsAt DEF LockOK
<1>4. holds' \in [Threads -> Held] /\ holds'[t] = {<<"terms_build", "w">>}
      /\ \A u \in Threads \ {t} : holds'[u] = holds[u]
  BY <1>1, <1>3, Here, KeepsTurns DEF Locks
<1>5. Turn(t)
  BY <1>2, <1>4 DEF Turn, OnlyIts
<1>6. CallOK(thread'[t]) /\ CountOK(thread'[t], stamp, commits)
  BY <1>1, <1>2, Here DEF CallOK, CountOK, Indexing, Looking, Evicting
<1>7. LockOK(thread'[t], holds'[t])
  BY <1>2, <1>4, MayAt DEF LockOK, Writing, Clearing
<1>8. QED
  BY <1>1, <1>4, <1>5, <1>6, <1>7, ClockStays, QuietKeeps DEF TermsBuild, Evicting

\* The writes are taken when nobody has them.
LEMMA TakeWritesKeeps ==
    ASSUME LocksIInv, NEW t \in Threads, TakeWrites(t)
    PROVE  LocksIInv'
<1>1. thread[t].pc = "write" /\ Becomes(t, At(thread[t], "commit")) /\ Keeps(t) /\ Gets(t)
  BY DEF TakeWrites, Ready, Goto, At
<1>2. OnlyIts(t) /\ thread'[t].pc = "commit" /\ thread'[t].op = thread[t].op
      /\ thread'[t].key = thread[t].key /\ thread'[t].lap = thread[t].lap /\ thread'[t].floor = thread[t].floor
  BY <1>1, Here, StepsAre, AtTurns
<1>3. holds[t] = {} /\ Wants(thread[t].pc) = <<"writes", "w">>
  BY <1>1, Here, MayAt, WantsAt DEF LockOK
<1>4. holds' \in [Threads -> Held] /\ holds'[t] = {<<"writes", "w">>}
      /\ \A u \in Threads \ {t} : holds'[u] = holds[u]
  BY <1>1, <1>3, Here, KeepsTurns DEF Locks
<1>5. \A u \in Threads : <<"writes", "w">> \notin holds[u]
  BY <1>1, <1>3 DEF Gets, Conflict
<1>6. Turn(t)
  BY <1>2, <1>4 DEF Turn, OnlyIts
<1>7. CallOK(thread'[t]) /\ CountOK(thread'[t], stamp, commits)
  BY <1>1, <1>2, Here DEF CallOK, CountOK, Indexing, Looking, Evicting
<1>8. LockOK(thread'[t], holds'[t])
  BY <1>2, <1>4, MayAt DEF LockOK, Writing, Clearing
<1>9. QED
  BY <1>1, <1>5, <1>6, <1>7, <1>8, ClockStays, QuietKeeps DEF TakeWrites, Evicting

LEMMA ForgetUsedKeeps ==
    ASSUME LocksIInv, NEW t \in Threads, ForgetUsed(t)
    PROVE  LocksIInv'
<1>1. thread[t].pc = "forget_used" /\ Ends(t) /\ LetsGo(t, {"writes"})
      /\ used' = Unnamed({thread[t].key})
  BY DEF ForgetUsed, Ready
<1>2. OnlyIts(t) /\ thread'[t] = Resting
  BY <1>1, Here, EndsTurns
<1>3. holds[t] \subseteq {<<"writes", "w">>}
  BY <1>1, Here, MayAt DEF LockOK
<1>4. holds' \in [Threads -> Held] /\ holds'[t] = {} /\ \A u \in Threads \ {t} : holds'[u] = holds[u]
  BY <1>1, <1>3, Here, LetsGoTurns
<1>5. Turn(t)
  BY <1>2, <1>4 DEF Turn, OnlyIts
<1>6. used' \in [Names -> Nat] /\ IsFiniteSet(Named)'
  BY <1>1, ClockForgets
<1>7. QED
  BY <1>1, <1>2, <1>4, <1>5, <1>6, RestsOK, QuietKeeps DEF ForgetUsed, Evicting

-----------------------------------------------------------------------------
(* The steps of the caches. *)

Put(c, w, n) == [c EXCEPT ![w] = n]

\* A cache with one workspace put in, or out.
LEMMA PutFits ==
    ASSUME NEW c \in [Names -> Int], NEW w \in Names, NEW n \in Int, IsFiniteSet(CachedIn(c))
    PROVE  /\ Put(c, w, n) \in [Names -> Int]
           /\ IsFiniteSet(CachedIn(Put(c, w, n)))
           /\ n = Absent => CachedIn(Put(c, w, n)) \subseteq CachedIn(c)
<1>1. Put(c, w, n) \in [Names -> Int] /\ Put(c, w, n)[w] = n
      /\ \A v \in Names \ {w} : Put(c, w, n)[v] = c[v]
  BY DEF Put
<1>2. CachedIn(Put(c, w, n)) \subseteq CachedIn(c) \cup {w}
  BY <1>1 DEF CachedIn
<1>3. IsFiniteSet(CachedIn(c) \cup {w})
  BY FS_AddElement
<1>4. IsFiniteSet(CachedIn(Put(c, w, n)))
  BY <1>2, <1>3, FS_Subset
<1>5. n = Absent => CachedIn(Put(c, w, n)) \subseteq CachedIn(c)
  BY <1>1 DEF CachedIn
<1>6. QED
  BY <1>1, <1>4, <1>5

LEMMA NoCountOK == NoCount \in Entries /\ NoCount.saw >= NoCount.at
BY DEF NoCount, Entries, Absent

\* The counts with one workspace's put in, or out.
LEMMA EntryFits ==
    ASSUME LocksIInv, NEW w \in Names, NEW e \in Entries, e.saw >= e.at, counts' = Put(counts, w, e)
    PROVE  /\ counts' \in [Names -> Entries] /\ EntriesOK'
           /\ IsFiniteSet(Counted')
           /\ e = NoCount => Counted' \subseteq Counted
<1>1. counts \in [Names -> Entries] /\ EntriesOK /\ IsFiniteSet(Counted)
  BY DEF LocksIInv, LocksTypeOK, StoreTypeOK, CountsOK, CapOK, Finite
<1>2. counts' \in [Names -> Entries] /\ counts'[w] = e /\ \A v \in Names \ {w} : counts'[v] = counts[v]
  BY <1>1 DEF Put
<1>3. EntriesOK'
  BY <1>1, <1>2 DEF EntriesOK
<1>4. Counted' \subseteq Counted \cup {w}
  BY <1>2 DEF Counted
<1>5. IsFiniteSet(Counted \cup {w})
  BY <1>1, FS_AddElement
<1>6. IsFiniteSet(Counted')
  BY <1>4, <1>5, FS_Subset
<1>7. e = NoCount => Counted' \subseteq Counted
  BY <1>2 DEF Counted
<1>8. QED
  BY <1>2, <1>3, <1>6, <1>7

\* A step at the caches and not at the log.
LEMMA CacheKeeps ==
    ASSUME LocksIInv, NEW t \in Threads, Turn(t), UNCHANGED <<commits, stamp>>,
           parsed' \in [Names -> Int], indexed' \in [Names -> Int],
           counts' \in [Names -> Entries], EntriesOK',
           used' \in [Names -> Nat], IsFiniteSet(Named)',
           CallOK(thread'[t]), LockOK(thread'[t], holds'[t]), CountOK(thread'[t], stamp, commits),
           <<"writes", "w">> \in holds'[t] => <<"writes", "w">> \in holds[t],
           Kept(Evicting, CachedIn(parsed), CachedIn(parsed'), t),
           Kept({"evict_terms"}, CachedIn(indexed), CachedIn(indexed'), t),
           Kept({"evict_counts"}, Counted, Counted', t)
    PROVE  LocksIInv'
<1>1. StoreTypeOK'
  BY DEF LocksIInv, LocksTypeOK, StoreTypeOK
<1>2. CountsOK'
  <2>1. stamp' >= stamp /\ commits' >= commits /\ commits' >= stamp'
    BY DEF LocksIInv, LocksTypeOK, CountsOK, StoreTypeOK
  <2>2. QED
    BY <1>1, <2>1, CountsKept DEF LocksIInv
<1>3. CapOK'
  BY CapKept DEF LocksIInv
<1>4. QED
  BY <1>1, <1>2, <1>3, StepKeeps

\* A cache that is left alone keeps its cap.
LEMMA StillKept ==
    ASSUME NEW t \in Threads, NEW some, NEW S, IsFiniteSet(S), thread[t].pc \notin some \/ thread'[t].pc \in some
    PROVE  Kept(some, S, S, t)
BY DEF Kept

\* The caches as they are.
LEMMA CachesFit ==
    ASSUME LocksIInv
    PROVE  /\ parsed \in [Names -> Int] /\ indexed \in [Names -> Int] /\ counts \in [Names -> Entries]
           /\ used \in [Names -> Nat] /\ EntriesOK
           /\ IsFiniteSet(CachedIn(parsed)) /\ IsFiniteSet(CachedIn(indexed)) /\ IsFiniteSet(Counted)
           /\ CachedIn(parsed) \subseteq Names /\ CachedIn(indexed) \subseteq Names /\ Counted \subseteq Names
BY DEF LocksIInv, LocksTypeOK, StoreTypeOK, CountsOK, CapOK, Finite, CachedIn, Counted

\* What an unchanged cache is afterwards.
LEMMA SameCaches ==
    ASSUME LocksIInv
    PROVE  /\ UNCHANGED counts => counts' \in [Names -> Entries] /\ EntriesOK' /\ Counted' = Counted
           /\ UNCHANGED parsed => parsed' \in [Names -> Int] /\ CachedIn(parsed') = CachedIn(parsed)
           /\ UNCHANGED indexed => indexed' \in [Names -> Int] /\ CachedIn(indexed') = CachedIn(indexed)
<1>1. UNCHANGED counts => counts' \in [Names -> Entries] /\ EntriesOK' /\ Counted' = Counted
  BY CachesFit DEF EntriesOK, Counted
<1>2. QED
  BY <1>1, CachesFit

LEMMA CountsInsertKeeps ==
    ASSUME LocksIInv, NEW t \in Threads, CountsInsert(t)
    PROVE  LocksIInv'
<1> DEFINE w == thread[t].key
           e == [at |-> thread[t].seen, saw |-> thread[t].saw]
<1>1. thread[t].pc = "counts_insert" /\ Becomes(t, Sees(thread[t], "evict_counts", 0)) /\ Keeps(t)
      /\ used' = Noted(w) /\ counts' = Put(counts, w, e)
  BY DEF CountsInsert, Ready, Sees, Put
<1>2. OnlyIts(t) /\ thread'[t].pc = "evict_counts" /\ thread'[t].op = thread[t].op /\ thread'[t].saw = thread[t].saw
      /\ thread'[t].key = thread[t].key /\ thread'[t].lap = thread[t].lap /\ thread'[t].floor = thread[t].floor
  BY <1>1, Here, StepsAre, SeesTurns
<1>3. /\ thread[t].seen \in Int /\ thread[t].saw \in Int /\ thread[t].floor \in Nat
      /\ thread[t].floor <= thread[t].seen /\ thread[t].seen <= thread[t].saw
  BY <1>1, Here DEF CountOK, Calls
<1>4. w \in Names /\ e \in Entries /\ e.saw >= e.at
  BY <1>1, <1>3, Here DEF CallOK, Entries
<1>5. holds[t] \subseteq {<<"counts_build", "w">>} /\ Wants(thread[t].pc) = <<"counts", "w">>
  BY <1>1, Here, MayAt, WantsAt DEF LockOK
<1>6. holds' \in [Threads -> Held] /\ holds'[t] = holds[t] \cup {<<"counts", "w">>}
      /\ \A u \in Threads \ {t} : holds'[u] = holds[u]
  BY <1>1, <1>5, Here, KeepsTurns DEF Locks
<1>7. Turn(t)
  BY <1>2, <1>6 DEF Turn, OnlyIts
<1>8. CallOK(thread'[t]) /\ CountOK(thread'[t], stamp, commits)
  BY <1>1, <1>2, <1>3, Here DEF CallOK, CountOK, Indexing, Looking, Evicting
<1>9. LockOK(thread'[t], holds'[t])
  BY <1>2, <1>5, <1>6, MayAt DEF LockOK, Writing, Clearing
<1> HIDE DEF w, e
<1>10. counts' \in [Names -> Entries] /\ EntriesOK' /\ IsFiniteSet(Counted')
  BY <1>1, <1>4, EntryFits
<1>11. used' \in [Names -> Nat] /\ IsFiniteSet(Named)'
  BY <1>1, <1>4, ClockNotes
<1>12. UNCHANGED <<commits, stamp, parsed, indexed>>
  BY DEF CountsInsert
<1>13. /\ Kept(Evicting, CachedIn(parsed), CachedIn(parsed'), t)
       /\ Kept({"evict_terms"}, CachedIn(indexed), CachedIn(indexed'), t)
       /\ Kept({"evict_counts"}, Counted, Counted', t)
  BY <1>1, <1>2, <1>10, <1>12, SameCaches, CachesFit DEF Kept, Evicting
<1>14. QED
  BY <1>5, <1>6, <1>7, <1>8, <1>9, <1>10, <1>11, <1>12, <1>13, SameCaches, CacheKeeps

LEMMA EvictCountsKeeps ==
    ASSUME LocksIInv, NEW t \in Threads, EvictCounts(t)
    PROVE  LocksIInv'
<1> DEFINE colder == Coldest(Counted, thread[t].key)
           next == IF thread[t].dropped = {} THEN "counts_out" ELSE "drop_live"
<1>1. thread[t].pc = "evict_counts" /\ UNCHANGED <<commits, stamp, parsed, indexed, used>>
  BY DEF EvictCounts, Ready
<1>2. holds[t] \subseteq {<<"counts_build", "w">>, <<"counts", "w">>}
  BY <1>1, Here, MayAt DEF LockOK
<1>3. ASSUME NEW w \in colder, counts' = Put(counts, w, NoCount), holds' = holds,
             Becomes(t, Drops(thread[t], thread[t].dropped \cup {w}))
      PROVE  LocksIInv'
  <2>1. w \in Names /\ thread[t].dropped \cup {w} \in SUBSET Names
    BY CachesFit, Here DEF Coldest, Calls
  <2>2. OnlyIts(t) /\ thread'[t].pc = thread[t].pc /\ thread'[t].op = thread[t].op /\ thread'[t].saw = thread[t].saw
        /\ thread'[t].key = thread[t].key /\ thread'[t].lap = thread[t].lap /\ thread'[t].floor = thread[t].floor
        /\ thread'[t].seen = thread[t].seen
    BY <1>3, <2>1, Here, DropsTurns
  <2>3. Turn(t)
    BY <1>3, <2>2, Here DEF Turn, OnlyIts
  <2>4. CallOK(thread'[t]) /\ CountOK(thread'[t], stamp, commits)
    BY <1>1, <2>2, Here DEF CallOK, CountOK, Indexing, Looking, Evicting
  <2>5. LockOK(thread'[t], holds'[t])
    BY <1>3, <2>2, Here DEF LockOK
  <2>6. counts' \in [Names -> Entries] /\ EntriesOK' /\ IsFiniteSet(Counted')
    BY <1>3, <2>1, EntryFits, NoCountOK
  <2>7. /\ Kept(Evicting, CachedIn(parsed), CachedIn(parsed'), t)
        /\ Kept({"evict_terms"}, CachedIn(indexed), CachedIn(indexed'), t)
        /\ Kept({"evict_counts"}, Counted, Counted', t)
    BY <1>1, <2>2, <2>6, SameCaches, CachesFit DEF Kept, Evicting
  <2>8. QED
    BY <1>1, <1>3, <2>3, <2>4, <2>5, <2>6, <2>7, ClockStays, SameCaches, CacheKeeps
<1>4. ASSUME ~ (Cardinality(Counted) > CacheCap /\ colder # {}), counts' = counts,
             LetsGo(t, {"counts"}), Becomes(t, At(thread[t], next))
      PROVE  LocksIInv'
  <2>1. next \in {"counts_out", "drop_live"} /\ next \in Steps
    BY StepsAre
  <2> HIDE DEF next
  <2>2. OnlyIts(t) /\ thread'[t].pc = next /\ thread'[t].op = thread[t].op /\ thread'[t].saw = thread[t].saw
        /\ thread'[t].key = thread[t].key /\ thread'[t].lap = thread[t].lap /\ thread'[t].floor = thread[t].floor
    BY <1>4, <2>1, Here, AtTurns
  <2>3. holds' \in [Threads -> Held] /\ holds'[t] \subseteq {<<"counts_build", "w">>}
        /\ \A u \in Threads \ {t} : holds'[u] = holds[u]
    BY <1>2, <1>4, Here, LetsGoTurns
  <2>4. Turn(t)
    BY <2>2, <2>3 DEF Turn, OnlyIts
  <2>5. CallOK(thread'[t]) /\ CountOK(thread'[t], stamp, commits)
    BY <1>1, <2>1, <2>2, Here DEF CallOK, CountOK, Indexing, Looking, Evicting
  <2>6. LockOK(thread'[t], holds'[t])
    BY <2>1, <2>2, <2>3, MayAt DEF LockOK, Writing, Clearing
  <2>7. Small(Counted)
    BY <1>4, Here, CachesFit, EvictedSmall
  <2>8. /\ Kept(Evicting, CachedIn(parsed), CachedIn(parsed'), t)
        /\ Kept({"evict_terms"}, CachedIn(indexed), CachedIn(indexed'), t)
        /\ Kept({"evict_counts"}, Counted, Counted', t)
    BY <1>1, <1>4, <2>7, SameCaches, CachesFit DEF Kept, Evicting
  <2>9. QED
    BY <1>1, <1>4, <2>3, <2>4, <2>5, <2>6, <2>8, ClockStays, SameCaches, CacheKeeps
<1>5. QED
  BY <1>3, <1>4 DEF EvictCounts, Put, Drops, Goto, At

LEMMA LiveInsertKeeps ==
    ASSUME LocksIInv, NEW t \in Threads, LiveInsert(t)
    PROVE  LocksIInv'
<1> DEFINE w == thread[t].key
           seen == thread[t].seen
<1>1. thread[t].pc = "live_insert" /\ Becomes(t, At(thread[t], "evict_cached")) /\ Keeps(t)
      /\ used' = Noted(w) /\ parsed' = Put(parsed, w, seen) /\ UNCHANGED <<commits, stamp, indexed, counts>>
  BY DEF LiveInsert, Ready, Goto, At, Put
<1>2. OnlyIts(t) /\ thread'[t].pc = "evict_cached" /\ thread'[t].op = thread[t].op
      /\ thread'[t].key = thread[t].key /\ thread'[t].lap = thread[t].lap /\ thread'[t].floor = thread[t].floor
  BY <1>1, Here, StepsAre, AtTurns
<1>3. w \in Names /\ seen \in Int
  BY <1>1, Here DEF CallOK, Calls
<1>4. holds[t] \subseteq {<<"terms_build", "w">>} /\ Wants(thread[t].pc) = <<"live", "w">>
  BY <1>1, Here, MayAt, WantsAt DEF LockOK
<1>5. holds' \in [Threads -> Held] /\ holds'[t] = holds[t] \cup {<<"live", "w">>}
      /\ \A u \in Threads \ {t} : holds'[u] = holds[u]
  BY <1>1, <1>4, Here, KeepsTurns DEF Locks
<1>6. Turn(t)
  BY <1>2, <1>5 DEF Turn, OnlyIts
<1>7. CallOK(thread'[t]) /\ CountOK(thread'[t], stamp, commits)
  BY <1>1, <1>2, Here DEF CallOK, CountOK, Indexing, Looking, Evicting
<1>8. LockOK(thread'[t], holds'[t])
  BY <1>1, <1>2, <1>4, <1>5, Here, MayAt DEF LockOK, Writing, Clearing
<1> HIDE DEF w, seen
<1>9. parsed' \in [Names -> Int] /\ IsFiniteSet(CachedIn(parsed'))
  BY <1>1, <1>3, PutFits, CachesFit
<1>10. used' \in [Names -> Nat] /\ IsFiniteSet(Named)'
  BY <1>1, <1>3, ClockNotes
<1>11. /\ Kept(Evicting, CachedIn(parsed), CachedIn(parsed'), t)
       /\ Kept({"evict_terms"}, CachedIn(indexed), CachedIn(indexed'), t)
       /\ Kept({"evict_counts"}, Counted, Counted', t)
  BY <1>1, <1>2, <1>9, SameCaches, CachesFit DEF Kept, Evicting
<1>12. QED
  BY <1>1, <1>4, <1>5, <1>6, <1>7, <1>8, <1>9, <1>10, <1>11, SameCaches, CacheKeeps

LEMMA EvictCachedKeeps ==
    ASSUME LocksIInv, NEW t \in Threads, EvictCached(t)
    PROVE  LocksIInv'
<1> DEFINE colder == Coldest(CachedIn(parsed), thread[t].key)
<1>1. thread[t].pc = "evict_cached" /\ UNCHANGED <<commits, stamp, indexed, counts, used>>
      /\ thread[t].pc \in Evicting
  BY DEF EvictCached, Ready, Evicting
<1>2. holds[t] \subseteq {<<"terms_build", "w">>, <<"live", "w">>}
  BY <1>1, Here, MayAt DEF LockOK
<1>3. ASSUME NEW w \in colder, parsed' = Put(parsed, w, Absent), holds' = holds,
             Becomes(t, Victim(thread[t], "evict_terms_of", w))
      PROVE  LocksIInv'
  <2>1. w \in Names /\ Absent \in Int
    BY CachesFit DEF Coldest, Absent
  <2>2. OnlyIts(t) /\ thread'[t].pc = "evict_terms_of" /\ thread'[t].op = thread[t].op /\ thread'[t].out = w
        /\ thread'[t].key = thread[t].key /\ thread'[t].lap = thread[t].lap /\ thread'[t].floor = thread[t].floor
    BY <1>3, <2>1, Here, StepsAre, VictimTurns
  <2>3. Turn(t)
    BY <1>3, <2>2, Here DEF Turn, OnlyIts
  <2>4. CallOK(thread'[t]) /\ CountOK(thread'[t], stamp, commits)
    BY <1>1, <2>1, <2>2, Here DEF CallOK, CountOK, Indexing, Looking, Evicting
  <2>5. LockOK(thread'[t], holds'[t])
    BY <1>1, <1>2, <1>3, <2>2, Here, MayAt DEF LockOK, Writing, Clearing
  <2>6. parsed' \in [Names -> Int] /\ IsFiniteSet(CachedIn(parsed'))
    BY <1>3, <2>1, PutFits, CachesFit
  <2>7. /\ Kept(Evicting, CachedIn(parsed), CachedIn(parsed'), t)
        /\ Kept({"evict_terms"}, CachedIn(indexed), CachedIn(indexed'), t)
        /\ Kept({"evict_counts"}, Counted, Counted', t)
    BY <1>1, <2>2, <2>6, SameCaches, CachesFit DEF Kept, Evicting
  <2>8. QED
    BY <1>1, <1>3, <2>3, <2>4, <2>5, <2>6, <2>7, ClockStays, SameCaches, CacheKeeps
<1>4. ASSUME ~ (Cardinality(CachedIn(parsed)) > CacheCap /\ colder # {}), parsed' = parsed,
             LetsGo(t, {"live"}), Onward(t)
      PROVE  LocksIInv'
  <2>1. holds' \in [Threads -> Held] /\ holds'[t] = {h \in holds[t] : h[1] # "live"}
        /\ \A u \in Threads \ {t} : holds'[u] = holds[u]
    BY <1>4, Here, LetsGoTurns
  <2>2. holds'[t] \in SUBSET {<<"terms_build", "w">>} /\ holds'[t] \subseteq holds[t]
    BY <1>2, <2>1
  <2>3. OnlyIts(t) /\ CallOK(thread'[t]) /\ LockOK(thread'[t], holds'[t]) /\ CountOK(thread'[t], stamp, commits)
    BY <1>1, <1>4, <2>2, OnwardTurns
  <2>4. Turn(t)
    BY <2>1, <2>3 DEF Turn, OnlyIts
  <2>5. Small(CachedIn(parsed))
    BY <1>4, Here, CachesFit, EvictedSmall
  <2>6. /\ Kept(Evicting, CachedIn(parsed), CachedIn(parsed'), t)
        /\ Kept({"evict_terms"}, CachedIn(indexed), CachedIn(indexed'), t)
        /\ Kept({"evict_counts"}, Counted, Counted', t)
    BY <1>1, <1>4, <2>5, SameCaches, CachesFit DEF Kept, Evicting
  <2>7. QED
    BY <1>1, <1>4, <2>1, <2>2, <2>3, <2>4, <2>6, ClockStays, SameCaches, CacheKeeps
<1>5. QED
  BY <1>3, <1>4 DEF EvictCached, Put, Victim

LEMMA EvictTermsOfKeeps ==
    ASSUME LocksIInv, NEW t \in Threads, EvictTermsOf(t)
    PROVE  LocksIInv'
<1>1. thread[t].pc = "evict_terms_of" /\ Becomes(t, At(thread[t], "evict_counts_of")) /\ holds' = holds
      /\ indexed' = Put(indexed, thread[t].out, Absent) /\ UNCHANGED <<commits, stamp, parsed, counts, used>>
  BY DEF EvictTermsOf, Ready, Goto, At, Put
<1>2. OnlyIts(t) /\ thread'[t].pc = "evict_counts_of" /\ thread'[t].op = thread[t].op /\ thread'[t].out = thread[t].out
      /\ thread'[t].key = thread[t].key /\ thread'[t].lap = thread[t].lap /\ thread'[t].floor = thread[t].floor
  BY <1>1, Here, StepsAre, AtTurns
<1>3. thread[t].out \in Names /\ Absent \in Int
  BY <1>1, Here DEF CallOK, Absent
<1>4. Turn(t)
  BY <1>1, <1>2, Here DEF Turn, OnlyIts
<1>5. CallOK(thread'[t]) /\ CountOK(thread'[t], stamp, commits)
  BY <1>1, <1>2, <1>3, Here DEF CallOK, CountOK, Indexing, Looking, Evicting
<1>6. LockOK(thread'[t], holds'[t])
  BY <1>1, <1>2, Here, MayAt DEF LockOK, Writing, Clearing
<1>7. indexed' \in [Names -> Int] /\ IsFiniteSet(CachedIn(indexed')) /\ CachedIn(indexed') \subseteq CachedIn(indexed)
  BY <1>1, <1>3, PutFits, CachesFit
<1>8. /\ Kept(Evicting, CachedIn(parsed), CachedIn(parsed'), t)
      /\ Kept({"evict_terms"}, CachedIn(indexed), CachedIn(indexed'), t)
      /\ Kept({"evict_counts"}, Counted, Counted', t)
  BY <1>1, <1>2, <1>7, SameCaches, CachesFit DEF Kept, Evicting
<1>9. QED
  BY <1>1, <1>4, <1>5, <1>6, <1>7, <1>8, ClockStays, SameCaches, CacheKeeps

LEMMA EvictCountsOfKeeps ==
    ASSUME LocksIInv, NEW t \in Threads, EvictCountsOf(t)
    PROVE  LocksIInv'
<1>1. thread[t].pc = "evict_counts_of" /\ Becomes(t, Victim(thread[t], "evict_cached", Nobody)) /\ holds' = holds
      /\ counts' = Put(counts, thread[t].out, NoCount) /\ used' = Unnamed({thread[t].out})
      /\ UNCHANGED <<commits, stamp, parsed, indexed>>
  BY DEF EvictCountsOf, Ready, Victim, Put
<1>2. OnlyIts(t) /\ thread'[t].pc = "evict_cached" /\ thread'[t].op = thread[t].op
      /\ thread'[t].key = thread[t].key /\ thread'[t].lap = thread[t].lap /\ thread'[t].floor = thread[t].floor
  BY <1>1, Here, StepsAre, VictimTurns
<1>3. thread[t].out \in Names
  BY <1>1, Here DEF CallOK
<1>4. Turn(t)
  BY <1>1, <1>2, Here DEF Turn, OnlyIts
<1>5. CallOK(thread'[t]) /\ CountOK(thread'[t], stamp, commits)
  BY <1>1, <1>2, <1>3, Here DEF CallOK, CountOK, Indexing, Looking, Evicting
<1>6. LockOK(thread'[t], holds'[t])
  BY <1>1, <1>2, Here, MayAt DEF LockOK, Writing, Clearing
<1>7. counts' \in [Names -> Entries] /\ EntriesOK' /\ IsFiniteSet(Counted') /\ Counted' \subseteq Counted
  BY <1>1, <1>3, EntryFits, NoCountOK
<1>8. used' \in [Names -> Nat] /\ IsFiniteSet(Named)'
  BY <1>1, ClockForgets
<1>9. /\ Kept(Evicting, CachedIn(parsed), CachedIn(parsed'), t)
      /\ Kept({"evict_terms"}, CachedIn(indexed), CachedIn(indexed'), t)
      /\ Kept({"evict_counts"}, Counted, Counted', t)
  BY <1>1, <1>2, <1>7, SameCaches, CachesFit DEF Kept, Evicting
<1>10. QED
  BY <1>1, <1>4, <1>5, <1>6, <1>7, <1>8, <1>9, SameCaches, CacheKeeps

LEMMA TermsTakeKeeps ==
    ASSUME LocksIInv, NEW t \in Threads, TermsTake(t)
    PROVE  LocksIInv'
<1>1. thread[t].pc = "terms_take" /\ Becomes(t, At(thread[t], "terms_insert")) /\ holds' = holds
      /\ indexed' = Put(indexed, thread[t].key, Absent) /\ UNCHANGED <<commits, stamp, parsed, counts, used>>
  BY DEF TermsTake, Ready, Goto, At, Put
<1>2. OnlyIts(t) /\ thread'[t].pc = "terms_insert" /\ thread'[t].op = thread[t].op
      /\ thread'[t].key = thread[t].key /\ thread'[t].lap = thread[t].lap /\ thread'[t].floor = thread[t].floor
  BY <1>1, Here, StepsAre, AtTurns
<1>3. thread[t].key \in Names /\ Absent \in Int
  BY <1>1, Here DEF CallOK, Absent
<1>4. Turn(t)
  BY <1>1, <1>2, Here DEF Turn, OnlyIts
<1>5. CallOK(thread'[t]) /\ CountOK(thread'[t], stamp, commits)
  BY <1>1, <1>2, <1>3, Here DEF CallOK, CountOK, Indexing, Looking, Evicting
<1>6. LockOK(thread'[t], holds'[t])
  BY <1>1, <1>2, Here, MayAt DEF LockOK, Writing, Clearing
<1>7. indexed' \in [Names -> Int] /\ IsFiniteSet(CachedIn(indexed')) /\ CachedIn(indexed') \subseteq CachedIn(indexed)
  BY <1>1, <1>3, PutFits, CachesFit
<1>8. /\ Kept(Evicting, CachedIn(parsed), CachedIn(parsed'), t)
      /\ Kept({"evict_terms"}, CachedIn(indexed), CachedIn(indexed'), t)
      /\ Kept({"evict_counts"}, Counted, Counted', t)
  BY <1>1, <1>2, <1>7, SameCaches, CachesFit DEF Kept, Evicting
<1>9. QED
  BY <1>1, <1>4, <1>5, <1>6, <1>7, <1>8, ClockStays, SameCaches, CacheKeeps

LEMMA TermsInsertKeeps ==
    ASSUME LocksIInv, NEW t \in Threads, TermsInsert(t)
    PROVE  LocksIInv'
<1>1. thread[t].pc = "terms_insert" /\ Becomes(t, Sees(thread[t], "evict_terms", 0)) /\ Keeps(t)
      /\ indexed' = Put(indexed, thread[t].key, thread[t].seen) /\ UNCHANGED <<commits, stamp, parsed, counts, used>>
  BY DEF TermsInsert, Ready, Sees, Put
<1>2. OnlyIts(t) /\ thread'[t].pc = "evict_terms" /\ thread'[t].op = thread[t].op
      /\ thread'[t].key = thread[t].key /\ thread'[t].lap = thread[t].lap /\ thread'[t].floor = thread[t].floor
  <2>1. "evict_terms" \in Steps /\ 0 \in Int /\ LocksTypeOK /\ Becomes(t, Sees(thread[t], "evict_terms", 0))
    BY <1>1, Here, StepsAre
  <2>2. QED
    BY <2>1, SeesTurns
<1>3. thread[t].key \in Names /\ thread[t].seen \in Int
  BY <1>1, Here DEF CallOK, Calls
<1>4. holds[t] \subseteq {<<"terms_build", "w">>} /\ Wants(thread[t].pc) = <<"terms", "w">>
  BY <1>1, Here, MayAt, WantsAt DEF LockOK
<1>5. holds' \in [Threads -> Held] /\ holds'[t] = holds[t] \cup {<<"terms", "w">>}
      /\ \A u \in Threads \ {t} : holds'[u] = holds[u]
  BY <1>1, <1>4, Here, KeepsTurns DEF Locks
<1>6. Turn(t)
  BY <1>2, <1>5 DEF Turn, OnlyIts
<1>7. CallOK(thread'[t]) /\ CountOK(thread'[t], stamp, commits)
  BY <1>1, <1>2, <1>3, Here DEF CallOK, CountOK, Indexing, Looking, Evicting
<1>8. LockOK(thread'[t], holds'[t])
  BY <1>1, <1>2, <1>4, <1>5, Here, MayAt DEF LockOK, Writing, Clearing
<1>9. indexed' \in [Names -> Int] /\ IsFiniteSet(CachedIn(indexed'))
  BY <1>1, <1>3, PutFits, CachesFit
<1>10. /\ Kept(Evicting, CachedIn(parsed), CachedIn(parsed'), t)
       /\ Kept({"evict_terms"}, CachedIn(indexed), CachedIn(indexed'), t)
       /\ Kept({"evict_counts"}, Counted, Counted', t)
  BY <1>1, <1>2, <1>9, SameCaches, CachesFit DEF Kept, Evicting
<1>11. QED
  BY <1>1, <1>4, <1>5, <1>6, <1>7, <1>8, <1>9, <1>10, ClockStays, SameCaches, CacheKeeps

LEMMA EvictTermsKeeps ==
    ASSUME LocksIInv, NEW t \in Threads, EvictTerms(t)
    PROVE  LocksIInv'
<1> DEFINE colder == Coldest(CachedIn(indexed), thread[t].key)
<1>1. thread[t].pc = "evict_terms" /\ UNCHANGED <<commits, stamp, parsed, counts, used>>
  BY DEF EvictTerms, Ready
<1>2. holds[t] \subseteq {<<"terms_build", "w">>, <<"terms", "w">>}
  BY <1>1, Here, MayAt DEF LockOK
<1>3. ASSUME NEW w \in colder, indexed' = Put(indexed, w, Absent), UNCHANGED <<holds, thread>>
      PROVE  LocksIInv'
  <2>1. w \in Names /\ Absent \in Int
    BY CachesFit DEF Coldest, Absent
  <2>2. Turn(t)
    BY <1>3, Here DEF Turn, LocksTypeOK
  <2>3. CallOK(thread'[t]) /\ CountOK(thread'[t], stamp, commits) /\ LockOK(thread'[t], holds'[t])
    BY <1>3, Here
  <2>4. indexed' \in [Names -> Int] /\ IsFiniteSet(CachedIn(indexed'))
    BY <1>3, <2>1, PutFits, CachesFit
  <2>5. /\ Kept(Evicting, CachedIn(parsed), CachedIn(parsed'), t)
        /\ Kept({"evict_terms"}, CachedIn(indexed), CachedIn(indexed'), t)
        /\ Kept({"evict_counts"}, Counted, Counted', t)
    BY <1>1, <1>3, <2>4, SameCaches, CachesFit DEF Kept, Evicting
  <2>6. QED
    BY <1>1, <1>3, <2>2, <2>3, <2>4, <2>5, ClockStays, SameCaches, CacheKeeps
<1>4. ASSUME ~ (Cardinality(CachedIn(indexed)) > CacheCap /\ colder # {}), indexed' = indexed,
             LetsGo(t, {"terms", "terms_build"}), Ends(t)
      PROVE  LocksIInv'
  <2>1. OnlyIts(t) /\ thread'[t] = Resting
    BY <1>4, Here, EndsTurns
  <2>2. holds' \in [Threads -> Held] /\ holds'[t] = {} /\ \A u \in Threads \ {t} : holds'[u] = holds[u]
    BY <1>2, <1>4, Here, LetsGoTurns
  <2>3. Turn(t)
    BY <2>1, <2>2 DEF Turn, OnlyIts
  <2>4. Small(CachedIn(indexed))
    BY <1>4, Here, CachesFit, EvictedSmall
  <2>5. /\ Kept(Evicting, CachedIn(parsed), CachedIn(parsed'), t)
        /\ Kept({"evict_terms"}, CachedIn(indexed), CachedIn(indexed'), t)
        /\ Kept({"evict_counts"}, Counted, Counted', t)
    BY <1>1, <1>4, <2>4, SameCaches, CachesFit DEF Kept, Evicting
  <2>6. QED
    BY <1>1, <1>4, <2>1, <2>2, <2>3, <2>5, RestsOK, ClockStays, SameCaches, CacheKeeps
<1>5. QED
  BY <1>3, <1>4 DEF EvictTerms, Put

-----------------------------------------------------------------------------
(* The steps of a writer. *)

\* A step at the log, which only the writer takes.
LEMMA LogKeeps ==
    ASSUME LocksIInv, NEW t \in Threads, Turn(t), UNCHANGED <<parsed, indexed, counts, used, holds>>,
           stamp' \in Nat, commits' \in Nat, stamp' >= stamp, commits' >= commits, commits' >= stamp',
           stamp' = stamp \/ \A u \in Threads \ {t} : thread[u].pc # "bump",
           CallOK(thread'[t]), LockOK(thread'[t], holds'[t]), CountOK(thread'[t], stamp', commits'),
           thread[t].pc \in {"commit", "bump"}
    PROVE  LocksIInv'
<1>1. StoreTypeOK'
  BY CachesFit DEF StoreTypeOK
<1>2. CountsOK'
  BY <1>1, SameCaches, CountsKept DEF LocksIInv
<1>3. /\ Kept(Evicting, CachedIn(parsed), CachedIn(parsed'), t)
      /\ Kept({"evict_terms"}, CachedIn(indexed), CachedIn(indexed'), t)
      /\ Kept({"evict_counts"}, Counted, Counted', t)
  BY SameCaches, CachesFit DEF Kept, Evicting
<1>4. CapOK'
  BY <1>3, CapKept DEF LocksIInv
<1>5. QED
  BY <1>1, <1>2, <1>4, ClockStays, StepKeeps

LEMMA CommitWriteKeeps ==
    ASSUME LocksIInv, NEW t \in Threads, CommitWrite(t)
    PROVE  LocksIInv'
<1> DEFINE next == IF commits' = commits THEN "forget_live" ELSE "bump"
<1>1. thread[t].pc = "commit" /\ UNCHANGED <<stamp, parsed, indexed, counts, used, holds>>
  BY DEF CommitWrite, Ready
<1>2. \/ commits' = commits + 1 /\ Becomes(t, At(thread[t], "bump"))
      \/ commits' = commits /\ Becomes(t, At(thread[t], "forget_live"))
  BY DEF CommitWrite, Goto, At
<1>3. OnlyIts(t) /\ thread'[t].pc \in {"bump", "forget_live"} /\ thread'[t].op = thread[t].op
      /\ thread'[t].key = thread[t].key /\ thread'[t].lap = thread[t].lap /\ thread'[t].floor = thread[t].floor
      /\ (thread'[t].pc = "bump" => commits' = commits + 1)
  BY <1>2, Here, StepsAre, AtTurns
<1>4. commits' \in Nat /\ stamp' = stamp /\ stamp \in Nat /\ commits' >= commits /\ commits' >= stamp'
      /\ (thread'[t].pc = "bump" => commits' > stamp)
  BY <1>1, <1>2, <1>3, Here
<1>5. Turn(t)
  BY <1>1, <1>3, Here DEF Turn, OnlyIts
<1>6. CallOK(thread'[t]) /\ CountOK(thread'[t], stamp', commits')
  BY <1>1, <1>3, <1>4, Here DEF CallOK, CountOK, Indexing, Looking, Evicting
<1>7. LockOK(thread'[t], holds'[t])
  BY <1>1, <1>3, Here, MayAt DEF LockOK, Writing, Clearing
<1>8. QED
  BY <1>1, <1>4, <1>5, <1>6, <1>7, LogKeeps

LEMMA BumpStampKeeps ==
    ASSUME LocksIInv, NEW t \in Threads, BumpStamp(t)
    PROVE  LocksIInv'
<1>1. thread[t].pc = "bump" /\ stamp' = stamp + 1 /\ UNCHANGED <<commits, parsed, indexed, counts, used, holds>>
  BY DEF BumpStamp, Ready
<1>2. stamp + 1 \in Int /\ stamp' \in Nat /\ stamp' >= stamp /\ commits > stamp /\ commits' >= stamp'
  BY <1>1, Here DEF CountOK
<1>3. Becomes(t, Sees(thread[t], "patch", stamp + 1)) \/ Becomes(t, At(thread[t], "forget_live"))
  BY DEF BumpStamp, Goto, Sees, At
<1>4. OnlyIts(t) /\ thread'[t].pc \in {"patch", "forget_live"} /\ thread'[t].op = thread[t].op
      /\ thread'[t].key = thread[t].key /\ thread'[t].lap = thread[t].lap /\ thread'[t].floor = thread[t].floor
  BY <1>2, <1>3, Here, StepsAre, AtTurns, SeesTurns
<1>5. Turn(t)
  BY <1>1, <1>4, Here DEF Turn, OnlyIts
<1>6. CallOK(thread'[t])
  BY <1>1, <1>4, Here DEF CallOK, Indexing, Looking, Evicting
<1>7. CountOK(thread'[t], stamp', commits')
  <2>1. thread[t].floor \in Nat /\ thread[t].floor <= stamp /\ stamp \in Nat
    BY Here DEF CountOK, Calls
  <2>2. QED
    BY <1>1, <1>4, <2>1 DEF CountOK
<1>8. LockOK(thread'[t], holds'[t])
  BY <1>1, <1>4, Here, MayAt DEF LockOK, Writing, Clearing
<1>9. ASSUME NEW u \in Threads \ {t}
      PROVE  thread[u].pc # "bump"
  <2>1. thread[u].pc = "bump" => <<"writes", "w">> \in holds[u]
    BY Here DEF LockOK, Writing
  <2>2. <<"writes", "w">> \in holds[t]
    BY <1>1, Here DEF LockOK, Writing
  <2>3. QED
    BY <2>1, <2>2 DEF LocksIInv, HeldOK, OneWriter
<1>10. QED
  BY <1>1, <1>2, <1>5, <1>6, <1>7, <1>8, <1>9, Here, LogKeeps

LEMMA PatchKeeps ==
    ASSUME LocksIInv, NEW t \in Threads, Patch(t)
    PROVE  LocksIInv'
<1> DEFINE me == thread[t]
           behind == {w \in Names : parsed[w] + 1 = me.seen /\ parsed[w] # Absent}
<1>1. thread[t].pc = "patch" /\ Ends(t) /\ LetsGo(t, {"writes"}) /\ UNCHANGED <<commits, stamp, indexed, counts>>
      /\ parsed' = [w \in Names |-> IF w \in behind THEN me.seen ELSE parsed[w]]
      /\ (used' = Noted(me.key) \/ used' = used)
  BY DEF Patch, Ready
<1>2. OnlyIts(t) /\ thread'[t] = Resting
  BY <1>1, Here, EndsTurns
<1>3. holds[t] \subseteq {<<"writes", "w">>} /\ me.key \in Names /\ me.seen \in Int
  BY <1>1, Here, MayAt DEF LockOK, CallOK, Calls
<1>4. holds' \in [Threads -> Held] /\ holds'[t] = {} /\ \A u \in Threads \ {t} : holds'[u] = holds[u]
  BY <1>1, <1>3, Here, LetsGoTurns
<1>5. Turn(t)
  BY <1>2, <1>4 DEF Turn, OnlyIts
<1>6. parsed' \in [Names -> Int]
  BY <1>1, <1>3, CachesFit
<1>7. CachedIn(parsed') \subseteq CachedIn(parsed)
  BY <1>1 DEF CachedIn
<1>8. IsFiniteSet(CachedIn(parsed'))
  BY <1>7, CachesFit, FS_Subset
<1>9. used' \in [Names -> Nat] /\ IsFiniteSet(Named)'
  BY <1>1, <1>3, ClockNotes, ClockStays
<1>10. /\ Kept(Evicting, CachedIn(parsed), CachedIn(parsed'), t)
       /\ Kept({"evict_terms"}, CachedIn(indexed), CachedIn(indexed'), t)
       /\ Kept({"evict_counts"}, Counted, Counted', t)
  BY <1>1, <1>7, <1>8, SameCaches, CachesFit DEF Kept, Evicting
<1>11. QED
  BY <1>1, <1>2, <1>4, <1>5, <1>6, <1>9, <1>10, RestsOK, SameCaches, CacheKeeps

LEMMA ForgetLiveKeeps ==
    ASSUME LocksIInv, NEW t \in Threads, ForgetLive(t)
    PROVE  LocksIInv'
<1>1. thread[t].pc = "forget_live" /\ Becomes(t, At(thread[t], "forget_terms")) /\ holds' = holds
      /\ parsed' = Put(parsed, thread[t].key, Absent) /\ UNCHANGED <<commits, stamp, indexed, counts, used>>
  BY DEF ForgetLive, Ready, Goto, At, Put
<1>2. OnlyIts(t) /\ thread'[t].pc = "forget_terms" /\ thread'[t].op = thread[t].op
      /\ thread'[t].key = thread[t].key /\ thread'[t].lap = thread[t].lap /\ thread'[t].floor = thread[t].floor
  BY <1>1, Here, StepsAre, AtTurns
<1>3. thread[t].key \in Names /\ Absent \in Int
  BY <1>1, Here DEF CallOK, Absent
<1>4. Turn(t)
  BY <1>1, <1>2, Here DEF Turn, OnlyIts
<1>5. CallOK(thread'[t]) /\ CountOK(thread'[t], stamp, commits)
  BY <1>1, <1>2, <1>3, Here DEF CallOK, CountOK, Indexing, Looking, Evicting
<1>6. LockOK(thread'[t], holds'[t])
  BY <1>1, <1>2, Here, MayAt DEF LockOK, Writing, Clearing
<1>7. parsed' \in [Names -> Int] /\ IsFiniteSet(CachedIn(parsed')) /\ CachedIn(parsed') \subseteq CachedIn(parsed)
  BY <1>1, <1>3, PutFits, CachesFit
<1>8. /\ Kept(Evicting, CachedIn(parsed), CachedIn(parsed'), t)
      /\ Kept({"evict_terms"}, CachedIn(indexed), CachedIn(indexed'), t)
      /\ Kept({"evict_counts"}, Counted, Counted', t)
  BY <1>1, <1>2, <1>7, SameCaches, CachesFit DEF Kept, Evicting
<1>9. QED
  BY <1>1, <1>4, <1>5, <1>6, <1>7, <1>8, ClockStays, SameCaches, CacheKeeps

LEMMA ForgetTermsKeeps ==
    ASSUME LocksIInv, NEW t \in Threads, ForgetTerms(t)
    PROVE  LocksIInv'
<1>1. thread[t].pc = "forget_terms" /\ Becomes(t, At(thread[t], "forget_counts")) /\ holds' = holds
      /\ indexed' = Put(indexed, thread[t].key, Absent) /\ UNCHANGED <<commits, stamp, parsed, counts, used>>
  BY DEF ForgetTerms, Ready, Goto, At, Put
<1>2. OnlyIts(t) /\ thread'[t].pc = "forget_counts" /\ thread'[t].op = thread[t].op
      /\ thread'[t].key = thread[t].key /\ thread'[t].lap = thread[t].lap /\ thread'[t].floor = thread[t].floor
  BY <1>1, Here, StepsAre, AtTurns
<1>3. thread[t].key \in Names /\ Absent \in Int
  BY <1>1, Here DEF CallOK, Absent
<1>4. Turn(t)
  BY <1>1, <1>2, Here DEF Turn, OnlyIts
<1>5. CallOK(thread'[t]) /\ CountOK(thread'[t], stamp, commits)
  BY <1>1, <1>2, <1>3, Here DEF CallOK, CountOK, Indexing, Looking, Evicting
<1>6. LockOK(thread'[t], holds'[t])
  BY <1>1, <1>2, Here, MayAt DEF LockOK, Writing, Clearing
<1>7. indexed' \in [Names -> Int] /\ IsFiniteSet(CachedIn(indexed')) /\ CachedIn(indexed') \subseteq CachedIn(indexed)
  BY <1>1, <1>3, PutFits, CachesFit
<1>8. /\ Kept(Evicting, CachedIn(parsed), CachedIn(parsed'), t)
      /\ Kept({"evict_terms"}, CachedIn(indexed), CachedIn(indexed'), t)
      /\ Kept({"evict_counts"}, Counted, Counted', t)
  BY <1>1, <1>2, <1>7, SameCaches, CachesFit DEF Kept, Evicting
<1>9. QED
  BY <1>1, <1>4, <1>5, <1>6, <1>7, <1>8, ClockStays, SameCaches, CacheKeeps

LEMMA ForgetCountsKeeps ==
    ASSUME LocksIInv, NEW t \in Threads, ForgetCounts(t)
    PROVE  LocksIInv'
<1>1. thread[t].pc = "forget_counts" /\ Becomes(t, At(thread[t], "forget_used")) /\ holds' = holds
      /\ counts' = Put(counts, thread[t].key, NoCount) /\ UNCHANGED <<commits, stamp, parsed, indexed, used>>
  BY DEF ForgetCounts, Ready, Goto, At, Put
<1>2. OnlyIts(t) /\ thread'[t].pc = "forget_used" /\ thread'[t].op = thread[t].op
      /\ thread'[t].key = thread[t].key /\ thread'[t].lap = thread[t].lap /\ thread'[t].floor = thread[t].floor
  BY <1>1, Here, StepsAre, AtTurns
<1>3. thread[t].key \in Names
  BY <1>1, Here DEF CallOK
<1>4. Turn(t)
  BY <1>1, <1>2, Here DEF Turn, OnlyIts
<1>5. CallOK(thread'[t]) /\ CountOK(thread'[t], stamp, commits)
  BY <1>1, <1>2, <1>3, Here DEF CallOK, CountOK, Indexing, Looking, Evicting
<1>6. LockOK(thread'[t], holds'[t])
  BY <1>1, <1>2, Here, MayAt DEF LockOK, Writing, Clearing
<1>7. counts' \in [Names -> Entries] /\ EntriesOK' /\ IsFiniteSet(Counted') /\ Counted' \subseteq Counted
  BY <1>1, <1>3, EntryFits, NoCountOK
<1>8. /\ Kept(Evicting, CachedIn(parsed), CachedIn(parsed'), t)
      /\ Kept({"evict_terms"}, CachedIn(indexed), CachedIn(indexed'), t)
      /\ Kept({"evict_counts"}, Counted, Counted', t)
  BY <1>1, <1>2, <1>7, SameCaches, CachesFit DEF Kept, Evicting
<1>9. QED
  BY <1>1, <1>4, <1>5, <1>6, <1>7, <1>8, ClockStays, SameCaches, CacheKeeps

-----------------------------------------------------------------------------
(* The theorems. *)

LEMMA LocksStart == LocksInit => LocksIInv
<1> SUFFICES ASSUME LocksInit PROVE LocksIInv
  OBVIOUS
<1>1. LocksTypeOK
  BY RestingOK DEF LocksInit, LocksTypeOK, StoreTypeOK, Entries, NoCount, Absent, Held
<1>2. Named = {} /\ CachedIn(parsed) = {} /\ CachedIn(indexed) = {} /\ Counted = {}
  BY DEF LocksInit, Named, CachedIn, Counted
<1>3. IsFiniteSet({}) /\ Cardinality({}) = 0
  BY FS_EmptySet
<1>4. \A t \in Threads : thread[t] = Resting /\ holds[t] = {}
  BY DEF LocksInit
<1>5. \A t \in Threads : CallOK(thread[t]) /\ LockOK(thread[t], holds[t]) /\ CountOK(thread[t], stamp, commits)
  BY <1>4, RestingOK DEF CallOK, LockOK, CountOK, Looking, Indexing, Evicting, Writing, Clearing, LocksInit
<1>6. HeldOK
  BY <1>4, <1>5 DEF HeldOK, OneWriter
<1>7. CountsOK
  <2>1. EntriesOK
    BY DEF LocksInit, EntriesOK, NoCount, Absent
  <2>2. QED
    BY <1>5, <2>1 DEF CountsOK, LocksInit
<1>8. CapOK
  BY <1>2, <1>3, StoreLocksAssumption DEF CapOK, Finite, Small
<1>9. QED
  BY <1>1, <1>2, <1>3, <1>5, <1>6, <1>7, <1>8 DEF LocksIInv

LEMMA LocksStep == LocksIInv /\ [LocksNext]_lockVars => LocksIInv'
<1> SUFFICES ASSUME LocksIInv, [LocksNext]_lockVars PROVE LocksIInv'
  OBVIOUS
<1>1. ASSUME NEW t \in Threads,
             \/ CountsCached(t) \/ CountsBuild(t) \/ CountsSeen(t) \/ CountsScan(t) \/ CountsInsert(t)
             \/ EvictCounts(t) \/ DropLiveLock(t) \/ DropCountOnly(t) \/ CountsOut(t)
      PROVE  LocksIInv'
  BY <1>1, CountsCachedKeeps, CountsBuildKeeps, CountsSeenKeeps, CountsScanKeeps, CountsInsertKeeps,
     EvictCountsKeeps, DropLiveLockKeeps, DropCountOnlyKeeps, CountsOutKeeps
<1>2. ASSUME NEW t \in Threads,
             \/ LiveLoad(t) \/ LiveCached(t) \/ LiveCheck(t) \/ LiveInsert(t)
             \/ EvictCached(t) \/ EvictTermsOf(t) \/ EvictCountsOf(t)
      PROVE  LocksIInv'
  BY <1>2, LiveLoadKeeps, LiveCachedKeeps, LiveCheckKeeps, LiveInsertKeeps, EvictCachedKeeps,
     EvictTermsOfKeeps, EvictCountsOfKeeps
<1>3. ASSUME NEW t \in Threads,
             TermsCached(t) \/ TermsBuild(t) \/ TermsTake(t) \/ TermsInsert(t) \/ EvictTerms(t)
      PROVE  LocksIInv'
  BY <1>3, TermsCachedKeeps, TermsBuildKeeps, TermsTakeKeeps, TermsInsertKeeps, EvictTermsKeeps
<1>4. ASSUME NEW t \in Threads,
             \/ TakeWrites(t) \/ CommitWrite(t) \/ BumpStamp(t) \/ Patch(t)
             \/ ForgetLive(t) \/ ForgetTerms(t) \/ ForgetCounts(t) \/ ForgetUsed(t)
      PROVE  LocksIInv'
  BY <1>4, TakeWritesKeeps, CommitWriteKeeps, BumpStampKeeps, PatchKeeps, ForgetLiveKeeps,
     ForgetTermsKeeps, ForgetCountsKeeps, ForgetUsedKeeps
<1>5. CASE UNCHANGED lockVars
  BY <1>5 DEF lockVars, LocksIInv, LocksTypeOK, StoreTypeOK, Named, HeldOK, OneWriter, CountsOK, EntriesOK,
              CapOK, Finite, NoneAt, CachedIn, Counted
<1>6. QED
  BY <1>1, <1>2, <1>3, <1>4, <1>5, AskKeeps DEF LocksNext

\* At counts_out the scan is no older than the question; with every thread
\* at rest nobody evicts.
LEMMA LocksMeans == LocksIInv => LocksInv
<1> SUFFICES ASSUME LocksIInv PROVE LocksInv
  OBVIOUS
<1>1. NoCircle
  BY NoneInACircle DEF LocksIInv
<1>2. CountsAreFresh
  <2> SUFFICES ASSUME NEW t \in Threads, thread[t].pc = "counts_out"
               PROVE  thread[t].saw >= thread[t].floor
    BY DEF CountsAreFresh
  <2>1. thread[t].floor <= thread[t].saw /\ thread[t].floor \in Nat /\ thread[t].saw \in Int
    BY Here DEF CountOK, Calls
  <2>2. QED
    BY <2>1
<1>3. CachesHoldTheirCap
  BY DEF CachesHoldTheirCap, AtRest, LocksIInv, CapOK, NoneAt, Evicting, Small
<1>4. QED
  BY <1>1, <1>2, <1>3 DEF LocksInv

\* Whatever the threads ask for, no circle of them waits for one another's
\* locks, a status answers with counts no older than its question, and a
\* record store at rest keeps no more workspaces than its cap in any cache.
THEOREM LocksHold == LocksSpec => []LocksInv
<1>1. LocksSpec => []LocksIInv
  BY LocksStart, LocksStep, PTL DEF LocksSpec
<1>2. QED
  BY <1>1, LocksMeans, PTL
=============================================================================
