----------------------------- MODULE SeatsProofs -----------------------------
(***************************************************************************)
(* Seats for every number of seats, writers and directories: one writer on *)
(* the memories, the writer's token in their home, and the memories at the *)
(* home that is found; and one writer on any pack where nobody migrates.   *)
(***************************************************************************)
EXTENDS Seats, FiniteSetTheorems, TLAPS

-----------------------------------------------------------------------------
(* The inductive invariant. *)

\* The directory with the memories.
Full == CHOOSE d \in Dirs : TRUE

\* They are at the old path, or were moved to the new one; the old path is
\* then free, a link, or what a writer that came too late made there.
Before == at["old"] = Full /\ at["new"] # Full /\ (at["new"] # Absent => holds[at["new"]] = "nothing")
After  == at["new"] = Full /\ at["old"] # Full

DiskOK ==
  /\ \A d \in Dirs : holds[d] = "memories" <=> d = Full
  /\ Before \/ After

\* The path of a writer does not lead to the memories, and never will.
Behind(w) == home[w] = "old" /\ at["new"] = Full /\ at["old"] \in Dirs \ {Full}

\* A writer has locked the memories, or what was made in their old place.
HasLock(w) == lock[Full] = w \/ (Behind(w) /\ lock[at["old"]] = w)

Opened == {"open", "fresh", "token", "listens"}

\* How far a writer is says what it has.
WriterOK(w) ==
  /\ home[w] = Absent <=> proc[w] \in {"started", "exited"}
  /\ home[w] = "new" => at["new"] = Full
  /\ pack[w] \in Dirs <=> proc[w] \in Opened
  /\ proc[w] \in Opened \cup {"locked"} => HasLock(w)
  /\ pack[w] \in {Full, Absent} \/ (Behind(w) /\ pack[w] = at["old"])
  /\ pack[w] = Full => lock[Full] = w

\* The token of the writer on the memories is there, or its path is not.
TokenOK(w) ==
  proc[w] \in {"token", "listens"} /\ pack[w] = Full => token[Full] = mine[w] \/ Behind(w)

\* What the seats are at, and whom they wait for.
SeatsType ==
  /\ ended \in [Seat -> {"not", "up", "down", "failed"}]
  /\ child \in [Seat -> Writer \cup {Nobody}]
  /\ doing \in [Seat -> {"idle"} \cup Waiting \cup Moving]
  /\ \A s \in Seat : doing[s] = "poll" => child[s] # Nobody

SeatsIInv ==
  /\ TypeOK
  /\ DiskOK
  /\ \A w \in Writer : WriterOK(w) /\ TokenOK(w)

-----------------------------------------------------------------------------
LEMMA FullOK == Full \in Dirs /\ Full # Absent /\ Full # Link
<1>1. Dirs # {}
  <2>1. Dirs = {} => Cardinality(Dirs) = 0
    BY FS_EmptySet
  <2>2. QED
    BY <2>1, SeatsAssumption
<1>2. Full \in Dirs
  BY <1>1 DEF Full
<1>3. QED
  BY <1>2, SeatsAssumption

\* Two directories are in use at most, so there is another.
LEMMA AnotherDir ==
    ASSUME NEW d, NEW e
    PROVE  \E f \in Dirs : f # d /\ f # e
<1>1. IsFiniteSet({d, e}) /\ Cardinality({d, e}) <= 2
  <2>1. IsFiniteSet({d}) /\ Cardinality({d}) = 1
    BY FS_Singleton
  <2>2. IsFiniteSet({d} \cup {e}) /\ (e \in {d} => {d} \cup {e} = {d})
        /\ (e \notin {d} => Cardinality({d} \cup {e}) = Cardinality({d}) + 1)
    BY <2>1, FS_AddElement
  <2>3. {d} \cup {e} = {d, e}
    OBVIOUS
  <2>4. QED
    BY <2>1, <2>2, <2>3
<1>2. CASE Dirs \subseteq {d, e}
  <2>1. Cardinality(Dirs) <= Cardinality({d, e}) /\ Cardinality({d, e}) \in Nat /\ Cardinality(Dirs) \in Nat
    BY <1>1, <1>2, FS_Subset, FS_CardinalityType, SeatsAssumption
  <2>2. QED
    BY <1>1, <2>1, SeatsAssumption
<1>3. QED
  BY <1>2

\* The memories are where a seat looks for them.
LEMMA Found == SeatsIInv => MemoriesAreFound
<1> SUFFICES ASSUME SeatsIInv PROVE MemoriesAreFound
  OBVIOUS
<1>1. CASE Before
  BY <1>1, FullOK DEF SeatsIInv, DiskOK, Before, MemoriesAreFound, Resolve, IsVacant, DirAt, TypeOK, Link, Absent
<1>2. CASE After
  BY <1>2, FullOK DEF SeatsIInv, DiskOK, After, MemoriesAreFound, Resolve, IsVacant, DirAt, TypeOK, Link, Absent
<1>3. QED
  BY <1>1, <1>2 DEF SeatsIInv, DiskOK

LEMMA SeatsMeans == SeatsIInv => Inv
<1> SUFFICES ASSUME SeatsIInv PROVE Inv
  OBVIOUS
<1>1. \A w \in Writer : pack[w] # Absent => pack[w] \in Dirs
  BY DEF SeatsIInv, TypeOK
<1>2. \A w \in Writer : pack[w] # Absent /\ holds[pack[w]] = "memories" => pack[w] = Full
  BY <1>1 DEF SeatsIInv, DiskOK
<1>3. MemoriesHaveOneWriter
  BY <1>2 DEF SeatsIInv, WriterOK, MemoriesHaveOneWriter
<1>4. TwoOnlyOvertaken
  <2> SUFFICES ASSUME NEW v \in Writer, NEW w \in Writer, v # w, pack[v] = pack[w], pack[v] # Absent
               PROVE  \E d \in Dirs \ {pack[v]} : holds[d] = "memories" /\ lock[d] \in {v, w}
    BY DEF TwoOnlyOvertaken
  <2>1. pack[v] # Full
    BY DEF SeatsIInv, WriterOK
  <2>2. pack[v] = at["old"] /\ HasLock(v) /\ HasLock(w)
    BY <1>1, <2>1 DEF SeatsIInv, WriterOK
  <2>3. lock[Full] \in {v, w}
    BY <2>2 DEF HasLock
  <2>4. holds[Full] = "memories"
    BY FullOK DEF SeatsIInv, DiskOK
  <2>5. QED
    BY <2>1, <2>3, <2>4, FullOK
<1>5. TokenIsTheWriters
  <2> SUFFICES ASSUME NEW w \in Writer, proc[w] \in {"token", "listens"}, pack[w] = DirAt(home[w]), holds[pack[w]] = "memories"
               PROVE  token[pack[w]] = mine[w]
    BY DEF TokenIsTheWriters
  <2>1. pack[w] \in Dirs
    BY DEF SeatsIInv, WriterOK, Opened
  <2>2. pack[w] = Full
    BY <2>1 DEF SeatsIInv, DiskOK
  <2>3. ~ Behind(w)
    BY <2>2, SeatsAssumption DEF Behind, DirAt
  <2>4. QED
    BY <2>2, <2>3 DEF SeatsIInv, TokenOK
<1>6. QED
  BY <1>3, <1>4, <1>5 DEF Inv, SeatsIInv

\* Where a writer makes its home: at its path, where nothing is only at the
\* old one after the move.
LEMMA MadeWhere ==
    ASSUME SeatsIInv, NEW w \in Writer, home[w] \in Paths, Make(w)
    PROVE  /\ Made(w) \in Dirs
           /\ at' \in [Paths -> Dirs \cup {Link, Absent}] /\ at'["new"] = at["new"]
           /\ at' = at \/ (After /\ at["old"] = Absent /\ at'["old"] \in Dirs \ {Full})
           /\ Made(w) = Full \/ (home[w] = "old" /\ After /\ at'["old"] = Made(w))
           /\ at["old"] \in Dirs \ {Full} /\ home[w] = "old" => Made(w) = at["old"]
<1>1. at \in [Paths -> Dirs \cup {Link, Absent}] /\ at["new"] # Link /\ {"old", "new"} = Paths
  BY DEF SeatsIInv, TypeOK, Paths
<1>2. home[w] = "new" => at["new"] = Full
  BY DEF SeatsIInv, WriterOK
<1>3. Absent \notin Dirs /\ Link \notin Dirs
  BY SeatsAssumption
<1>4. CASE DirAt(home[w]) # Absent
  <2>1. Made(w) = DirAt(home[w]) /\ at' = at
    BY <1>4 DEF Made, Make
  <2>2. CASE Before
    BY <1>1, <1>2, <1>3, <1>4, <2>1, <2>2, FullOK DEF Before, DirAt, Paths
  <2>3. CASE After
    BY <1>1, <1>2, <1>3, <1>4, <2>1, <2>3, FullOK DEF After, DirAt, Paths
  <2>4. QED
    BY <2>2, <2>3 DEF SeatsIInv, DiskOK
<1>5. CASE DirAt(home[w]) = Absent
  <2>1. Made(w) = CHOOSE d \in Unused : TRUE
    BY <1>5 DEF Made
  <2>2. at' = [at EXCEPT ![home[w]] = Made(w)]
    BY <1>5 DEF Make
  <2>3. After /\ home[w] = "old" /\ at["old"] = Absent
    BY <1>1, <1>2, <1>5, FullOK DEF SeatsIInv, DiskOK, Before, After, DirAt, Paths, Absent, Link
  <2>4. PICK f \in Dirs : f # Full /\ f # at["old"]
    BY AnotherDir
  <2>5. \A v \in Writer : pack[v] \in {Full, Absent}
    BY <1>3, <2>3 DEF SeatsIInv, WriterOK, Behind
  <2>6. f \in Unused
    BY <1>1, <1>3, <2>3, <2>4, <2>5 DEF Unused, After, Paths
  <2>7. Made(w) \in Dirs /\ Made(w) # Full
    BY <1>1, <2>1, <2>3, <2>6 DEF Unused, After, Paths
  <2>8. at' \in [Paths -> Dirs \cup {Link, Absent}] /\ at'["new"] = at["new"] /\ at'["old"] = Made(w)
    BY <1>1, <2>2, <2>3, <2>7 DEF Paths
  <2>9. QED
    BY <1>3, <2>3, <2>7, <2>8
<1>6. QED
  BY <1>4, <1>5

\* What another writer does, on the disk and to a lock that is not one's own,
\* leaves a writer with what it has.
LEMMA OthersKeep ==
    ASSUME SeatsIInv, NEW v \in Writer,
           at'["new"] = at["new"], at["old"] \in Dirs => at'["old"] = at["old"],
           \A d \in Dirs : lock[d] = v => lock'[d] = v,
           token'[Full] = token[Full] \/ lock[Full] # v,
           home'[v] = home[v], pack'[v] = pack[v], mine'[v] = mine[v], proc'[v] = proc[v]
    PROVE  WriterOK(v)' /\ TokenOK(v)'
<1>1. Behind(v) => Behind(v)' /\ at'["old"] = at["old"] /\ at["old"] \in Dirs
  BY DEF Behind
<1>2. HasLock(v) => HasLock(v)'
  BY <1>1, FullOK DEF HasLock
<1>3. WriterOK(v)'
  BY <1>1, <1>2, FullOK DEF SeatsIInv, WriterOK
<1>4. TokenOK(v)'
  BY <1>1 DEF SeatsIInv, WriterOK, TokenOK
<1>5. QED
  BY <1>3, <1>4

-----------------------------------------------------------------------------
(* The start, and the steps that only move a seat. *)

LEMMA SeatsStart == Init => SeatsIInv
<1> SUFFICES ASSUME Init PROVE SeatsIInv
  OBVIOUS
<1>1. PICK full \in Dirs, empty \in Dirs :
        /\ full # empty
        /\ full = CHOOSE d \in Dirs : TRUE
        /\ at \in {[p \in Paths |-> IF p = "old" THEN full ELSE Absent],
                   [p \in Paths |-> IF p = "old" THEN full ELSE empty],
                   [p \in Paths |-> IF p = "new" THEN full ELSE Absent]}
        /\ holds = [d \in Dirs |-> IF d = full THEN "memories" ELSE "nothing"]
  BY DEF Init
<1>2. full = Full
  BY <1>1 DEF Full
<1>3. /\ at \in [Paths -> Dirs \cup {Link, Absent}] /\ at["new"] # Link
      /\ holds \in [Dirs -> {"nothing", "memories", "fresh"}]
  BY <1>1, SeatsAssumption DEF Paths, Link, Absent
<1>4. lock \in [Dirs -> Writer \cup Seat \cup {Nobody, NoFile}]
  BY DEF Init
<1>5. TypeOK
  BY <1>3, <1>4 DEF TypeOK, Init, Nobody, Absent
<1>6. DiskOK
  BY <1>1, <1>2, FullOK DEF DiskOK, Before, After, Paths, Absent
<1>7. \A w \in Writer : WriterOK(w) /\ TokenOK(w)
  BY SeatsAssumption DEF WriterOK, TokenOK, Opened, Init, Absent
<1>8. QED
  BY <1>5, <1>6, <1>7 DEF SeatsIInv

\* A step of a seat that changes nothing but how far it is, and who it
\* waits for.
LEMMA SeatMoves ==
    ASSUME SeatsIInv, UNCHANGED <<at, holds, token, port, proc, home, pack, mine, upset>>,
           lock' \in [Dirs -> Writer \cup Seat \cup {Nobody, NoFile}],
           \A d \in Dirs : lock[d] \in Writer => lock'[d] = lock[d],
           NEW s \in Seat, NEW step, NEW how, NEW kid,
           doing' = [doing EXCEPT ![s] = step], ended' = [ended EXCEPT ![s] = how], child' \in {child, [child EXCEPT ![s] = kid]},
           step \in ({"idle"} \cup Waiting \cup Moving) \ {"poll"},
           how \in {"not", "up", "down", "failed"}, kid = Nobody
    PROVE  SeatsIInv'
<1>1. child' \in [Seat -> Writer \cup {Nobody}] /\ \A t \in Seat \ {s} : child'[t] = child[t]
  BY DEF SeatsIInv, TypeOK, Nobody
<1>2. doing' \in [Seat -> {"idle"} \cup Waiting \cup Moving]
      /\ doing'[s] # "poll" /\ \A t \in Seat \ {s} : doing'[t] = doing[t]
  BY DEF SeatsIInv, TypeOK
<1>3. ended' \in [Seat -> {"not", "up", "down", "failed"}]
  BY DEF SeatsIInv, TypeOK
<1>4. TypeOK'
  BY <1>1, <1>2, <1>3 DEF SeatsIInv, TypeOK
<1>5. DiskOK'
  BY DEF SeatsIInv, DiskOK, Before, After
<1>6. \A v \in Writer : WriterOK(v)' /\ TokenOK(v)'
  BY OthersKeep
<1>7. QED
  BY <1>4, <1>5, <1>6 DEF SeatsIInv

LEMMA LockType == SeatsIInv => lock \in [Dirs -> Writer \cup Seat \cup {Nobody, NoFile}]
  BY DEF SeatsIInv, TypeOK

LEMMA StepsAside ==
    ASSUME SeatsIInv, NEW s \in Seat,
           Verb(s) \/ Ensure(s) \/ Poll(s) \/ Sibling(s) \/ Health(s) \/ Deadline(s) \/ Stop(s) \/ Free(s) \/ Migrate(s)
    PROVE  SeatsIInv'
<1> USE LockType DEF disk, procs, To, End, Nobody, Waiting, Moving
<1>1. CASE Verb(s)
  <2>1. PICK verb \in {"ensure", "stop", "migrate"} : To(s, verb)
    BY <1>1 DEF Verb
  <2>2. QED
    BY <1>1, <2>1, SeatMoves DEF Verb
<1>2. CASE Ensure(s)
  BY <1>2, SeatMoves DEF Ensure
<1>3. CASE Poll(s)
  <2>1. CASE Up(s, "health")
    BY <2>1, SeatMoves DEF Up
  <2>2. QED
    BY <1>3, <2>1, SeatMoves DEF Poll
<1>4. CASE Sibling(s)
  BY <1>4, SeatMoves DEF Sibling, Up
<1>5. CASE Health(s)
  BY <1>5, SeatMoves DEF Health
<1>6. CASE Deadline(s)
  BY <1>6, SeatMoves DEF Deadline
<1>7. CASE Stop(s)
  BY <1>7, SeatMoves DEF Stop
<1>8. CASE Free(s)
  BY <1>8, SeatMoves DEF Free
<1>9. CASE Migrate(s)
  BY <1>9, SeatMoves DEF Migrate
<1>10. QED
  BY <1>1, <1>2, <1>3, <1>4, <1>5, <1>6, <1>7, <1>8, <1>9

\* A writer starts: it has nothing yet.
LEMMA StartOK == ASSUME SeatsIInv, NEW s \in Seat, Start(s) PROVE SeatsIInv'
<1>1. CASE Listening
  BY <1>1, SeatMoves, LockType DEF Start, disk, To, End, Waiting, Moving
<1>2. CASE ~ Listening
  <2>1. PICK w \in Writer : Spawn(s, w)
    BY <1>2 DEF Start
  <2>2. UNCHANGED <<at, holds, lock, token, port, home, pack, mine, upset>>
    BY DEF Start, disk
  <2>3. proc[w] = "exited" /\ proc' = [proc EXCEPT ![w] = "started"] /\ child' = [child EXCEPT ![s] = w]
        /\ doing' = [doing EXCEPT ![s] = "poll"] /\ ended' = [ended EXCEPT ![s] = "not"]
    BY <2>1 DEF Spawn, To
  <2>4. proc' \in [Writer -> Starting \cup {"started", "listens", "exited"}]
        /\ proc'[w] = "started" /\ \A v \in Writer \ {w} : proc'[v] = proc[v]
    BY <2>3 DEF SeatsIInv, TypeOK
  <2>5. child' \in [Seat -> Writer \cup {Nobody}] /\ child'[s] = w /\ \A t \in Seat \ {s} : child'[t] = child[t]
    BY <2>3 DEF SeatsIInv, TypeOK
  <2>6. doing' \in [Seat -> {"idle"} \cup Waiting \cup Moving]
        /\ \A t \in Seat \ {s} : doing'[t] = doing[t]
    BY <2>3 DEF SeatsIInv, TypeOK, Waiting
  <2>7. ended' \in [Seat -> {"not", "up", "down", "failed"}]
    BY <2>3 DEF SeatsIInv, TypeOK
  <2>8. w # Nobody
    BY SeatsAssumption DEF Nobody
  <2>9. TypeOK'
    BY <2>2, <2>4, <2>5, <2>6, <2>7, <2>8 DEF SeatsIInv, TypeOK
  <2>10. \A v \in Writer \ {w} : WriterOK(v)' /\ TokenOK(v)'
    BY <2>2, <2>4, OthersKeep
  <2>11. WriterOK(w)' /\ TokenOK(w)'
    BY <2>2, <2>3, <2>4 DEF SeatsIInv, WriterOK, TokenOK, Opened, Behind
  <2>12. DiskOK'
    BY <2>2 DEF SeatsIInv, DiskOK, Before, After
  <2>13. QED
    BY <2>9, <2>10, <2>11, <2>12 DEF SeatsIInv
<1>3. QED
  BY <1>1, <1>2

-----------------------------------------------------------------------------
(* The steps of a writer. *)

\* Before the move the old home is resolved.
LEMMA ResolvesOK == ASSUME SeatsIInv, NEW w \in Writer, WriterResolves(w) PROVE SeatsIInv'
<1>1. UNCHANGED <<at, holds, lock, token, port, pack, mine, doing, child, ended, upset>> /\ proc[w] = "started"
  BY DEF WriterResolves, disk, seats
<1>2. Resolve \in Paths /\ (Before => Resolve = "old")
  BY FullOK DEF Resolve, IsVacant, Before, DirAt, Paths
<1>3. /\ home' \in [Writer -> Paths \cup {Absent}] /\ home'[w] = Resolve
      /\ \A v \in Writer \ {w} : home'[v] = home[v]
  BY <1>2 DEF WriterResolves, SeatsIInv, TypeOK
<1>4. /\ proc' \in [Writer -> Starting \cup {"started", "listens", "exited"}]
      /\ proc'[w] = "resolved" /\ \A v \in Writer \ {w} : proc'[v] = proc[v]
  BY DEF WriterResolves, SeatsIInv, TypeOK, Starting
<1>5. TypeOK'
  BY <1>1, <1>3, <1>4 DEF SeatsIInv, TypeOK
<1>6. pack[w] = Absent
  BY <1>1 DEF SeatsIInv, WriterOK, TypeOK, Opened
<1>7. DiskOK'
  BY <1>1 DEF SeatsIInv, DiskOK, Before, After
<1>8. \A v \in Writer \ {w} : WriterOK(v)' /\ TokenOK(v)'
  BY <1>1, <1>3, <1>4, OthersKeep
<1>9. WriterOK(w)' /\ TokenOK(w)'
  <2>1. home'[w] # Absent
    BY <1>2, <1>3 DEF Paths, Absent
  <2>2. home'[w] = "new" => at["new"] = Full
    BY <1>2, <1>3 DEF SeatsIInv, DiskOK, After
  <2>3. QED
    BY <1>1, <1>4, <1>6, <2>1, <2>2, FullOK, SeatsAssumption DEF WriterOK, TokenOK, Opened
<1>10. QED
  BY <1>5, <1>7, <1>8, <1>9 DEF SeatsIInv

\* A writer that ends lets go of what is its own, and of nothing else.
LEMMA ExitOK ==
    ASSUME SeatsIInv, NEW w \in Writer, Exit(w),
           lock' \in {[d \in Dirs |-> IF lock[d] = w THEN Nobody ELSE lock[d]], lock},
           UNCHANGED <<at, holds, token>>, SeatsType',
           port' \in Writer \cup {Other, Nobody}, upset' \in BOOLEAN
    PROVE  SeatsIInv'
<1>1. /\ home' \in [Writer -> Paths \cup {Absent}] /\ pack' \in [Writer -> Dirs \cup {Absent}]
      /\ mine' \in [Writer -> {0} \cup Tokens]
      /\ proc' \in [Writer -> Starting \cup {"started", "listens", "exited"}]
      /\ home'[w] = Absent /\ pack'[w] = Absent /\ proc'[w] = "exited"
      /\ \A v \in Writer \ {w} : home'[v] = home[v] /\ pack'[v] = pack[v] /\ mine'[v] = mine[v] /\ proc'[v] = proc[v]
  BY DEF Exit, SeatsIInv, TypeOK
<1>2. lock' \in [Dirs -> Writer \cup Seat \cup {Nobody, NoFile}] /\ \A d \in Dirs : lock[d] # w => lock'[d] = lock[d]
  BY DEF SeatsIInv, TypeOK
<1>3. TypeOK'
  BY <1>1, <1>2 DEF SeatsIInv, SeatsType, TypeOK
<1>4. DiskOK'
  BY DEF SeatsIInv, DiskOK, Before, After
<1>5. \A v \in Writer \ {w} : WriterOK(v)' /\ TokenOK(v)'
  BY <1>1, <1>2, OthersKeep
<1>6. WriterOK(w)' /\ TokenOK(w)'
  BY <1>1, FullOK, SeatsAssumption DEF WriterOK, TokenOK, Opened, Absent
<1>7. QED
  BY <1>3, <1>4, <1>5, <1>6 DEF SeatsIInv

\* A writer that makes a home, fills it, and goes a step.
LEMMA MakesOK ==
    ASSUME SeatsIInv, NEW w \in Writer, home[w] \in Paths, Make(w),
           holds' \in {holds, [holds EXCEPT ![Made(w)] = IF @ = "nothing" THEN "fresh" ELSE @]}
    PROVE  /\ at' \in [Paths -> Dirs \cup {Link, Absent}] /\ at'["new"] = at["new"]
           /\ at["old"] \in Dirs => at'["old"] = at["old"]
           /\ holds' \in [Dirs -> {"nothing", "memories", "fresh"}]
           /\ DiskOK'
<1>1. /\ at' \in [Paths -> Dirs \cup {Link, Absent}] /\ at'["new"] = at["new"] /\ Made(w) \in Dirs
      /\ at' = at \/ (After /\ at["old"] = Absent /\ at'["old"] \in Dirs \ {Full})
      /\ Made(w) = Full \/ After
  BY MadeWhere
<1>2. at["old"] \in Dirs => at'["old"] = at["old"]
  BY <1>1, SeatsAssumption
<1>3. holds' \in [Dirs -> {"nothing", "memories", "fresh"}]
      /\ \A d \in Dirs : (holds'[d] = "memories" <=> holds[d] = "memories") /\ (d # Made(w) => holds'[d] = holds[d])
  BY <1>1 DEF SeatsIInv, TypeOK
<1>4. DiskOK'
  <2>1. CASE After
    BY <1>1, <1>3, <2>1, FullOK DEF SeatsIInv, DiskOK, After
  <2>2. CASE Before
    <3>1. at' = at /\ Made(w) = Full
      BY <1>1, <2>2 DEF Before, After
    <3>2. at["new"] # Absent => at["new"] \in Dirs
      BY DEF SeatsIInv, TypeOK, Paths
    <3>3. QED
      BY <1>3, <2>2, <3>1, <3>2 DEF SeatsIInv, DiskOK, Before
  <2>3. QED
    BY <2>1, <2>2 DEF SeatsIInv, DiskOK
<1>5. QED
  BY <1>1, <1>2, <1>3, <1>4

LEMMA MakesHomeOK == ASSUME SeatsIInv, NEW w \in Writer, WriterMakesHome(w) PROVE SeatsIInv'
<1>1. proc[w] = "resolved" /\ Make(w) /\ UNCHANGED <<holds, lock, token, port, home, pack, mine, doing, child, ended, upset>>
  BY DEF WriterMakesHome, seats
<1>2. home[w] \in Paths /\ pack[w] = Absent
  BY <1>1 DEF SeatsIInv, WriterOK, TypeOK, Opened
<1>3. /\ proc' \in [Writer -> Starting \cup {"started", "listens", "exited"}]
      /\ proc'[w] = "made" /\ \A v \in Writer \ {w} : proc'[v] = proc[v]
  BY DEF WriterMakesHome, Goes, SeatsIInv, TypeOK, Starting
<1>4. /\ at' \in [Paths -> Dirs \cup {Link, Absent}] /\ at'["new"] = at["new"]
      /\ at["old"] \in Dirs => at'["old"] = at["old"]
      /\ DiskOK'
  BY <1>1, <1>2, MakesOK
<1>5. TypeOK'
  BY <1>1, <1>3, <1>4 DEF SeatsIInv, TypeOK
<1>6. \A v \in Writer \ {w} : WriterOK(v)' /\ TokenOK(v)'
  BY <1>1, <1>3, <1>4, OthersKeep
<1>7. WriterOK(w)' /\ TokenOK(w)'
  BY <1>1, <1>2, <1>3, <1>4, FullOK DEF SeatsIInv, WriterOK, TokenOK, Opened
<1>8. QED
  BY <1>4, <1>5, <1>6, <1>7 DEF SeatsIInv

\* What a writer locks is the memories, or what is at the old path for good.
LEMMA LocksOK == ASSUME SeatsIInv, NEW w \in Writer, WriterLocks(w) PROVE SeatsIInv'
<1> DEFINE d == DirAt(home[w])
<1>1. proc[w] = "made" /\ UNCHANGED <<at, token, port, doing, child, ended>>
  BY DEF WriterLocks, seats
<1>2. home[w] \in Paths /\ pack[w] = Absent
  BY <1>1 DEF SeatsIInv, WriterOK, TypeOK, Opened
<1>3. CASE d # Absent /\ lock[d] \in {Nobody, NoFile} /\ Locks(w, d) /\ UNCHANGED upset
  <2>1. Make(w)
    <3>1. at' = at
      BY <1>1
    <3>2. QED
      BY <1>3, <3>1 DEF Make
  <2>2. Made(w) = d
    BY <1>3 DEF Made
  <2>3. /\ d \in Dirs
        /\ d = Full \/ (home[w] = "old" /\ After /\ at["old"] = d)
    BY <1>1, <1>2, <2>1, <2>2, MadeWhere
  <2>4. UNCHANGED <<home, pack, mine, upset>> /\ holds' = [holds EXCEPT ![d] = IF @ = "nothing" THEN "fresh" ELSE @]
    BY <1>3 DEF Locks, Filled
  <2>5. DiskOK' /\ holds' \in [Dirs -> {"nothing", "memories", "fresh"}]
    BY <1>2, <2>1, <2>2, <2>4, MakesOK
  <2>6. /\ lock' \in [Dirs -> Writer \cup Seat \cup {Nobody, NoFile}] /\ lock'[d] = w
        /\ \A e \in Dirs : lock[e] \in Writer => lock'[e] = lock[e]
    BY <1>3, <2>3, SeatsAssumption DEF Locks, SeatsIInv, TypeOK, Nobody, NoFile
  <2>7. /\ proc' \in [Writer -> Starting \cup {"started", "listens", "exited"}]
        /\ proc'[w] = "locked" /\ \A v \in Writer \ {w} : proc'[v] = proc[v]
    BY <1>3 DEF Locks, Goes, SeatsIInv, TypeOK, Starting
  <2>8. TypeOK'
    BY <1>1, <2>4, <2>5, <2>6, <2>7 DEF SeatsIInv, TypeOK
  <2>9. \A v \in Writer \ {w} : WriterOK(v)' /\ TokenOK(v)'
    BY <1>1, <2>4, <2>6, <2>7, OthersKeep
  <2>10. HasLock(w)'
    BY <1>1, <2>3, <2>4, <2>6 DEF HasLock, Behind, After
  <2>11. WriterOK(w)' /\ TokenOK(w)'
    BY <1>1, <1>2, <2>4, <2>7, <2>10, FullOK DEF SeatsIInv, WriterOK, TokenOK, Opened
  <2>12. QED
    BY <2>5, <2>8, <2>9, <2>11 DEF SeatsIInv
<1>4. CASE Exit(w) /\ UNCHANGED <<holds, lock>> /\ upset' \in BOOLEAN
  BY <1>1, <1>4, ExitOK DEF SeatsIInv, SeatsType, TypeOK
<1>5. upset \in BOOLEAN
  BY DEF SeatsIInv, TypeOK
<1>6. QED
  BY <1>3, <1>4, <1>5 DEF WriterLocks

\* The memories are opened by the writer that locked them.
LEMMA OpensOK == ASSUME SeatsIInv, NEW w \in Writer, WriterOpens(w) PROVE SeatsIInv'
<1>1. proc[w] = "locked" /\ Make(w) /\ UNCHANGED <<lock, token, port, home, mine, doing, child, ended, upset>>
      /\ holds' = [holds EXCEPT ![Made(w)] = IF @ = "nothing" THEN "fresh" ELSE @]
  BY DEF WriterOpens, Filled, seats
<1>2. home[w] \in Paths /\ HasLock(w)
  BY <1>1 DEF SeatsIInv, WriterOK, TypeOK, Opened
<1>3. /\ Made(w) \in Dirs
      /\ Made(w) = Full \/ (home[w] = "old" /\ After /\ at'["old"] = Made(w))
      /\ at["old"] \in Dirs \ {Full} /\ home[w] = "old" => Made(w) = at["old"]
  BY <1>1, <1>2, MadeWhere
<1>4. /\ at' \in [Paths -> Dirs \cup {Link, Absent}] /\ at'["new"] = at["new"]
      /\ at["old"] \in Dirs => at'["old"] = at["old"]
      /\ holds' \in [Dirs -> {"nothing", "memories", "fresh"}]
      /\ DiskOK'
  BY <1>1, <1>2, MakesOK
<1>5. /\ pack' \in [Writer -> Dirs \cup {Absent}] /\ pack'[w] = Made(w)
      /\ proc' \in [Writer -> Starting \cup {"started", "listens", "exited"}] /\ proc'[w] = "open"
      /\ \A v \in Writer \ {w} : pack'[v] = pack[v] /\ proc'[v] = proc[v]
  BY <1>3 DEF WriterOpens, Goes, SeatsIInv, TypeOK, Starting
<1>6. TypeOK'
  BY <1>1, <1>4, <1>5 DEF SeatsIInv, TypeOK
<1>7. \A v \in Writer \ {w} : WriterOK(v)' /\ TokenOK(v)'
  BY <1>1, <1>4, <1>5, OthersKeep
<1>8. WriterOK(w)'
  <2>1. HasLock(w)'
    BY <1>1, <1>2, <1>4 DEF HasLock, Behind
  <2>2. Made(w) = Full => lock[Full] = w
    BY <1>2, <1>3 DEF HasLock, Behind
  <2>3. Made(w) # Full => Behind(w)' /\ Made(w) = at'["old"]
    BY <1>1, <1>3, <1>4 DEF Behind, After
  <2>4. home'[w] # Absent /\ (home'[w] = "new" => at'["new"] = Full)
    BY <1>1, <1>2, <1>4 DEF SeatsIInv, WriterOK, Paths, Absent
  <2>5. QED
    BY <1>1, <1>3, <1>5, <2>1, <2>2, <2>3, <2>4 DEF WriterOK, Opened
<1>9. TokenOK(w)'
  BY <1>5 DEF TokenOK
<1>10. QED
  BY <1>4, <1>6, <1>7, <1>8, <1>9 DEF SeatsIInv

\* A writer that has the pack open goes a step on.
LEMMA StaysOpen ==
    ASSUME SeatsIInv, NEW w \in Writer, proc[w] \in Opened, proc'[w] \in Opened,
           UNCHANGED <<lock, home, pack>>,
           at'["new"] = at["new"], at["old"] \in Dirs => at'["old"] = at["old"]
    PROVE  WriterOK(w)'
<1>1. Behind(w) => Behind(w)' /\ at'["old"] = at["old"]
  BY DEF Behind
<1>2. HasLock(w)'
  BY <1>1 DEF SeatsIInv, WriterOK, HasLock
<1>3. QED
  BY <1>1, <1>2 DEF SeatsIInv, WriterOK, Opened

LEMMA ReadsTokenOK == ASSUME SeatsIInv, NEW w \in Writer, WriterReadsToken(w) PROVE SeatsIInv'
<1>1. proc[w] = "open" /\ Make(w) /\ UNCHANGED <<holds, lock, token, port, home, pack, doing, child, ended, upset>>
  BY DEF WriterReadsToken, seats
<1>2. home[w] \in Paths
  BY <1>1 DEF SeatsIInv, WriterOK, TypeOK
<1>3. /\ Made(w) \in Dirs
      /\ Made(w) = Full \/ (home[w] = "old" /\ After /\ at'["old"] = Made(w))
  BY <1>1, <1>2, MadeWhere
<1>4. /\ at' \in [Paths -> Dirs \cup {Link, Absent}] /\ at'["new"] = at["new"]
      /\ at["old"] \in Dirs => at'["old"] = at["old"]
      /\ DiskOK'
  BY <1>1, <1>2, MakesOK
<1>5. /\ mine' \in [Writer -> {0} \cup Tokens] /\ mine'[w] = token[Made(w)]
      /\ \A v \in Writer \ {w} : mine'[v] = mine[v]
  BY <1>3 DEF WriterReadsToken, SeatsIInv, TypeOK
<1>6. /\ proc' \in [Writer -> Starting \cup {"started", "listens", "exited"}] /\ proc'[w] \in {"token", "fresh"}
      /\ \A v \in Writer \ {w} : proc'[v] = proc[v]
  BY DEF WriterReadsToken, Goes, SeatsIInv, TypeOK, Starting
<1>7. TypeOK'
  BY <1>1, <1>4, <1>5, <1>6 DEF SeatsIInv, TypeOK
<1>8. \A v \in Writer \ {w} : WriterOK(v)' /\ TokenOK(v)'
  BY <1>1, <1>4, <1>5, <1>6, OthersKeep
<1>9. WriterOK(w)'
  BY <1>1, <1>4, <1>6, StaysOpen DEF Opened
<1>10. TokenOK(w)'
  BY <1>1, <1>3, <1>4, <1>5 DEF TokenOK, Behind, After
<1>11. QED
  BY <1>4, <1>7, <1>8, <1>9, <1>10 DEF SeatsIInv

\* Only the writer that locked the memories writes a token beside them.
LEMMA TokensOK == ASSUME SeatsIInv, NEW w \in Writer, WriterTokens(w) PROVE SeatsIInv'
<1> DEFINE d == DirAt(home[w])
<1>1. proc[w] = "fresh" /\ UNCHANGED <<at, port, doing, child, ended>>
  BY DEF WriterTokens, seats
<1>2. home[w] \in Paths
  BY <1>1 DEF SeatsIInv, WriterOK, TypeOK
<1>3. ASSUME d # Absent, UNCHANGED <<lock, home, pack, upset>>, Filled(d), Goes(w, "token"),
             NEW t \in Tokens, token' = [token EXCEPT ![d] = t], mine' = [mine EXCEPT ![w] = t]
      PROVE  SeatsIInv'
  <2>1. Make(w)
    <3>1. at' = at
      BY <1>1
    <3>2. QED
      BY <1>3, <3>1 DEF Make
  <2>2. Made(w) = d
    BY <1>3 DEF Made
  <2>3. /\ d \in Dirs
        /\ d = Full \/ (home[w] = "old" /\ After /\ at["old"] = d)
        /\ at["old"] \in Dirs \ {Full} /\ home[w] = "old" => d = at["old"]
    BY <1>1, <1>2, <2>1, <2>2, MadeWhere
  <2>4. DiskOK' /\ holds' \in [Dirs -> {"nothing", "memories", "fresh"}]
    BY <1>2, <1>3, <2>1, <2>2, MakesOK DEF Filled
  <2>5. /\ token' \in [Dirs -> {0} \cup Tokens] /\ token'[d] = t
        /\ \A e \in Dirs \ {d} : token'[e] = token[e]
    BY <1>3, <2>3 DEF SeatsIInv, TypeOK
  <2>6. /\ mine' \in [Writer -> {0} \cup Tokens] /\ mine'[w] = t
        /\ \A v \in Writer \ {w} : mine'[v] = mine[v]
    BY <1>3 DEF SeatsIInv, TypeOK
  <2>7. /\ proc' \in [Writer -> Starting \cup {"started", "listens", "exited"}] /\ proc'[w] = "token"
        /\ \A v \in Writer \ {w} : proc'[v] = proc[v]
    BY <1>3 DEF Goes, SeatsIInv, TypeOK, Starting
  <2>8. TypeOK'
    BY <1>1, <1>3, <2>4, <2>5, <2>6, <2>7 DEF SeatsIInv, TypeOK
  <2>9. d = Full => lock[Full] = w
    BY <1>1, <2>3 DEF SeatsIInv, WriterOK, HasLock, Behind, Opened
  <2>10. \A v \in Writer \ {w} : WriterOK(v)' /\ TokenOK(v)'
    BY <1>1, <1>3, <2>5, <2>6, <2>7, <2>9, FullOK, OthersKeep
  <2>11. WriterOK(w)'
    BY <1>1, <1>3, <2>7, StaysOpen DEF Opened
  <2>12. TokenOK(w)'
    BY <1>1, <1>3, <2>3, <2>5, <2>6 DEF TokenOK, Behind, After
  <2>13. QED
    BY <2>4, <2>8, <2>10, <2>11, <2>12 DEF SeatsIInv
<1>4. CASE Exit(w) /\ LetGo(w) /\ upset' = TRUE /\ UNCHANGED <<holds, token>>
  BY <1>1, <1>4, ExitOK DEF LetGo, SeatsIInv, SeatsType, TypeOK
<1>5. QED
  BY <1>3, <1>4 DEF WriterTokens

LEMMA BindsOK == ASSUME SeatsIInv, NEW w \in Writer, WriterBinds(w) PROVE SeatsIInv'
<1>1. UNCHANGED <<at, holds, token, doing, child, ended, upset>>
  BY DEF WriterBinds, seats
<1>2. CASE Listening
  BY <1>1, <1>2, ExitOK DEF WriterBinds, LetGo, SeatsIInv, SeatsType, TypeOK
<1>3. CASE ~ Listening
  <2>1. port' = w /\ UNCHANGED <<home, pack, mine, lock>> /\ proc[w] = "token"
    BY <1>3 DEF WriterBinds
  <2>2. proc' \in [Writer -> Starting \cup {"started", "listens", "exited"}]
        /\ proc'[w] = "listens" /\ \A v \in Writer \ {w} : proc'[v] = proc[v]
    BY <1>3 DEF WriterBinds, SeatsIInv, TypeOK
  <2>3. TypeOK'
    BY <1>1, <2>1, <2>2 DEF SeatsIInv, TypeOK
  <2>4. \A v \in Writer \ {w} : WriterOK(v)' /\ TokenOK(v)'
    BY <1>1, <2>1, <2>2, OthersKeep
  <2>5. WriterOK(w)'
    BY <1>1, <2>1, <2>2, StaysOpen DEF Opened
  <2>6. TokenOK(w)'
    BY <1>1, <2>1 DEF SeatsIInv, TokenOK, Behind
  <2>7. DiskOK'
    BY <1>1 DEF SeatsIInv, DiskOK, Before, After
  <2>8. QED
    BY <2>3, <2>4, <2>5, <2>6, <2>7 DEF SeatsIInv
<1>4. QED
  BY <1>2, <1>3

LEMMA DiesOK == ASSUME SeatsIInv, NEW w \in Writer, WriterDies(w) PROVE SeatsIInv'
<1>1. Exit(w) /\ LetGo(w) /\ UNCHANGED <<at, holds, token, doing, child, ended>>
  BY DEF WriterDies, Ends, seats
<1>2. port' \in Writer \cup {Other, Nobody} /\ upset' \in BOOLEAN
  BY DEF WriterDies, Ends, SeatsIInv, TypeOK
<1>3. QED
  BY <1>1, <1>2, ExitOK DEF LetGo, SeatsIInv, SeatsType, TypeOK

LEMMA SignalOK == ASSUME SeatsIInv, NEW s \in Seat, Signal(s) PROVE SeatsIInv'
<1>1. UNCHANGED <<at, holds, token, child>>
  BY DEF Signal
<1>2. SeatsType'
  BY DEF Signal, To, End, SeatsIInv, SeatsType, TypeOK, Waiting
<1>3. CASE port \in Writer
  <2>1. Exit(port) /\ LetGo(port) /\ port' = Nobody /\ upset' = TRUE
    BY <1>3 DEF Signal, Ends
  <2>2. QED
    BY <1>1, <1>2, <1>3, <2>1, ExitOK DEF LetGo
<1>4. CASE port \notin Writer
  <2>1. UNCHANGED <<lock, proc, home, pack, mine, upset>> /\ port' = Nobody
    BY <1>4 DEF Signal
  <2>2. TypeOK'
    BY <1>1, <1>2, <2>1 DEF SeatsIInv, SeatsType, TypeOK
  <2>3. \A v \in Writer : WriterOK(v)' /\ TokenOK(v)'
    BY <1>1, <2>1, OthersKeep
  <2>4. DiskOK'
    BY <1>1 DEF SeatsIInv, DiskOK, Before, After
  <2>5. QED
    BY <2>2, <2>3, <2>4 DEF SeatsIInv
<1>5. QED
  BY <1>3, <1>4

LEMMA PortOK == ASSUME SeatsIInv, PortTaken \/ PortLeft PROVE SeatsIInv'
<1>1. UNCHANGED <<at, holds, lock, token, proc, home, pack, mine, doing, child, ended>>
  BY DEF PortTaken, PortLeft, disk, seats
<1>2. port' \in Writer \cup {Other, Nobody} /\ upset' \in BOOLEAN
  BY DEF PortTaken, PortLeft, SeatsIInv, TypeOK
<1>3. TypeOK'
  BY <1>1, <1>2 DEF SeatsIInv, TypeOK
<1>4. \A v \in Writer : WriterOK(v)' /\ TokenOK(v)'
  BY <1>1, OthersKeep
<1>5. QED
  BY <1>1, <1>3, <1>4 DEF SeatsIInv, DiskOK, Before, After

-----------------------------------------------------------------------------
(* The migration. *)

\* What asks whether the home is held takes a lock that nobody has.
LEMMA ProbeOK == ASSUME SeatsIInv, NEW s \in Seat, Probe(s) \/ Probed(s) PROVE SeatsIInv'
<1>1. UNCHANGED <<at, holds, token, port, proc, home, pack, mine, child, upset>>
  BY DEF Probe, Probed, procs
<1>2. Nobody \notin Writer /\ NoFile \notin Writer /\ s \notin Writer
  BY SeatsAssumption DEF Nobody, NoFile
<1>3. /\ lock' \in [Dirs -> Writer \cup Seat \cup {Nobody, NoFile}]
      /\ \A d \in Dirs : lock[d] \in Writer => lock'[d] = lock[d]
  <2>1. CASE Probed(s)
    BY <1>2, <2>1, LockType DEF Probed, LetGo
  <2>2. CASE Probe(s) /\ lock' # lock
    <3>1. PICK d : lock[d] = Nobody /\ lock' = [lock EXCEPT ![d] = s]
      BY <2>2 DEF Probe, Nobody, NoFile
    <3>2. QED
      BY <1>2, <3>1, LockType
  <2>3. QED
    BY <2>1, <2>2, LockType
<1>4. \E step \in {"move", "probed", "idle"}, how \in {"not", "failed"} :
        doing' = [doing EXCEPT ![s] = step] /\ ended' = [ended EXCEPT ![s] = how]
  BY DEF Probe, Probed, To, End
<1>5. QED
  BY <1>1, <1>3, <1>4, SeatMoves DEF Moving

LEMMA MoveOK == ASSUME SeatsIInv, NEW s \in Seat, Move(s) PROVE SeatsIInv'
<1>1. UNCHANGED <<holds, lock, token, port, proc, home, pack, mine, child, upset>>
  BY DEF Move, procs
<1>2. CASE ~IsVacant("new") \/ at["old"] \in {Absent, Link}
  BY <1>1, <1>2, SeatMoves, LockType DEF Move, End
<1>3. CASE ~ (~IsVacant("new") \/ at["old"] \in {Absent, Link})
  <2>1. at' = [at EXCEPT !["new"] = at["old"], !["old"] = Absent] /\ To(s, "link")
    BY <1>3 DEF Move
  <2>2. at \in [Paths -> Dirs \cup {Link, Absent}] /\ at["new"] # Link
    BY DEF SeatsIInv, TypeOK
  <2>3. Before
    BY <1>3, <2>2, FullOK DEF SeatsIInv, DiskOK, After, IsVacant, DirAt
  <2>4. at' \in [Paths -> Dirs \cup {Link, Absent}] /\ at'["new"] = Full /\ at'["old"] = Absent
    BY <2>1, <2>2, <2>3, FullOK DEF Before, Paths
  <2>5. SeatsType'
    BY <1>1, <2>1 DEF To, SeatsIInv, SeatsType, TypeOK, Moving
  <2>6. TypeOK'
    BY <1>1, <2>4, <2>5, FullOK DEF SeatsIInv, SeatsType, TypeOK
  <2>7. DiskOK'
    BY <1>1, <2>4, FullOK DEF SeatsIInv, DiskOK, After
  <2>8. at["new"] # Full
    BY <2>3 DEF Before
  <2>9. \A w \in Writer : WriterOK(w)' /\ TokenOK(w)'
    BY <1>1, <2>8 DEF SeatsIInv, WriterOK, TokenOK, HasLock, Behind
  <2>10. QED
    BY <2>6, <2>7, <2>9 DEF SeatsIInv
<1>4. QED
  BY <1>2, <1>3

LEMMA LinkOldOK == ASSUME SeatsIInv, NEW s \in Seat, LinkOld(s) PROVE SeatsIInv'
<1>1. UNCHANGED <<holds, lock, token, port, proc, home, pack, mine, child, upset>>
  BY DEF LinkOld, procs
<1>2. CASE at["old"] # Absent
  BY <1>1, <1>2, SeatMoves, LockType DEF LinkOld, End
<1>3. CASE at["old"] = Absent
  <2>1. at' = [at EXCEPT !["old"] = Link] /\ End(s, "down")
    BY <1>3 DEF LinkOld
  <2>2. at' \in [Paths -> Dirs \cup {Link, Absent}] /\ at'["new"] = at["new"] /\ at'["old"] = Link
    BY <2>1 DEF SeatsIInv, TypeOK, Paths
  <2>3. SeatsType'
    BY <1>1, <2>1 DEF End, SeatsIInv, SeatsType, TypeOK
  <2>4. TypeOK'
    BY <1>1, <2>2, <2>3 DEF SeatsIInv, SeatsType, TypeOK
  <2>5. DiskOK'
    BY <1>1, <1>3, <2>2, FullOK DEF SeatsIInv, DiskOK, Before, After
  <2>6. at["old"] \notin Dirs
    BY <1>3, SeatsAssumption
  <2>7. \A w \in Writer : WriterOK(w)' /\ TokenOK(w)'
    BY <1>1, <2>2, <2>6, OthersKeep
  <2>8. QED
    BY <2>4, <2>5, <2>7 DEF SeatsIInv
<1>4. QED
  BY <1>2, <1>3

LEMMA SeatsStep == SeatsIInv /\ [Next]_vars => SeatsIInv'
<1> SUFFICES ASSUME SeatsIInv, [Next]_vars PROVE SeatsIInv'
  OBVIOUS
<1>1. CASE \E w \in Writer : WriterStep(w) \/ WriterDies(w)
  BY <1>1, ResolvesOK, MakesHomeOK, LocksOK, OpensOK, ReadsTokenOK, TokensOK, BindsOK, DiesOK DEF WriterStep
<1>2. CASE \E s \in Seat : Verb(s) \/ SeatStep(s)
  BY <1>2, StepsAside, StartOK, SignalOK, ProbeOK, MoveOK, LinkOldOK DEF SeatStep
<1>3. CASE PortTaken \/ PortLeft
  BY <1>3, PortOK
<1>4. CASE UNCHANGED vars
  BY <1>4 DEF vars, disk, procs, seats, SeatsIInv, TypeOK, DiskOK, Before, After, WriterOK, TokenOK, HasLock, Behind
<1>5. QED
  BY <1>1, <1>2, <1>3, <1>4 DEF Next

-----------------------------------------------------------------------------
(* However many seats start a writer, stop one and move the home at once,  *)
(* the memories are open in the writer that locked them and in no other,   *)
(* two writers share another pack only where one of them was overtaken by  *)
(* a migration between the lock and the open, and the token beside the     *)
(* memories is that of their writer (store.rs, open; http.rs,              *)
(* ensure_token).                                                          *)
THEOREM SeatsHold == Spec => []Inv
<1>1. Spec => Init /\ [][Next]_vars
  BY PTL DEF Spec
<1>2. QED
  BY <1>1, SeatsStart, SeatsStep, SeatsMeans, PTL

(* At every point of a migration, and of the starts, deaths and stops      *)
(* around it, the home found with nothing set is the one with the memories *)
(* (home.rs, resolve).                                                     *)
THEOREM MemoriesAlwaysFound == Spec => []MemoriesAreFound
<1>1. Spec => Init /\ [][Next]_vars
  BY PTL DEF Spec
<1>2. QED
  BY <1>1, SeatsStart, SeatsStep, Found, PTL

-----------------------------------------------------------------------------
(* Where nobody migrates. *)

\* A home stays where it is, and the old path is not made anew.
Settled ==
  /\ \A s \in Seat : doing[s] \notin Moving
  /\ at["old"] \in {Full, Absent}
  /\ at["old"] = Absent => \A w \in Writer : home[w] # "old"

LEMMA SettledStart == Init => Settled
<1> SUFFICES ASSUME Init PROVE Settled
  OBVIOUS
<1>1. at["old"] \in {Full, Absent}
  BY DEF Init, Full, Paths
<1>2. QED
  BY <1>1 DEF Init, Settled, Moving, Absent

LEMMA SettledStep ==
    ASSUME ~Migrates, SeatsIInv, Settled, [Next]_vars
    PROVE  Settled'
<1>1. ASSUME NEW w \in Writer, WriterStep(w) \/ WriterDies(w)
      PROVE  Settled'
  <2>1. doing' = doing
    BY <1>1 DEF WriterStep, WriterResolves, WriterMakesHome, WriterLocks, WriterOpens, WriterReadsToken, WriterTokens,
                WriterBinds, WriterDies, seats
  <2>2. at' = at
    <3>1. CASE Make(w) /\ home[w] \in Paths
      <4>1. at["old"] = Absent => home[w] # "old"
        BY DEF Settled
      <4>2. home[w] = "new" => at["new"] = Full
        BY DEF SeatsIInv, WriterOK
      <4>3. DirAt(home[w]) # Absent
        BY <3>1, <4>1, <4>2, FullOK, SeatsAssumption DEF Settled, DirAt, Paths
      <4>4. QED
        BY <3>1, <4>3 DEF Make
    <3>2. proc[w] \in {"resolved", "locked", "open"} => home[w] \in Paths
      BY DEF SeatsIInv, WriterOK, TypeOK
    <3>3. QED
      BY <1>1, <3>1, <3>2 DEF WriterStep, WriterResolves, WriterMakesHome, WriterLocks, WriterOpens, WriterReadsToken,
                              WriterTokens, WriterBinds, WriterDies, disk
  <2>3. ASSUME at["old"] = Absent, NEW v \in Writer
        PROVE  home'[v] # "old"
    <3>1. Resolve = "new"
      BY <2>3, FullOK DEF Resolve, DirAt, Absent, Link
    <3>2. home' \in {home, [home EXCEPT ![w] = Resolve], [home EXCEPT ![w] = Absent]}
      BY <1>1 DEF WriterStep, WriterResolves, WriterMakesHome, WriterLocks, Locks, WriterOpens, WriterReadsToken,
                  WriterTokens, WriterBinds, WriterDies, Ends, Exit
    <3>3. home[v] # "old" /\ home \in [Writer -> Paths \cup {Absent}]
      BY <2>3 DEF Settled, SeatsIInv, TypeOK
    <3>4. QED
      BY <3>1, <3>2, <3>3 DEF Absent
  <2>4. QED
    BY <2>1, <2>2, <2>3 DEF Settled
<1>2. ASSUME NEW s \in Seat, Verb(s) \/ SeatStep(s)
      PROVE  Settled'
  <2>1. doing[s] \notin Moving
    BY DEF Settled
  <2>2. /\ \E step \in {"idle"} \cup Waiting : doing' = [doing EXCEPT ![s] = step]
        /\ at' = at
        /\ home' = home \/ home' = [home EXCEPT ![port] = Absent]
    BY <1>2, <2>1 DEF Verb, SeatStep, Ensure, Start, Spawn, Poll, Sibling, Up, Health, Deadline, Stop, Signal, Free,
         Migrate, Probe, Probed, Move, LinkOld, To, End, Ends, Exit, disk, procs, Waiting, Moving
  <2>3. \A t \in Seat : doing'[t] \notin Moving
    BY <2>2 DEF Settled, SeatsIInv, TypeOK, Waiting, Moving
  <2>4. \A w \in Writer : home'[w] \in {home[w], Absent}
    BY <2>2 DEF SeatsIInv, TypeOK
  <2>5. QED
    BY <2>2, <2>3, <2>4 DEF Settled, Absent
<1>3. CASE PortTaken \/ PortLeft \/ UNCHANGED vars
  BY <1>3 DEF PortTaken, PortLeft, vars, disk, procs, seats, Settled
<1>4. QED
  BY <1>1, <1>2, <1>3 DEF Next

(* Where nobody migrates, two writers never have one database open,        *)
(* however many seats start and stop them and whichever of them die        *)
(* (store.rs, take_lock: "One writer per `memory.lmdb`").                  *)
THEOREM OneWriterWhereNobodyMoves == ~Migrates => (Spec => []OneWriterPerPack)
<1> SUFFICES ASSUME ~Migrates PROVE Spec => []OneWriterPerPack
  OBVIOUS
<1> DEFINE I == SeatsIInv /\ Settled
<1>1. Init => I
  BY SeatsStart, SettledStart
<1>2. I /\ [Next]_vars => I'
  BY SeatsStep, SettledStep
<1>3. I => OneWriterPerPack
  <2> SUFFICES ASSUME I, NEW v \in Writer, NEW w \in Writer, pack[v] = pack[w], pack[v] # Absent
               PROVE  v = w
    BY DEF OneWriterPerPack
  <2>1. pack[v] = Full
    BY SeatsAssumption DEF SeatsIInv, WriterOK, Behind, Settled
  <2>2. QED
    BY <2>1 DEF SeatsIInv, WriterOK
<1>4. Spec => Init /\ [][Next]_vars
  BY PTL DEF Spec
<1> HIDE DEF I
<1>5. QED
  BY <1>1, <1>2, <1>3, <1>4, PTL
=============================================================================
