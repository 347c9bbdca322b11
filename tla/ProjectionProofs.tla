-------------------------- MODULE ProjectionProofs --------------------------
(***************************************************************************)
(* Projection for every number of workspaces, ids, threads and writes: its *)
(* invariant, which is inductive, and what follows from it of the order    *)
(* in which writes are applied and of the index once the queue is empty.   *)
(***************************************************************************)
EXTENDS Projection, FiniteSetTheorems, SequenceTheorems, TLAPS

-----------------------------------------------------------------------------
(* Greatest elements. *)

\* A set of naturals that is not empty has a least element.
LEMMA LeastExists ==
    ASSUME NEW S \in SUBSET Nat, S # {}
    PROVE  \E x \in S : \A y \in S : x <= y
<1>1. IsWellFoundedOn(OpToRel(<, Nat), Nat)
  BY NatLessThanWellFounded
<1>2. \E x \in S : \A y \in S : ~ (<<y, x>> \in OpToRel(<, Nat))
  BY <1>1, WFMin
<1>3. ASSUME NEW x \in Nat, NEW y \in Nat, x < y
      PROVE  <<x, y>> \in OpToRel(<, Nat)
  <2>1. <<x, y>> \in Nat \X Nat /\ <<x, y>>[1] = x /\ <<x, y>>[2] = y
    OBVIOUS
  <2>2. QED
    BY <1>3, <2>1 DEF OpToRel
<1>4. PICK x \in S : \A y \in S : ~ (<<y, x>> \in OpToRel(<, Nat))
  BY <1>2
<1>5. \A y \in S : ~ (y < x)
  BY <1>3, <1>4
<1>6. QED
  BY <1>5

\* One that is bounded has a greatest, which is its Max.
LEMMA MaxOf ==
    ASSUME NEW n \in Nat, NEW S \in SUBSET (0..n), S # {}
    PROVE  Max(S) \in S /\ \A x \in S : x <= Max(S)
<1> DEFINE T == {k \in Nat : k <= n /\ n - k \in S}
<1>1. PICK s \in S : TRUE
  OBVIOUS
<1>2. n - s \in T
  BY <1>1
<1>3. PICK m \in T : \A k \in T : m <= k
  BY <1>2, LeastExists
<1>4. n - m \in S
  OBVIOUS
<1>5. ASSUME NEW x \in S PROVE n - m >= x
  <2>1. n - x \in T
    OBVIOUS
  <2>2. QED
    <3>1. m \in Nat /\ x \in 0..n /\ m <= n - x
      BY <1>3, <2>1
    <3>2. QED
      BY <3>1
<1>6. QED
  BY <1>4, <1>5 DEF Max

-----------------------------------------------------------------------------
(* What the helpers return. *)

\* A run is a first part of the ops, and not empty; the rest is the others.
LEMMA RunIs ==
    ASSUME NEW ops \in Seq(Ops), ops # <<>>
    PROVE  \E m \in 1..Len(ops) :
             /\ Len(FirstRun(ops)) = m /\ FirstRun(ops) \in Seq(Ops)
             /\ \A k \in 1..m : FirstRun(ops)[k] = ops[k]
             /\ SubSeq(ops, m + 1, Len(ops)) \in Seq(Ops)
             /\ Len(SubSeq(ops, m + 1, Len(ops))) = Len(ops) - m
             /\ \A k \in 1..(Len(ops) - m) : SubSeq(ops, m + 1, Len(ops))[k] = ops[m + k]
<1> DEFINE S == {k \in 1..Len(ops) : \A j \in 1..k : ops[j].kind = ops[1].kind}
           m == Max(S)
<1>1. Len(ops) \in Nat \ {0}
  BY EmptySeq
<1>2. \A k \in 1..Len(ops) : ops[k] \in Ops
  BY ElementOfSeq
<1>3. 1 \in S
  BY <1>1
<1>4. S \in SUBSET (0..Len(ops)) /\ S # {}
  BY <1>1, <1>3
<1>5. m \in S
  BY <1>1, <1>4, MaxOf
<1>6. m \in 1..Len(ops)
  BY <1>5
<1> HIDE DEF m
<1>7. /\ Len(SubSeq(ops, 1, m)) = m /\ SubSeq(ops, 1, m) \in Seq(Ops)
      /\ \A k \in 1..m : SubSeq(ops, 1, m)[k] = ops[k]
  <2>1. \A k \in 1..m : ops[k] \in Ops
    BY <1>1, <1>2, <1>6
  <2>2. SubSeq(ops, 1, m) \in Seq(Ops) /\ Len(SubSeq(ops, 1, m)) = m - 1 + 1
        /\ \A k \in 1..(m - 1 + 1) : SubSeq(ops, 1, m)[k] = ops[1 + k - 1]
    BY <1>6, <2>1, SubSeqProperties
  <2>3. QED
    BY <1>6, <2>2
<1>8. /\ SubSeq(ops, m + 1, Len(ops)) \in Seq(Ops)
      /\ Len(SubSeq(ops, m + 1, Len(ops))) = Len(ops) - m
      /\ \A k \in 1..(Len(ops) - m) : SubSeq(ops, m + 1, Len(ops))[k] = ops[m + k]
  <2>1. \A k \in (m + 1)..Len(ops) : ops[k] \in Ops
    BY <1>1, <1>2, <1>6
  <2>2. /\ SubSeq(ops, m + 1, Len(ops)) \in Seq(Ops)
        /\ Len(SubSeq(ops, m + 1, Len(ops))) =
             IF m + 1 <= Len(ops) THEN Len(ops) - (m + 1) + 1 ELSE 0
        /\ \A k \in 1..(Len(ops) - (m + 1) + 1) :
             SubSeq(ops, m + 1, Len(ops))[k] = ops[(m + 1) + k - 1]
    BY <1>1, <1>6, <2>1, SubSeqProperties
  <2>3. QED
    BY <1>1, <1>6, <2>2
<1>9. FirstRun(ops) = SubSeq(ops, 1, m)
  BY DEF FirstRun, m
<1>10. QED
  BY <1>6, <1>7, <1>8, <1>9

\* An id's or an atom's last op in a run.
LEMMA LastIn ==
    ASSUME NEW ops \in Seq(Ops), NEW ks \in SUBSET (1..Len(ops)), ks # {}
    PROVE  Max(ks) \in ks /\ \A k \in ks : k <= Max(ks)
<1>1. Len(ops) \in Nat /\ ks \in SUBSET (0..Len(ops))
  OBVIOUS
<1>2. QED
  BY <1>1, MaxOf

\* Every member of a finite set has a place in the sequence made of it.
LEMMA SequenceOf ==
    ASSUME NEW S, IsFiniteSet(S)
    PROVE  /\ SetToSeq(S) \in [1..Cardinality(S) -> S]
           /\ \A x \in S : \E k \in 1..Cardinality(S) : SetToSeq(S)[k] = x
<1> DEFINE n == Cardinality(S)
<1>1. n \in Nat /\ ExistsBijection(1..n, S)
  BY FS_CardinalityType
<1>2. \E f \in [1..n -> S] : IsInjective(f)
  BY <1>1 DEF ExistsBijection, Bijection, Injection
<1>3. SetToSeq(S) \in [1..n -> S] /\ IsInjective(SetToSeq(S))
  BY <1>2 DEF SetToSeq
<1>4. Cardinality(1..n) = n
  BY <1>1, FS_Interval
<1>5. SetToSeq(S) \in Injection(1..n, S)
  BY <1>3 DEF Injection
<1>6. SetToSeq(S) \in Surjection(1..n, S)
  BY <1>4, <1>5, FS_Injection
<1>7. QED
  BY <1>3, <1>6 DEF Surjection

\* The ops of a write: one for every atom it changes.
LEMMA OpsForIs ==
    ASSUME NEW w \in Workspaces, NEW changes \in Changes, NEW n \in 1..MaxWrites
    PROVE  /\ OpsFor(w, changes, n) \in Seq(Ops)
           /\ \A k \in 1..Len(OpsFor(w, changes, n)) :
                LET op == OpsFor(w, changes, n)[k]
                IN  /\ op.ws = w /\ op.at = n /\ op.id \in DOMAIN changes
                    /\ changes[op.id] = "stored" => op.kind = "upsert"
           /\ \A i \in DOMAIN changes : \E k \in 1..Len(OpsFor(w, changes, n)) :
                OpsFor(w, changes, n)[k].id = i
<1> DEFINE D == DOMAIN changes
           ids == SetToSeq(D)
           c == Cardinality(D)
           ops == OpsFor(w, changes, n)
<1>1. D \in SUBSET Ids
  BY DEF Changes
<1>2. IsFiniteSet(D) /\ c \in Nat
  BY <1>1, FS_Subset, FS_CardinalityType, ProjectionAssumption
<1>3. ids \in [1..c -> D] /\ \A i \in D : \E k \in 1..c : ids[k] = i
  BY <1>2, SequenceOf
<1>3a. DOMAIN ids = 1..c
  BY <1>3
<1>4. ops = [k \in 1..c |->
               [kind |-> IF IsLiveOrDue(changes[ids[k]]) THEN "upsert" ELSE "delete",
                ws |-> w, id |-> ids[k], at |-> n]]
  BY <1>3a DEF OpsFor
<1> HIDE DEF ops, ids, c
<1>5. ASSUME NEW k \in 1..c
      PROVE  /\ ops[k] \in Ops
             /\ ops[k].ws = w /\ ops[k].at = n /\ ops[k].id = ids[k]
             /\ changes[ids[k]] = "stored" => ops[k].kind = "upsert"
  <2> DEFINE kind == IF IsLiveOrDue(changes[ids[k]]) THEN "upsert" ELSE "delete"
  <2>1. ops[k] = [kind |-> kind, ws |-> w, id |-> ids[k], at |-> n]
    BY <1>4
  <2>2. kind \in {"upsert", "delete"} /\ (changes[ids[k]] = "stored" => kind = "upsert")
    BY DEF IsLiveOrDue
  <2>3. ids[k] \in Ids
    BY <1>1, <1>3
  <2> HIDE DEF kind
  <2>4. QED
    BY <2>1, <2>2, <2>3 DEF Ops
<1>6. ops \in [1..c -> Ops]
  BY <1>4, <1>5
<1>7. ops \in Seq(Ops) /\ Len(ops) = c
  BY <1>2, <1>6
<1>8. \A k \in 1..c : ids[k] \in D
  BY <1>3
<1>9. QED
  BY <1>3, <1>5, <1>7, <1>8 DEF ops

-----------------------------------------------------------------------------
(* Threads. *)

LEMMA Constants ==
    /\ MaxWrites \in Nat /\ Flushers \cap Searches = {}
    /\ None \notin Threads /\ None \notin Stamps
    /\ InSet \subseteq Ids /\ Queries \subseteq SUBSET Ids
    /\ 0 \in Stamps
BY ProjectionAssumption DEF Threads, Stamps

\* The other threads are where they were.
Others(t) == \A x \in Threads : x # t => thread'[x] = thread[x]

\* A thread's state once some of it is replaced.
LEMMA ThreadIs ==
    ASSUME TypeOK, NEW t \in Threads, NEW r \in ThreadStates, thread' = [thread EXCEPT ![t] = r]
    PROVE  thread' \in [Threads -> ThreadStates] /\ Others(t) /\ thread'[t] = r
BY DEF TypeOK, Others

\* A thread that goes to another step, and does nothing else.
LEMMA GoToIs ==
    ASSUME TypeOK, NEW t \in Threads, NEW step \in Pcs, GoTo(t, step)
    PROVE  /\ thread' \in [Threads -> ThreadStates] /\ Others(t)
           /\ thread'[t].pc = step /\ thread'[t].ops = thread[t].ops
           /\ thread'[t].ws = thread[t].ws /\ thread'[t].floor = thread[t].floor
<1> DEFINE r == [thread[t] EXCEPT !.pc = step]
<1>1. thread[t] \in ThreadStates
  BY DEF TypeOK
<1>2. r \in ThreadStates
  BY <1>1 DEF ThreadStates
<1>3. thread' = [thread EXCEPT ![t] = r]
  BY DEF GoTo
<1>4. /\ r.pc = step /\ r.ops = thread[t].ops
      /\ r.ws = thread[t].ws /\ r.floor = thread[t].floor
  BY <1>1 DEF ThreadStates
<1> HIDE DEF r
<1>5. QED
  BY <1>2, <1>3, <1>4, ThreadIs

\* One that takes ops, or lets some go, and goes to another step.
LEMMA OpsAre ==
    ASSUME TypeOK, NEW t \in Threads, NEW step \in Pcs, NEW ops \in Seq(Ops),
           thread' = [thread EXCEPT ![t].pc = step, ![t].ops = ops]
    PROVE  /\ thread' \in [Threads -> ThreadStates] /\ Others(t)
           /\ thread'[t].pc = step /\ thread'[t].ops = ops
           /\ thread'[t].ws = thread[t].ws /\ thread'[t].floor = thread[t].floor
<1> DEFINE r == [thread[t] EXCEPT !.pc = step, !.ops = ops]
<1>1. thread[t] \in ThreadStates
  BY DEF TypeOK
<1>2. r \in ThreadStates
  BY <1>1 DEF ThreadStates
<1>3. thread' = [thread EXCEPT ![t] = r]
  BY DEF TypeOK
<1>4. /\ r.pc = step /\ r.ops = ops
      /\ r.ws = thread[t].ws /\ r.floor = thread[t].floor
  BY <1>1 DEF ThreadStates
<1> HIDE DEF r
<1>5. QED
  BY <1>2, <1>3, <1>4, ThreadIs

LEMMA OpsLeft ==
    ASSUME TypeOK, NEW t \in Threads, NEW ops \in Seq(Ops),
           thread' = [thread EXCEPT ![t].ops = ops]
    PROVE  /\ thread' \in [Threads -> ThreadStates] /\ Others(t)
           /\ thread'[t].pc = thread[t].pc /\ thread'[t].ops = ops
           /\ thread'[t].ws = thread[t].ws /\ thread'[t].floor = thread[t].floor
<1> DEFINE r == [thread[t] EXCEPT !.ops = ops]
<1>1. thread[t] \in ThreadStates
  BY DEF TypeOK
<1>2. r \in ThreadStates
  BY <1>1 DEF ThreadStates
<1>3. thread' = [thread EXCEPT ![t] = r]
  BY DEF TypeOK
<1>4. /\ r.pc = thread[t].pc /\ r.ops = ops
      /\ r.ws = thread[t].ws /\ r.floor = thread[t].floor
  BY <1>1 DEF ThreadStates
<1> HIDE DEF r
<1>5. QED
  BY <1>2, <1>3, <1>4, ThreadIs

\* A search that has its answer.
LEMMA AnswerIs ==
    ASSUME TypeOK, NEW s \in Threads, NEW hits \in SUBSET Ids, Answer(s, hits)
    PROVE  /\ thread' \in [Threads -> ThreadStates] /\ Others(s)
           /\ thread'[s].pc = "answered" /\ thread'[s].ops = thread[s].ops
           /\ thread'[s].ws = thread[s].ws /\ thread'[s].floor = thread[s].floor
<1> DEFINE r == [thread[s] EXCEPT !.pc = "answered", !.hits = hits]
<1>1. thread[s] \in ThreadStates
  BY DEF TypeOK
<1>2. r \in ThreadStates
  BY <1>1 DEF ThreadStates, Pcs
<1>3. thread' = [thread EXCEPT ![s] = r]
  BY DEF TypeOK, Answer
<1>4. /\ r.pc = "answered" /\ r.ops = thread[s].ops
      /\ r.ws = thread[s].ws /\ r.floor = thread[s].floor
  BY <1>1 DEF ThreadStates
<1> HIDE DEF r
<1>5. QED
  BY <1>2, <1>3, <1>4, ThreadIs

\* A thread that is done.
LEMMA UnusedIs ==
    ASSUME TypeOK, NEW t \in Threads, thread' = [thread EXCEPT ![t] = Unused]
    PROVE  /\ thread' \in [Threads -> ThreadStates] /\ Others(t)
           /\ thread'[t].pc = "idle" /\ thread'[t].ops = <<>>
<1>1. Unused \in ThreadStates
  BY Constants DEF Unused, ThreadStates, Pcs, Corpora, Empty
<1>2. Unused.pc = "idle" /\ Unused.ops = <<>>
  BY DEF Unused
<1>3. QED
  BY <1>1, <1>2, ThreadIs

\* A search that begins, with the pack as it is and what had ended.
LEMMA BeginIs ==
    ASSUME TypeOK, NEW s \in Searches, NEW w \in Workspaces, NEW query \in Queries,
           NEW scoped \in BOOLEAN, BeginSearch(s, w, query, scoped)
    PROVE  /\ thread' \in [Threads -> ThreadStates] /\ Others(s)
           /\ thread'[s].pc = "flush" /\ thread'[s].ops = <<>> /\ thread'[s].ws = w
           /\ \A i \in Ids : thread'[s].floor[i] =
                IF writer.pc # "idle" /\ written[w][i] = writes THEN 0 ELSE written[w][i]
<1> DEFINE floor == [i \in Ids |->
                        IF writer.pc # "idle" /\ written[w][i] = writes
                        THEN 0 ELSE written[w][i]]
           r == [Unused EXCEPT !.pc = "flush", !.ws = w, !.query = query,
                               !.scoped = scoped, !.corpus = pack[w], !.floor = floor]
<1>1. Unused \in ThreadStates
  BY Constants DEF Unused, ThreadStates, Pcs, Corpora, Empty
<1>2. floor \in [Ids -> Stamps] /\ pack[w] \in Corpora /\ query \in SUBSET Ids
  BY Constants DEF TypeOK
<1>3. thread' = [thread EXCEPT ![s] = r]
  BY DEF BeginSearch
<1>4. \A i \in Ids : floor[i] =
        IF writer.pc # "idle" /\ written[w][i] = writes THEN 0 ELSE written[w][i]
  OBVIOUS
<1> HIDE DEF floor
<1>5. Unused.ops = <<>>
  BY DEF Unused
<1>6. r \in ThreadStates
  BY <1>1, <1>2 DEF ThreadStates, Pcs
<1>7. r.pc = "flush" /\ r.ops = <<>> /\ r.ws = w /\ r.floor = floor
  BY <1>1, <1>5 DEF ThreadStates
<1> HIDE DEF r
<1>8. s \in Threads
  BY DEF Threads
<1>9. QED
  BY <1>3, <1>4, <1>6, <1>7, <1>8, ThreadIs

-----------------------------------------------------------------------------
(* Types. *)

\* A child leaves documents, and marks.
LEMMA AppliedType ==
    ASSUME NEW ops \in Seq(Ops),
           NEW docs \in [Ids -> Documents \cup {None}],
           NEW marks \in [Workspaces -> [Ids -> Stamps]]
    PROVE  /\ Applied(docs, ops) \in [Ids -> Documents \cup {None}]
           /\ Noted(marks, ops) \in [Workspaces -> [Ids -> Stamps]]
<1>1. \A k \in 1..Len(ops) : ops[k] \in Ops
  BY ElementOfSeq
<1>2. 1..MaxWrites \subseteq Stamps
  BY Constants DEF Stamps
<1>3. \A k \in 1..Len(ops) : Document(ops[k]) \in Documents \cup {None} /\ ops[k].at \in Stamps
  BY <1>1, <1>2 DEF Ops, Documents, Document
<1>4. ASSUME NEW i \in Ids
      PROVE  Applied(docs, ops)[i] \in Documents \cup {None}
  <2> DEFINE ks == {k \in 1..Len(ops) : ops[k].id = i}
  <2>1. ks # {} => Max(ks) \in 1..Len(ops)
    BY LastIn
  <2>2. Applied(docs, ops)[i] = IF ks = {} THEN docs[i] ELSE Document(ops[Max(ks)])
    BY DEF Applied
  <2> HIDE DEF ks
  <2>3. QED
    BY <1>3, <2>1, <2>2
<1>5. ASSUME NEW w \in Workspaces, NEW i \in Ids
      PROVE  Noted(marks, ops)[w][i] \in Stamps
  <2> DEFINE ks == {k \in 1..Len(ops) : ops[k].ws = w /\ ops[k].id = i}
  <2>1. ks # {} => Max(ks) \in 1..Len(ops)
    BY LastIn
  <2>2. Noted(marks, ops)[w][i] = IF ks = {} THEN marks[w][i] ELSE ops[Max(ks)].at
    BY DEF Noted
  <2> HIDE DEF ks
  <2>3. QED
    BY <1>3, <2>1, <2>2
<1>6. Applied(docs, ops) \in [Ids -> Documents \cup {None}]
  BY <1>4 DEF Applied
<1>7. Noted(marks, ops) \in [Workspaces -> [Ids -> Stamps]]
  BY <1>5 DEF Noted
<1>8. QED
  BY <1>6, <1>7

\* So does an upload.
LEMMA WithType ==
    ASSUME TypeOK, NEW s \in Threads, thread[s].ws \in Workspaces, NEW ids,
           NEW docs \in [Ids -> Documents \cup {None}]
    PROVE  With(s, ids, docs) \in [Ids -> Documents \cup {None}]
<1>1. thread[s].corpus \in Corpora
  BY DEF TypeOK, ThreadStates
<1>2. \A i \in Live(thread[s].corpus) :
        [ws |-> thread[s].ws, at |-> thread[s].corpus[i]] \in Documents
  BY <1>1 DEF Live, Corpora, Documents
<1>3. QED
  BY <1>2 DEF With

\* Every step of a flush keeps the types.
LEMMA QueueTypes ==
    ASSUME TypeOK, OneHolder, NEW t \in Threads, Flush(t)
    PROVE  TypeOK'
<1>1. CASE Lock(t)
  BY <1>1, GoToIs DEF Lock, TypeOK, theWrite, theIndex, Pcs
<1>2. CASE TakeOps(t)
  <2>1. thread' \in [Threads -> ThreadStates]
    BY <1>2, OpsAre DEF TakeOps, TypeOK, Pcs
  <2>2. pending' \in Seq(Ops)
    BY <1>2 DEF TakeOps
  <2>3. QED
    BY <1>2, <2>1, <2>2 DEF TakeOps, TypeOK, theWrite, theIndex
<1>3. CASE Apply(t)
  <2>1. thread[t].ops \in Seq(Ops) /\ thread[t].ops # <<>>
    BY <1>3 DEF Apply, TypeOK, ThreadStates
  <2>2. PICK m \in 1..Len(thread[t].ops) :
          /\ Len(FirstRun(thread[t].ops)) = m /\ FirstRun(thread[t].ops) \in Seq(Ops)
          /\ SubSeq(thread[t].ops, m + 1, Len(thread[t].ops)) \in Seq(Ops)
    BY <2>1, RunIs
  <2>3. thread' \in [Threads -> ThreadStates]
    BY <1>3, <2>2, OpsLeft DEF Apply
  <2>4. tried' \in [Workspaces -> [Ids -> Stamps]]
    BY <1>3, <2>2, AppliedType DEF Apply, TypeOK
  <2>5. index' \in [Ids -> Documents \cup {None}] /\ ready' \in BOOLEAN /\ disturbed' \in BOOLEAN
    <3>1. Applied(index, FirstRun(thread[t].ops)) \in [Ids -> Documents \cup {None}]
      BY <2>2, AppliedType DEF TypeOK
    <3>2. \/ index' = Applied(index, FirstRun(thread[t].ops)) /\ ready' = TRUE /\ disturbed' = disturbed
          \/ index' = index /\ ready' \in {ready, TRUE} /\ disturbed' = TRUE
      BY <1>3 DEF Apply, Failed
    <3>3. QED
      BY <3>1, <3>2 DEF TypeOK
  <2>6. QED
    BY <1>3, <2>3, <2>4, <2>5 DEF Apply, TypeOK, theWrite, theQueue
<1>4. CASE Unlock(t)
  <2>1. thread' \in [Threads -> ThreadStates]
    BY <1>4, GoToIs, UnusedIs DEF Unlock, Pcs
  <2>2. QED
    BY <1>4, <2>1 DEF Unlock, TypeOK, theWrite, theIndex
<1>5. QED
  BY <1>1, <1>2, <1>3, <1>4 DEF Flush

\* Where a search goes, and what it leaves alone.
LEMMA SearchIs ==
    ASSUME TypeOK, FloorInLine, NEW s \in Searches, Search(s)
    PROVE  /\ thread' \in [Threads -> ThreadStates] /\ Others(s)
           /\ thread[s].pc \notin {"idle", "sleep", "flush", "take", "apply"}
           /\ \/ /\ thread'[s].pc \notin {"idle", "sleep", "flush", "take", "apply"}
                 /\ thread'[s].ops = thread[s].ops
                 /\ thread'[s].ws = thread[s].ws /\ thread'[s].floor = thread[s].floor
              \/ thread'[s].pc = "idle" /\ thread'[s].ops = <<>>
           /\ UNCHANGED <<pack, written, writes, writer, pending, scheduled, projecting, tried>>
<1> s \in Threads
  BY DEF Threads
<1>1. CASE Ensure(s)
  <2>1. \E step \in {"reindex", "replace", "backfill", "ask"} : GoTo(s, step)
    BY <1>1 DEF Ensure
  <2>2. QED
    BY <1>1, <2>1, GoToIs DEF Ensure, At, theWrite, theQueue, theIndex, Pcs
<1>2. CASE Replace(s)
  BY <1>2, GoToIs DEF Replace, Upload, At, theWrite, theQueue, Pcs
<1>3. CASE Reindex(s)
  BY <1>3, GoToIs DEF Reindex, Upload, At, theWrite, theQueue, Pcs
<1>4. CASE Backfill(s)
  BY <1>4, GoToIs DEF Backfill, Upload, At, theWrite, theQueue, Pcs
<1>5. CASE Ask(s) \/ AskAgain(s)
  <2>1. GoTo(s, "rebuild") \/ \E hits \in SUBSET Ids : Answer(s, hits)
    BY <1>5 DEF Ask, AskAgain, Found, Indexed, InScope, Live
  <2>2. /\ thread[s].pc \in {"ask", "again"}
        /\ UNCHANGED <<pack, written, writes, writer, pending, scheduled, projecting, tried>>
    BY <1>5 DEF Ask, AskAgain, At, theWrite, theQueue
  <2>3. QED
    BY <2>1, <2>2, GoToIs, AnswerIs DEF Pcs
<1>6. CASE Rebuild(s)
  BY <1>6, GoToIs DEF Rebuild, Upload, At, theWrite, theQueue, Pcs
<1>7. CASE FallBack(s)
  BY <1>7, GoToIs DEF FallBack, At, theWrite, theQueue, Pcs
<1>8. CASE EndSearch(s)
  BY <1>8, UnusedIs DEF EndSearch, At, theWrite, theQueue
<1>9. QED
  BY <1>1, <1>2, <1>3, <1>4, <1>5, <1>6, <1>7, <1>8 DEF Search

LEMMA SearchTypes ==
    ASSUME TypeOK, FloorInLine, NEW s \in Searches, Search(s)
    PROVE  TypeOK'
<1> s \in Threads
  BY DEF Threads
<1>1. thread' \in [Threads -> ThreadStates]
  BY SearchIs
<1>2. UNCHANGED <<pack, written, writes, writer, pending, scheduled, projecting, tried>>
  BY SearchIs
<1>3. Ids # {} => thread[s].ws \in Workspaces
  BY SearchIs DEF FloorInLine, At
<1>4. \A ids : \A docs \in [Ids -> Documents \cup {None}] :
        With(s, ids, docs) \in [Ids -> Documents \cup {None}]
  <2>1. CASE Ids = {}
    BY <2>1 DEF With
  <2>2. CASE Ids # {}
    BY <1>3, <2>2, WithType
  <2>3. QED
    BY <2>1, <2>2
<1>5. Empty \in [Ids -> Documents \cup {None}]
  BY DEF Empty
<1>6. thread[s].corpus \in Corpora
  BY DEF TypeOK, ThreadStates
<1>7. index' \in [Ids -> Documents \cup {None}]
  <2>1. \/ index' = index
        \/ index' = With(s, Ids, Empty)
        \/ index' = With(s, Ids, index)
        \/ index' = With(s, InSet, index)
    <3>1. CASE Ensure(s) \/ Ask(s) \/ AskAgain(s) \/ FallBack(s) \/ EndSearch(s)
      BY <3>1 DEF Ensure, Ask, AskAgain, FallBack, EndSearch, Failed, theIndex
    <3>2. CASE Replace(s) \/ Reindex(s) \/ Backfill(s) \/ Rebuild(s)
      BY <3>2 DEF Replace, Reindex, Backfill, Rebuild, Upload, theIndex
    <3>3. QED
      BY <3>1, <3>2 DEF Search
  <2>2. index \in [Ids -> Documents \cup {None}]
    BY DEF TypeOK
  <2>3. QED
    BY <1>4, <1>5, <2>1, <2>2
<1>8. ready' \in BOOLEAN /\ disturbed' \in BOOLEAN /\ backfilled' \in BOOLEAN
  BY DEF Search, Ensure, Replace, Reindex, Backfill, Ask, Rebuild, AskAgain,
         FallBack, EndSearch, Upload, Failed, TypeOK, theIndex
<1>9. rebuilt' \in Corpora \cup {None}
  BY <1>6 DEF Search, Ensure, Replace, Reindex, Backfill, Ask, Rebuild, AskAgain,
              FallBack, EndSearch, Upload, Failed, TypeOK, theIndex
<1>10. QED
  BY <1>1, <1>2, <1>7, <1>8, <1>9 DEF TypeOK

-----------------------------------------------------------------------------
(* The line. *)

\* Every op in line is an op, of a write that is made.
LEMMA LineOps ==
    ASSUME TypeOK
    PROVE  /\ Unpushed \in Seq(Ops)
           /\ \A t \in Threads : thread[t].ops \in Seq(Ops)
           /\ InLine \subseteq Ops
           /\ \A op \in Ops : /\ op.ws \in Workspaces /\ op.id \in Ids
                              /\ op.at \in 1..MaxWrites /\ op.at \in Nat
<1>1. Unpushed \in Seq(Ops)
  BY DEF TypeOK, Unpushed
<1>2. \A t \in Threads : thread[t].ops \in Seq(Ops)
  BY DEF TypeOK, ThreadStates
<1>3. \A s \in Seq(Ops) : ToSet(s) \subseteq Ops
  BY DEF ToSet
<1>4. InLine \subseteq Ops
  BY <1>1, <1>2, <1>3 DEF InLine, Taken, TypeOK
<1>5. \A op \in Ops : /\ op.ws \in Workspaces /\ op.id \in Ids
                      /\ op.at \in 1..MaxWrites /\ op.at \in Nat
  BY Constants DEF Ops
<1>6. QED
  BY <1>1, <1>2, <1>4, <1>5

\* What is at a place of a sequence is in it, and has a place.
LEMMA Places ==
    ASSUME NEW s \in Seq(Ops)
    PROVE  /\ Len(s) \in Nat
           /\ \A k \in 1..Len(s) : s[k] \in ToSet(s)
           /\ \A op \in ToSet(s) : \E k \in 1..Len(s) : s[k] = op
BY DEF ToSet

\* The marks as numbers.
LEMMA Marks ==
    ASSUME TypeOK
    PROVE  \A w \in Workspaces, i \in Ids :
             /\ tried[w][i] \in Nat /\ written[w][i] \in Nat /\ writes \in Nat
             /\ tried[w][i] # None /\ written[w][i] # None
<1>1. \A n \in Stamps : n \in Nat /\ n # None
  BY Constants DEF Stamps
<1>2. \A w \in Workspaces, i \in Ids : tried[w][i] \in Stamps /\ written[w][i] \in Stamps
  BY DEF TypeOK
<1>3. QED
  BY <1>1, <1>2 DEF TypeOK

\* A step that moves no op and writes nothing leaves the line as it is.
LEMMA LineKept ==
    ASSUME LineInOrder, LineIsWhatIsLeft,
           \A t \in Threads : thread'[t].ops = thread[t].ops,
           Unpushed' = Unpushed,
           UNCHANGED <<pending, pack, written, writes, tried>>
    PROVE  LineInOrder' /\ LineIsWhatIsLeft' /\ Taken' = Taken
<1>1. Taken' = Taken /\ InLine' = InLine
  BY DEF Taken, InLine
<1>2. LineInOrder'
  BY DEF LineInOrder, InOrder, Before
<1>3. LineIsWhatIsLeft'
  BY <1>1 DEF LineIsWhatIsLeft, For
<1>4. QED
  BY <1>1, <1>2, <1>3

\* A write puts its ops at the end.
LEMMA LineWrite ==
    ASSUME TypeOK, LineInOrder, LineIsWhatIsLeft,
           NEW w \in Workspaces, NEW changes \in Changes, Write(w, changes)
    PROVE  LineInOrder' /\ LineIsWhatIsLeft' /\ Taken' = Taken
<1> DEFINE n == writes + 1
           ops == OpsFor(w, changes, n)
<1>1. n \in 1..MaxWrites /\ writes' = n /\ n \in Nat /\ writes \in Nat /\ writes < n
  BY Constants DEF Write, TypeOK, Stamps
<1>2. /\ ops \in Seq(Ops)
      /\ \A k \in 1..Len(ops) :
           /\ ops[k].ws = w /\ ops[k].at = n /\ ops[k].id \in DOMAIN changes
           /\ changes[ops[k].id] = "stored" => ops[k].kind = "upsert"
      /\ \A i \in DOMAIN changes : \E k \in 1..Len(ops) : ops[k].id = i
  BY <1>1, OpsForIs
<1>3. Unpushed = <<>> /\ Unpushed' = ops
  BY DEF Write, Unpushed
<1>4. UNCHANGED <<pending, thread, tried>>
  BY DEF Write, theQueue
<1>5. \A v \in Workspaces, i \in Ids :
        /\ written'[v][i] = IF v = w /\ i \in DOMAIN changes THEN n ELSE written[v][i]
        /\ pack'[v][i] = IF v = w /\ i \in DOMAIN changes
                         THEN IF changes[i] = "stored" THEN n ELSE None
                         ELSE pack[v][i]
  BY DEF Write, TypeOK
<1> HIDE DEF ops, n
<1>6. Taken' = Taken /\ InLine = Taken /\ InLine' = Taken \cup ToSet(ops)
  BY <1>3, <1>4 DEF Taken, InLine, ToSet
<1>7. \A op \in Taken : op.at \in Nat /\ op.at <= writes /\ op.ws \in Workspaces /\ op.id \in Ids
  BY <1>6, LineOps, Marks DEF LineIsWhatIsLeft
<1>8. LineInOrder'
  <2>1. \A k \in 1..Len(pending) : pending[k] \in Taken
    BY Places DEF Taken, TypeOK
  <2>2. \A t \in Threads : \A k \in 1..Len(thread[t].ops) : thread[t].ops[k] \in Taken
    BY Places, LineOps DEF Taken
  <2>3. Before(pending, ops) /\ \A t \in Threads : Before(thread[t].ops, ops)
    <3>1. \A op \in Taken : \A k \in 1..Len(ops) : op.at <= ops[k].at
      BY <1>1, <1>2, <1>7
    <3>2. QED
      BY <2>1, <2>2, <3>1 DEF Before
  <2>4. \A k \in 1..Len(ops) : ops[k].at = n
    BY <1>2
  <2>5. QED
    BY <1>1, <1>3, <1>4, <2>3, <2>4 DEF LineInOrder, InOrder, Before
<1>9. ASSUME NEW op \in InLine'
      PROVE  /\ tried[op.ws][op.id] <= op.at /\ op.at <= written'[op.ws][op.id]
             /\ pack'[op.ws][op.id] = op.at => op.kind = "upsert"
  <2>1. CASE op \in Taken
    <3>1. /\ tried[op.ws][op.id] <= op.at /\ op.at <= written[op.ws][op.id]
          /\ pack[op.ws][op.id] = op.at => op.kind = "upsert"
      BY <1>6, <2>1 DEF LineIsWhatIsLeft
    <3>2. op.at # n /\ op.at # None /\ op.at <= n
      BY <1>1, <1>6, <1>7, <2>1, LineOps, Constants DEF Stamps
    <3>3. QED
      BY <1>5, <1>7, <2>1, <3>1, <3>2
  <2>2. CASE op \in ToSet(ops)
    <3>1. /\ op.ws = w /\ op.at = n /\ op.id \in DOMAIN changes /\ op.id \in Ids
          /\ changes[op.id] = "stored" => op.kind = "upsert"
      BY <1>2, <2>2, Places DEF Changes
    <3>2. tried[w][op.id] <= writes
      BY <3>1, Marks DEF LineIsWhatIsLeft
    <3>3. n # None /\ tried[w][op.id] \in Nat
      BY <1>1, <3>1, Constants, Marks DEF Stamps
    <3>4. QED
      BY <1>1, <1>5, <3>1, <3>2, <3>3
  <2>3. QED
    BY <1>6, <2>1, <2>2
<1>10. ASSUME NEW v \in Workspaces, NEW i \in Ids
       PROVE  /\ tried[v][i] <= written'[v][i] /\ written'[v][i] <= writes'
              /\ pack'[v][i] \in {written'[v][i], None}
              /\ tried[v][i] < written'[v][i] =>
                   \E op \in InLine' : For(op, v, i) /\ op.at = written'[v][i]
  <2>1. /\ tried[v][i] <= written[v][i] /\ written[v][i] <= writes
        /\ pack[v][i] \in {written[v][i], None}
        /\ tried[v][i] < written[v][i] =>
             \E op \in InLine : For(op, v, i) /\ op.at = written[v][i]
    BY DEF LineIsWhatIsLeft
  <2>2. CASE v = w /\ i \in DOMAIN changes
    <3>1. PICK k \in 1..Len(ops) : ops[k].id = i
      BY <1>2, <2>2
    <3>2. ops[k] \in InLine' /\ For(ops[k], v, i) /\ ops[k].at = n
      BY <1>2, <1>6, <2>2, <3>1, Places DEF For
    <3>3. QED
      BY <1>1, <1>5, <2>1, <2>2, <3>2, Marks
  <2>3. CASE ~(v = w /\ i \in DOMAIN changes)
    BY <1>1, <1>5, <1>6, <2>1, <2>3, Marks
  <2>4. QED
    BY <2>2, <2>3
<1>11. LineIsWhatIsLeft'
  BY <1>4, <1>9, <1>10 DEF LineIsWhatIsLeft, For
<1>12. QED
  BY <1>6, <1>8, <1>11

\* Queueing them moves them to the end of the queue.
LEMMA LinePush ==
    ASSUME TypeOK, LineInOrder, LineIsWhatIsLeft, Push
    PROVE  LineInOrder' /\ LineIsWhatIsLeft' /\ Taken \subseteq Taken'
<1> DEFINE ops == writer.ops
<1>1. Unpushed = ops /\ Unpushed' = <<>> /\ ops \in Seq(Ops) /\ pending \in Seq(Ops)
  BY DEF Push, Unpushed, TypeOK
<1>2. pending' = pending \o ops /\ UNCHANGED <<pack, written, writes, thread, tried>>
  BY DEF Push
<1>3. /\ pending' \in Seq(Ops)
      /\ Len(pending) \in Nat /\ Len(ops) \in Nat /\ Len(pending') = Len(pending) + Len(ops)
      /\ \A k \in 1..Len(pending') :
           pending'[k] = IF k <= Len(pending) THEN pending[k] ELSE ops[k - Len(pending)]
  BY <1>1, <1>2, ConcatProperties
<1> HIDE DEF ops
<1>4. ToSet(pending') = ToSet(pending) \cup ToSet(ops)
  <2>1. \A k \in 1..Len(pending) : k \in 1..Len(pending') /\ pending'[k] = pending[k]
    BY <1>3
  <2>2. \A k \in 1..Len(ops) : /\ Len(pending) + k \in 1..Len(pending')
                              /\ pending'[Len(pending) + k] = ops[k]
    BY <1>3
  <2>3. \A k \in 1..Len(pending') : \/ k \in 1..Len(pending) /\ pending'[k] = pending[k]
                                   \/ /\ k - Len(pending) \in 1..Len(ops)
                                      /\ pending'[k] = ops[k - Len(pending)]
    BY <1>3
  <2>4. /\ DOMAIN pending = 1..Len(pending) /\ DOMAIN ops = 1..Len(ops)
        /\ DOMAIN pending' = 1..Len(pending')
    BY <1>1, <1>3
  <2>5. /\ ToSet(pending') = {pending'[k] : k \in 1..Len(pending')}
        /\ ToSet(pending) = {pending[k] : k \in 1..Len(pending)}
        /\ ToSet(ops) = {ops[k] : k \in 1..Len(ops)}
    BY <2>4, Zenon DEF ToSet
  <2> HIDE DEF ops
  <2>6. ASSUME NEW k \in 1..Len(pending') PROVE pending'[k] \in ToSet(pending) \cup ToSet(ops)
    BY <2>3, <2>5, Zenon
  <2>7. ASSUME NEW k \in 1..Len(pending) PROVE pending[k] \in ToSet(pending')
    BY <2>1, <2>5, Zenon
  <2>8. ASSUME NEW k \in 1..Len(ops) PROVE ops[k] \in ToSet(pending')
    BY <2>2, <2>5, Zenon
  <2>9. ASSUME NEW x \in ToSet(pending') PROVE x \in ToSet(pending) \cup ToSet(ops)
    BY <2>5, <2>6, Zenon
  <2>10. ASSUME NEW x \in ToSet(pending) \cup ToSet(ops) PROVE x \in ToSet(pending')
    BY <2>5, <2>7, <2>8, Zenon
  <2>11. QED
    BY <2>9, <2>10, Zenon
<1>5. InLine' = InLine /\ Taken \subseteq Taken'
  <2>1. ToSet(Unpushed) = ToSet(ops) /\ ToSet(Unpushed') = {}
    BY <1>1 DEF ToSet
  <2>2. QED
    BY <1>2, <1>4, <2>1 DEF InLine, Taken
<1>6. LineIsWhatIsLeft'
  BY <1>2, <1>5 DEF LineIsWhatIsLeft, For
<1>7. InOrder(pending')
  <2> SUFFICES ASSUME NEW j \in 1..Len(pending'), NEW k \in 1..Len(pending'), j <= k
               PROVE  pending'[j].at <= pending'[k].at
    BY DEF InOrder
  <2>1. CASE k <= Len(pending)
    BY <1>3, <2>1 DEF LineInOrder, InOrder
  <2>2. CASE j > Len(pending)
    <3>1. j - Len(pending) \in 1..Len(ops) /\ k - Len(pending) \in 1..Len(ops)
      BY <1>3, <2>2
    <3>2. ops[j - Len(pending)].at = writes /\ ops[k - Len(pending)].at = writes
      BY <1>1, <3>1 DEF LineInOrder
    <3>3. writes \in Nat
      BY DEF TypeOK, Stamps
    <3>4. pending'[j] = ops[j - Len(pending)] /\ pending'[k] = ops[k - Len(pending)]
      BY <1>3, <2>2
    <3>5. QED
      BY <3>2, <3>3, <3>4
  <2>3. CASE j <= Len(pending) /\ k > Len(pending)
    <3>1. j \in 1..Len(pending) /\ k - Len(pending) \in 1..Len(ops)
      BY <1>3, <2>3
    <3>2. pending'[j] = pending[j] /\ pending'[k] = ops[k - Len(pending)]
      BY <1>3, <2>3
    <3>3. Before(pending, ops)
      BY <1>1 DEF LineInOrder
    <3>4. pending[j].at <= ops[k - Len(pending)].at
      BY <3>1, <3>3 DEF Before
    <3>5. QED
      BY <3>2, <3>4
  <2>4. QED
    BY <1>3, <2>1, <2>2, <2>3
<1>8. ASSUME NEW t \in Threads
      PROVE  Before(thread[t].ops, pending')
  <2> SUFFICES ASSUME NEW j \in 1..Len(thread[t].ops), NEW k \in 1..Len(pending')
               PROVE  thread[t].ops[j].at <= pending'[k].at
    BY DEF Before
  <2>1. CASE k <= Len(pending)
    BY <1>3, <2>1 DEF LineInOrder, Before
  <2>2. CASE k > Len(pending)
    <3>1. k - Len(pending) \in 1..Len(ops) /\ pending'[k] = ops[k - Len(pending)]
      BY <1>3, <2>2
    <3>2. Before(thread[t].ops, ops)
      BY <1>1 DEF LineInOrder
    <3>3. QED
      BY <3>1, <3>2 DEF Before
  <2>3. QED
    BY <1>3, <2>1, <2>2
<1>9. LineInOrder'
  <2>1. \A s : Before(s, <<>>)
    BY DEF Before
  <2>2. \A t \in Threads : InOrder(thread[t].ops)
    BY DEF LineInOrder
  <2>3. /\ InOrder(pending') /\ Before(pending', Unpushed')
        /\ \A t \in Threads : /\ InOrder(thread'[t].ops)
                              /\ Before(thread'[t].ops, pending')
                              /\ Before(thread'[t].ops, Unpushed')
    BY <1>1, <1>2, <1>7, <1>8, <2>1, <2>2
  <2>4. \A k \in 1..Len(Unpushed') : Unpushed'[k].at = writes'
    BY <1>1
  <2>5. QED
    BY <2>3, <2>4 DEF LineInOrder, InOrder, Before
<1>10. QED
  BY <1>5, <1>6, <1>9

\* What a thread that takes the whole queue has.
LEMMA TakeIs ==
    ASSUME TypeOK, OneHolder, NEW t \in Threads, TakeOps(t)
    PROVE  /\ thread' \in [Threads -> ThreadStates] /\ Others(t)
           /\ thread[t].pc = "take" /\ thread'[t].pc = "apply"
           /\ thread'[t].ops = pending /\ pending' = <<>>
           /\ \A x \in Threads : thread[x].ops = <<>>
           /\ thread'[t].ws = thread[t].ws /\ thread'[t].floor = thread[t].floor
<1>1. pending \in Seq(Ops) /\ "apply" \in Pcs
  BY DEF TypeOK, Pcs
<1>2. \A x \in Threads : thread[x].ops = <<>>
  BY DEF TakeOps, OneHolder, At
<1>3. /\ thread[t].pc = "take" /\ pending' = <<>>
      /\ thread' = [thread EXCEPT ![t].pc = "apply", ![t].ops = pending]
  BY DEF TakeOps, At
<1>4. /\ thread' \in [Threads -> ThreadStates] /\ Others(t)
      /\ thread'[t].pc = "apply" /\ thread'[t].ops = pending
      /\ thread'[t].ws = thread[t].ws /\ thread'[t].floor = thread[t].floor
  BY <1>1, <1>3, OpsAre
<1>5. QED
  BY <1>2, <1>3, <1>4

LEMMA LineTake ==
    ASSUME TypeOK, OneHolder, LineInOrder, LineIsWhatIsLeft, NEW t \in Threads, TakeOps(t)
    PROVE  LineInOrder' /\ LineIsWhatIsLeft' /\ Taken' = Taken
<1>1. /\ thread'[t].ops = pending /\ pending' = <<>>
      /\ \A x \in Threads : thread[x].ops = <<>>
      /\ \A x \in Threads : x # t => thread'[x].ops = <<>>
  BY TakeIs DEF Others
<1>2. UNCHANGED <<pack, written, writes, writer, tried>> /\ Unpushed' = Unpushed
  BY DEF TakeOps, theWrite, Unpushed
<1>3. Taken' = Taken
  <2>1. ToSet(<<>>) = {}
    BY DEF ToSet
  <2>2. QED
    BY <1>1, <2>1 DEF Taken
<1>4. LineIsWhatIsLeft'
  BY <1>2, <1>3 DEF LineIsWhatIsLeft, InLine, For
<1>5. LineInOrder'
  <2>1. \A s : Before(s, <<>>) /\ Before(<<>>, s) /\ InOrder(<<>>)
    BY DEF Before, InOrder
  <2>2. InOrder(pending) /\ Before(pending, Unpushed)
        /\ \A k \in 1..Len(Unpushed) : Unpushed[k].at = writes
    BY DEF LineInOrder
  <2>3. \A x \in Threads : /\ InOrder(thread'[x].ops)
                           /\ Before(thread'[x].ops, pending')
                           /\ Before(thread'[x].ops, Unpushed')
    BY <1>1, <1>2, <2>1, <2>2
  <2>4. InOrder(pending') /\ Before(pending', Unpushed')
    BY <1>1, <2>1
  <2>5. \A k \in 1..Len(Unpushed') : Unpushed'[k].at = writes'
    BY <1>2, <2>2
  <2>6. QED
    BY <2>3, <2>4, <2>5 DEF LineInOrder, InOrder, Before
<1>6. QED
  BY <1>3, <1>4, <1>5

\* What one child, or its failure, does to the line: the ops it was run for
\* leave it, and each of their atoms is marked with the last of its own,
\* which is no later than any that is left.
LEMMA ApplyIs ==
    ASSUME TypeOK, OneHolder, LineInOrder, LineIsWhatIsLeft, NEW t \in Threads, Apply(t)
    PROVE  /\ thread' \in [Threads -> ThreadStates] /\ Others(t)
           /\ thread[t].pc = "apply" /\ thread'[t].pc = "apply"
           /\ \A x \in Threads : x # t => thread[x].ops = <<>>
           /\ thread'[t].ws = thread[t].ws /\ thread'[t].floor = thread[t].floor
           /\ UNCHANGED <<pack, written, writes, writer, pending, scheduled, projecting>>
           /\ ToSet(thread'[t].ops) \subseteq ToSet(thread[t].ops)
           /\ InOrder(thread'[t].ops)
           /\ \A op \in ToSet(thread[t].ops) :
                op \in ToSet(thread'[t].ops) \/ op.at <= tried'[op.ws][op.id]
           /\ \A w \in Workspaces, i \in Ids :
                \/ tried'[w][i] = tried[w][i]
                \/ \E op \in ToSet(thread[t].ops) :
                      /\ For(op, w, i) /\ tried'[w][i] = op.at
                      /\ \A rest \in ToSet(thread'[t].ops) : op.at <= rest.at
<1> DEFINE ops == thread[t].ops
           run == FirstRun(ops)
           left == SubSeq(ops, Len(run) + 1, Len(ops))
<1>1. ops \in Seq(Ops) /\ ops # <<>> /\ thread[t].pc = "apply"
  BY LineOps DEF Apply, At
<1>3. /\ thread' = [thread EXCEPT ![t].ops = left]
      /\ tried' = Noted(tried, run)
      /\ UNCHANGED <<pack, written, writes, writer, pending, scheduled, projecting>>
  BY DEF Apply, theWrite, theQueue
<1> HIDE DEF ops
<1>2. PICK m \in 1..Len(ops) :
        /\ Len(run) = m /\ run \in Seq(Ops)
        /\ \A k \in 1..m : run[k] = ops[k]
        /\ left \in Seq(Ops) /\ Len(left) = Len(ops) - m
        /\ \A k \in 1..(Len(ops) - m) : left[k] = ops[m + k]
  <2>1. PICK m \in 1..Len(ops) :
          /\ Len(FirstRun(ops)) = m /\ FirstRun(ops) \in Seq(Ops)
          /\ \A k \in 1..m : FirstRun(ops)[k] = ops[k]
          /\ SubSeq(ops, m + 1, Len(ops)) \in Seq(Ops)
          /\ Len(SubSeq(ops, m + 1, Len(ops))) = Len(ops) - m
          /\ \A k \in 1..(Len(ops) - m) : SubSeq(ops, m + 1, Len(ops))[k] = ops[m + k]
    BY <1>1, RunIs
  <2>2. run = FirstRun(ops) /\ left = SubSeq(ops, m + 1, Len(ops))
    BY <2>1
  <2> HIDE DEF run, left
  <2>3. QED
    BY <2>1, <2>2
<1> HIDE DEF run, left
<1>4. /\ thread' \in [Threads -> ThreadStates] /\ Others(t)
      /\ thread'[t].pc = "apply" /\ thread'[t].ops = left
      /\ thread'[t].ws = thread[t].ws /\ thread'[t].floor = thread[t].floor
  BY <1>1, <1>2, <1>3, OpsLeft
<1>5. \A x \in Threads : x # t => thread[x].ops = <<>>
  BY <1>1 DEF OneHolder, At
<1>6. Len(ops) \in Nat /\ m \in Nat /\ m <= Len(ops) /\ \A k \in 1..Len(ops) : ops[k] \in Ops
  BY <1>1, <1>2, ElementOfSeq
<1>7. InOrder(ops)
  BY DEF ops, LineInOrder
<1>8. ToSet(left) \subseteq ToSet(ops)
  <2> SUFFICES ASSUME NEW op \in ToSet(left)
               PROVE  op \in ToSet(ops)
    OBVIOUS
  <2>1. PICK k \in 1..(Len(ops) - m) : op = left[k]
    BY <1>2, Places
  <2>2. m + k \in 1..Len(ops) /\ op = ops[m + k]
    BY <1>2, <1>6, <2>1
  <2>3. QED
    BY <1>1, <2>2, Places
<1>9. InOrder(left)
  <2> SUFFICES ASSUME NEW j \in 1..(Len(ops) - m), NEW k \in 1..(Len(ops) - m), j <= k
               PROVE  left[j].at <= left[k].at
    BY <1>2 DEF InOrder
  <2>1. m + j \in 1..Len(ops) /\ m + k \in 1..Len(ops) /\ m + j <= m + k
    BY <1>6
  <2>2. ops[m + j].at <= ops[m + k].at
    BY <1>7, <2>1 DEF InOrder
  <2>3. QED
    BY <1>2, <2>2
\* The last op of an atom in the run.
<1>10. ASSUME NEW w \in Workspaces, NEW i \in Ids
       PROVE  \/ tried'[w][i] = tried[w][i] /\ \A k \in 1..m : ~For(ops[k], w, i)
              \/ \E last \in 1..m : /\ For(ops[last], w, i) /\ tried'[w][i] = ops[last].at
                                    /\ \A k \in 1..m : For(ops[k], w, i) => k <= last
  <2> DEFINE ks == {k \in 1..Len(run) : run[k].ws = w /\ run[k].id = i}
  <2>1. tried'[w][i] = IF ks = {} THEN tried[w][i] ELSE run[Max(ks)].at
    BY <1>3 DEF Noted
  <2>2. ks # {} => Max(ks) \in ks /\ \A k \in ks : k <= Max(ks)
    BY <1>2, LastIn
  <2>3. \A k \in 1..m : k \in ks <=> For(ops[k], w, i)
    BY <1>2 DEF For
  <2>4. ks \subseteq 1..m
    BY <1>2
  <2>5. CASE ks = {}
    BY <2>1, <2>3, <2>5
  <2>6. CASE ks # {}
    <3>1. PICK last \in 1..m : last = Max(ks)
      BY <2>2, <2>4, <2>6
    <3>2. run[last] = ops[last] /\ For(ops[last], w, i)
      BY <1>2, <2>2, <2>3, <2>6, <3>1
    <3>3. \A k \in 1..m : For(ops[k], w, i) => k <= last
      BY <2>2, <2>3, <2>6, <3>1
    <3>4. tried'[w][i] = ops[last].at
      BY <2>1, <2>6, <3>1, <3>2
    <3>5. QED
      BY <3>2, <3>3, <3>4
  <2>7. QED
    BY <2>5, <2>6
<1>11. ASSUME NEW op \in ToSet(ops)
       PROVE  op \in ToSet(left) \/ op.at <= tried'[op.ws][op.id]
  <2>1. PICK k \in 1..Len(ops) : op = ops[k]
    BY <1>1, Places
  <2>2. CASE k <= m
    <3>1. k \in 1..m /\ For(ops[k], op.ws, op.id) /\ op.ws \in Workspaces /\ op.id \in Ids
      BY <1>6, <2>1, <2>2, LineOps DEF For
    <3>2. PICK last \in 1..m : k <= last /\ tried'[op.ws][op.id] = ops[last].at
      BY <1>10, <3>1
    <3>3. ops[k].at <= ops[last].at
      BY <1>6, <1>7, <2>1, <3>2 DEF InOrder
    <3>4. QED
      BY <2>1, <3>2, <3>3
  <2>3. CASE k > m
    <3>1. k - m \in 1..(Len(ops) - m) /\ m + (k - m) = k
      BY <1>6, <2>1, <2>3
    <3>2. left[k - m] = op
      BY <1>2, <2>1, <3>1
    <3>3. QED
      BY <1>2, <3>1, <3>2, Places
  <2>4. QED
    BY <1>6, <2>1, <2>2, <2>3
<1>12. ASSUME NEW w \in Workspaces, NEW i \in Ids
       PROVE  \/ tried'[w][i] = tried[w][i]
              \/ \E op \in ToSet(ops) :
                    /\ For(op, w, i) /\ tried'[w][i] = op.at
                    /\ \A rest \in ToSet(left) : op.at <= rest.at
  <2>1. CASE tried'[w][i] # tried[w][i]
    <3>1. PICK last \in 1..m : For(ops[last], w, i) /\ tried'[w][i] = ops[last].at
      BY <1>10, <2>1
    <3>2. ops[last] \in ToSet(ops)
      BY <1>1, <1>6, <3>1, Places
    <3>3. ASSUME NEW rest \in ToSet(left)
          PROVE  ops[last].at <= rest.at
      <4>1. PICK k \in 1..(Len(ops) - m) : rest = left[k]
        BY <1>2, Places
      <4>2. rest = ops[m + k] /\ m + k \in 1..Len(ops) /\ last <= m + k /\ last \in 1..Len(ops)
        BY <1>2, <1>6, <4>1
      <4>3. QED
        BY <1>7, <4>2 DEF InOrder
    <3>4. QED
      BY <3>1, <3>2, <3>3
  <2>2. QED
    BY <2>1
<1>13. QED
  BY <1>1, <1>3, <1>4, <1>5, <1>8, <1>9, <1>11, <1>12 DEF ops

LEMMA LineApply ==
    ASSUME TypeOK, OneHolder, LineInOrder, LineIsWhatIsLeft, NEW t \in Threads, Apply(t)
    PROVE  /\ LineInOrder' /\ LineIsWhatIsLeft' /\ Taken' \subseteq Taken
           /\ \A op \in Taken : op \in Taken' \/ op.at <= tried'[op.ws][op.id]
           /\ \A w \in Workspaces, i \in Ids : tried[w][i] <= tried'[w][i]
<1> DEFINE ops == thread[t].ops
           left == thread'[t].ops
<1>1. /\ \A x \in Threads : x # t => thread[x].ops = <<>> /\ thread'[x].ops = <<>>
      /\ UNCHANGED <<pack, written, writes, pending>> /\ Unpushed' = Unpushed
      /\ ToSet(left) \subseteq ToSet(ops) /\ InOrder(left)
      /\ ops \in Seq(Ops) /\ left \in Seq(Ops)
  BY ApplyIs, LineOps DEF Others, Unpushed, ThreadStates
<1>2. /\ \A op \in ToSet(ops) : op \in ToSet(left) \/ op.at <= tried'[op.ws][op.id]
      /\ \A w \in Workspaces, i \in Ids :
           \/ tried'[w][i] = tried[w][i]
           \/ \E op \in ToSet(ops) : /\ For(op, w, i) /\ tried'[w][i] = op.at
                                    /\ \A rest \in ToSet(left) : op.at <= rest.at
  BY ApplyIs
<1> HIDE DEF ops, left
<1>3. /\ Taken = ToSet(pending) \cup ToSet(ops) /\ Taken' = ToSet(pending) \cup ToSet(left)
  <2>1. ToSet(<<>>) = {}
    BY DEF ToSet
  <2>2. UNION {ToSet(thread[x].ops) : x \in Threads} = ToSet(ops)
    BY <1>1, <2>1 DEF ops
  <2>3. UNION {ToSet(thread'[x].ops) : x \in Threads} = ToSet(left)
    BY <1>1, <2>1 DEF left
  <2>4. QED
    BY <1>1, <2>2, <2>3 DEF Taken
<1>4. Taken' \subseteq Taken
  BY <1>1, <1>3
<1>5. \A op \in Taken : op \in Taken' \/ op.at <= tried'[op.ws][op.id]
  BY <1>2, <1>3
<1>6. /\ \A op \in InLine : /\ op.ws \in Workspaces /\ op.id \in Ids /\ op.at \in Nat
                            /\ tried[op.ws][op.id] <= op.at /\ op.at <= written[op.ws][op.id]
                            /\ pack[op.ws][op.id] = op.at => op.kind = "upsert"
      /\ ToSet(ops) \subseteq InLine
  BY <1>3, LineOps DEF LineIsWhatIsLeft, InLine
<1>7. \A w \in Workspaces, i \in Ids : tried[w][i] \in Nat /\ written[w][i] \in Nat
  BY Marks
<1>8. \A w \in Workspaces, i \in Ids :
        tried[w][i] <= tried'[w][i] /\ tried'[w][i] <= written[w][i] /\ tried'[w][i] \in Nat
  <2> SUFFICES ASSUME NEW w \in Workspaces, NEW i \in Ids
               PROVE  tried[w][i] <= tried'[w][i] /\ tried'[w][i] <= written[w][i] /\ tried'[w][i] \in Nat
    OBVIOUS
  <2>1. CASE tried'[w][i] = tried[w][i]
    BY <1>7, <2>1 DEF LineIsWhatIsLeft
  <2>2. CASE tried'[w][i] # tried[w][i]
    BY <1>2, <1>6, <2>2 DEF For
  <2>3. QED
    BY <2>1, <2>2
<1>9. InLine' = Taken' \cup ToSet(Unpushed)
  BY <1>1 DEF InLine
<1>10. ASSUME NEW op \in InLine'
       PROVE  tried'[op.ws][op.id] <= op.at
  <2>1. op \in InLine
    BY <1>4, <1>9 DEF InLine
  <2>2. CASE tried'[op.ws][op.id] = tried[op.ws][op.id]
    BY <1>6, <2>1, <2>2
  <2>3. CASE tried'[op.ws][op.id] # tried[op.ws][op.id]
    <3>1. PICK last \in ToSet(ops) : /\ tried'[op.ws][op.id] = last.at
                                     /\ \A rest \in ToSet(left) : last.at <= rest.at
      BY <1>2, <1>6, <2>1, <2>3
    <3>2. PICK j \in 1..Len(ops) : last = ops[j]
      BY <1>1, Places
    <3>3. CASE op \in ToSet(pending) \/ op \in ToSet(Unpushed)
      <4>1. Before(ops, pending) /\ Before(ops, Unpushed)
        BY DEF LineInOrder, ops
      <4>2. \/ \E k \in 1..Len(pending) : op = pending[k]
            \/ \E k \in 1..Len(Unpushed) : op = Unpushed[k]
        BY <3>3, Places, LineOps DEF TypeOK
      <4>3. last.at <= op.at
        BY <3>2, <4>1, <4>2 DEF Before
      <4>4. QED
        BY <3>1, <4>3
    <3>4. CASE op \in ToSet(left)
      BY <3>1, <3>4
    <3>5. QED
      BY <1>3, <1>9, <3>3, <3>4
  <2>4. QED
    BY <2>2, <2>3
<1>11. ASSUME NEW w \in Workspaces, NEW i \in Ids, tried'[w][i] < written[w][i]
       PROVE  \E op \in InLine' : For(op, w, i) /\ op.at = written[w][i]
  <2>1. tried[w][i] < written[w][i]
    BY <1>7, <1>8, <1>11
  <2>2. PICK op \in InLine : For(op, w, i) /\ op.at = written[w][i]
    BY <2>1 DEF LineIsWhatIsLeft
  <2>3. ~(op.at <= tried'[op.ws][op.id])
    BY <1>7, <1>8, <1>11, <2>2 DEF For
  <2>4. op \in InLine'
    BY <1>5, <1>9, <2>3 DEF InLine
  <2>5. QED
    BY <2>2, <2>4
<1>12. LineIsWhatIsLeft'
  <2>1. \A op \in InLine' : op \in InLine
    BY <1>4, <1>9 DEF InLine
  <2>2. ASSUME NEW op \in InLine'
        PROVE  /\ tried'[op.ws][op.id] <= op.at /\ op.at <= written'[op.ws][op.id]
               /\ pack'[op.ws][op.id] = op.at => op.kind = "upsert"
    BY <1>1, <1>6, <1>10, <2>1
  <2>3. ASSUME NEW w \in Workspaces, NEW i \in Ids
        PROVE  /\ tried'[w][i] <= written'[w][i] /\ written'[w][i] <= writes'
               /\ pack'[w][i] \in {written'[w][i], None}
               /\ tried'[w][i] < written'[w][i] =>
                    \E op \in InLine' : For(op, w, i) /\ op.at = written'[w][i]
    BY <1>1, <1>8, <1>11 DEF LineIsWhatIsLeft
  <2>4. QED
    BY <2>2, <2>3 DEF LineIsWhatIsLeft, For
<1>13. LineInOrder'
  <2>1. \A s : Before(<<>>, s) /\ InOrder(<<>>)
    BY DEF Before, InOrder
  <2>2. ASSUME NEW after \in Seq(Ops), Before(ops, after)
        PROVE  Before(left, after)
    <3> SUFFICES ASSUME NEW j \in 1..Len(left), NEW k \in 1..Len(after)
                 PROVE  left[j].at <= after[k].at
      BY DEF Before
    <3>1. left[j] \in ToSet(ops)
      BY <1>1, Places
    <3>2. PICK h \in 1..Len(ops) : left[j] = ops[h]
      BY <1>1, <3>1, Places
    <3>3. QED
      BY <2>2, <3>2 DEF Before
  <2>3. Before(left, pending) /\ Before(left, Unpushed)
    <3>1. Before(ops, pending) /\ Before(ops, Unpushed)
      BY DEF LineInOrder, ops
    <3>2. pending \in Seq(Ops) /\ Unpushed \in Seq(Ops)
      BY LineOps DEF TypeOK
    <3>3. QED
      BY <2>2, <3>1, <3>2
  <2>4. \A x \in Threads : /\ InOrder(thread'[x].ops)
                           /\ Before(thread'[x].ops, pending')
                           /\ Before(thread'[x].ops, Unpushed')
    BY <1>1, <2>1, <2>3 DEF left
  <2>5. /\ InOrder(pending') /\ Before(pending', Unpushed')
        /\ \A k \in 1..Len(Unpushed') : Unpushed'[k].at = writes'
    BY <1>1 DEF LineInOrder
  <2>6. QED
    BY <2>4, <2>5 DEF LineInOrder, InOrder, Before
<1>14. QED
  BY <1>4, <1>5, <1>8, <1>12, <1>13

-----------------------------------------------------------------------------
(* The steps of a write, and a flush thread that wakes. *)

LEMMA WriteTypes ==
    ASSUME TypeOK, NEW w \in Workspaces, NEW changes \in Changes, Write(w, changes)
    PROVE  TypeOK'
<1> DEFINE n == writes + 1
           P == [i \in Ids |-> IF i \notin DOMAIN changes THEN pack[w][i]
                               ELSE IF changes[i] = "stored" THEN n ELSE None]
           W == [i \in Ids |-> IF i \in DOMAIN changes THEN n ELSE written[w][i]]
<1>1. n \in 1..MaxWrites /\ n \in Stamps /\ writes' = n
  BY Constants DEF Write, TypeOK, Stamps
<1>2. OpsFor(w, changes, n) \in Seq(Ops)
  BY <1>1, OpsForIs
<1>3. /\ pack' = [pack EXCEPT ![w] = P] /\ written' = [written EXCEPT ![w] = W]
      /\ writer' = [pc |-> "push", ops |-> OpsFor(w, changes, n)]
      /\ UNCHANGED <<pending, scheduled, projecting, thread, index, ready, backfilled,
                     rebuilt, tried, disturbed>>
  BY DEF Write, theQueue, theIndex
<1> HIDE DEF n
<1>4. P \in Corpora /\ W \in [Ids -> Stamps]
  BY <1>1 DEF TypeOK, Corpora
<1> HIDE DEF P, W
<1>5. pack' \in [Workspaces -> Corpora] /\ written' \in [Workspaces -> [Ids -> Stamps]]
  BY <1>3, <1>4 DEF TypeOK
<1>6. writer' \in [pc : {"idle", "push", "schedule"}, ops : Seq(Ops)]
  BY <1>2, <1>3
<1>7. QED
  BY <1>1, <1>3, <1>5, <1>6 DEF TypeOK

LEMMA PushTypes ==
    ASSUME TypeOK, Push
    PROVE  TypeOK'
<1>1. pending \in Seq(Ops) /\ writer.ops \in Seq(Ops)
  BY DEF TypeOK
<1>2. pending' \in Seq(Ops)
  BY <1>1, ConcatProperties DEF Push
<1>3. writer' \in [pc : {"idle", "push", "schedule"}, ops : Seq(Ops)]
  BY DEF Push, TypeOK
<1>4. QED
  BY <1>2, <1>3 DEF Push, TypeOK, theIndex

\* A flush thread is no search.
LEMMA Apart ==
    /\ Flushers \subseteq Threads /\ Searches \subseteq Threads
    /\ \A t \in Flushers, s \in Searches : t # s
BY Constants DEF Threads

\* The write that ends: some thread is asleep after it, which was at work or
\* idle, and nothing else of the threads changed.
LEMMA ScheduleIs ==
    ASSUME TypeOK, FlushOnItsWay, Schedule
    PROVE  /\ TypeOK' /\ scheduled'
           /\ Unpushed = <<>> /\ Unpushed' = <<>>
           /\ UNCHANGED <<pack, written, writes, pending, projecting, index, tried, disturbed>>
           /\ \E t \in Flushers : thread'[t].pc = "sleep"
           /\ \A x \in Threads :
                \/ thread'[x] = thread[x]
                \/ /\ x \in Flushers /\ thread[x].pc = "idle" /\ thread'[x].pc = "sleep"
                   /\ thread'[x].ops = thread[x].ops
<1>1. /\ writer.pc = "schedule" /\ writer' = NoWrite
      /\ UNCHANGED <<pack, written, writes, pending, projecting, index, ready, backfilled,
                     rebuilt, tried, disturbed>>
  BY DEF Schedule, theIndex
<1>2. Unpushed = <<>> /\ Unpushed' = <<>>
  BY <1>1 DEF Unpushed, NoWrite
<1>3. writer' \in [pc : {"idle", "push", "schedule"}, ops : Seq(Ops)]
  BY <1>1 DEF NoWrite
<1>4. CASE scheduled
  <2>1. UNCHANGED <<scheduled, thread>>
    BY <1>4 DEF Schedule
  <2>2. \E t \in Flushers : thread[t].pc = "sleep"
    BY <1>4 DEF FlushOnItsWay, At
  <2>3. QED
    BY <1>1, <1>2, <1>3, <1>4, <2>1, <2>2 DEF TypeOK
<1>5. CASE ~scheduled
  <2>1. PICK t \in Flushers : At(t, "idle") /\ GoTo(t, "sleep") /\ scheduled' = TRUE
    BY <1>5 DEF Schedule
  <2>2. t \in Threads /\ "sleep" \in Pcs
    BY Apart DEF Pcs
  <2>3. /\ thread' \in [Threads -> ThreadStates] /\ Others(t)
        /\ thread'[t].pc = "sleep" /\ thread'[t].ops = thread[t].ops
    BY <2>1, <2>2, GoToIs
  <2>4. TypeOK'
    BY <1>1, <1>3, <2>1, <2>3 DEF TypeOK
  <2>5. QED
    BY <1>1, <1>2, <2>1, <2>3, <2>4 DEF At, Others
<1>6. QED
  BY <1>4, <1>5

LEMMA WakeIs ==
    ASSUME TypeOK, NEW t \in Flushers, Wake(t)
    PROVE  /\ TypeOK' /\ ~scheduled'
           /\ thread[t].pc = "sleep" /\ thread'[t].pc = "flush" /\ Others(t)
           /\ thread'[t].ops = thread[t].ops
           /\ UNCHANGED <<pack, written, writes, writer, pending, projecting, index,
                          tried, disturbed>>
<1>1. t \in Threads /\ "flush" \in Pcs
  BY Apart DEF Pcs
<1>2. /\ thread[t].pc = "sleep" /\ GoTo(t, "flush") /\ scheduled' = FALSE
      /\ UNCHANGED <<pack, written, writes, writer, pending, projecting, index, ready,
                     backfilled, rebuilt, tried, disturbed>>
  BY DEF Wake, At, theWrite, theIndex
<1>3. /\ thread' \in [Threads -> ThreadStates] /\ Others(t)
      /\ thread'[t].pc = "flush" /\ thread'[t].ops = thread[t].ops
  BY <1>1, <1>2, GoToIs
<1>4. TypeOK'
  BY <1>2, <1>3 DEF TypeOK
<1>5. QED
  BY <1>2, <1>3, <1>4

\* A thread that takes the index, and one that gives it back.
LEMMA LockIs ==
    ASSUME TypeOK, NEW t \in Threads, Lock(t)
    PROVE  /\ Others(t) /\ projecting = None /\ projecting' = t
           /\ thread[t].pc = "flush" /\ thread'[t].pc = "take"
           /\ thread'[t].ops = thread[t].ops
           /\ thread'[t].ws = thread[t].ws /\ thread'[t].floor = thread[t].floor
           /\ UNCHANGED <<pack, written, writes, writer, pending, scheduled, index,
                          tried, disturbed>>
<1>1. "take" \in Pcs
  BY DEF Pcs
<1>2. /\ thread[t].pc = "flush" /\ projecting = None /\ projecting' = t /\ GoTo(t, "take")
      /\ UNCHANGED <<pack, written, writes, writer, pending, scheduled, index,
                     tried, disturbed>>
  BY DEF Lock, At, theWrite, theIndex
<1>3. QED
  BY <1>1, <1>2, GoToIs

LEMMA UnlockIs ==
    ASSUME TypeOK, NEW t \in Threads, Unlock(t)
    PROVE  /\ Others(t) /\ projecting' = None
           /\ thread[t].pc = "apply" /\ thread[t].ops = <<>> /\ thread'[t].ops = <<>>
           /\ \/ t \in Flushers /\ thread'[t].pc = "idle"
              \/ /\ t \in Searches /\ thread'[t].pc = "ensure"
                 /\ thread'[t].ws = thread[t].ws /\ thread'[t].floor = thread[t].floor
           /\ UNCHANGED <<pack, written, writes, writer, pending, scheduled, index,
                          tried, disturbed>>
<1>1. /\ thread[t].pc = "apply" /\ thread[t].ops = <<>> /\ projecting' = None
      /\ UNCHANGED <<pack, written, writes, writer, pending, scheduled, index,
                     tried, disturbed>>
  BY DEF Unlock, At, theWrite, theIndex
<1>2. CASE t \in Flushers
  <2>1. thread' = [thread EXCEPT ![t] = Unused]
    BY <1>2 DEF Unlock
  <2>2. Others(t) /\ thread'[t].pc = "idle" /\ thread'[t].ops = <<>>
    BY <2>1, UnusedIs
  <2>3. QED
    BY <1>1, <1>2, <2>2
<1>3. CASE t \notin Flushers
  <2>1. GoTo(t, "ensure") /\ t \in Searches /\ "ensure" \in Pcs
    BY <1>3 DEF Unlock, Threads, Pcs
  <2>2. /\ Others(t) /\ thread'[t].pc = "ensure" /\ thread'[t].ops = thread[t].ops
        /\ thread'[t].ws = thread[t].ws /\ thread'[t].floor = thread[t].floor
    BY <2>1, GoToIs
  <2>3. QED
    BY <1>1, <2>1, <2>2
<1>4. QED
  BY <1>2, <1>3

LEMMA BeginTypes ==
    ASSUME TypeOK, NEW s \in Searches, NEW w \in Workspaces, NEW query \in Queries,
           NEW scoped \in BOOLEAN, BeginSearch(s, w, query, scoped)
    PROVE  TypeOK'
<1>1. thread' \in [Threads -> ThreadStates]
  BY BeginIs
<1>2. QED
  BY <1>1 DEF BeginSearch, TypeOK, theWrite, theQueue, theIndex

-----------------------------------------------------------------------------
(* A flush is on its way, and one thread has the index. *)

\* While the threads that flush stay on their way, so does the flush.
LEMMA WayKept ==
    ASSUME FlushOnItsWay,
           pending' # <<>> => pending # <<>>,
           writer.pc = "schedule" => writer'.pc = "schedule",
           scheduled' => scheduled,
           \A t \in Flushers :
              /\ thread[t].pc = "sleep" => thread'[t].pc = "sleep"
              /\ pending' # <<>> /\ thread[t].pc \in {"flush", "take"}
                    => thread'[t].pc \in {"flush", "take"}
    PROVE  FlushOnItsWay'
<1>1. ASSUME pending' # <<>>
      PROVE  \/ writer'.pc = "schedule"
             \/ \E t \in Flushers : thread'[t].pc \in {"sleep", "flush", "take"}
  BY <1>1 DEF FlushOnItsWay
<1>2. ASSUME scheduled'
      PROVE  \E t \in Flushers : thread'[t].pc = "sleep"
  BY <1>2 DEF FlushOnItsWay, At
<1>3. QED
  BY <1>1, <1>2 DEF FlushOnItsWay, At

LEMMA WayNext ==
    ASSUME TypeOK, FlushOnItsWay, OneHolder, FloorInLine, Next
    PROVE  FlushOnItsWay'
<1>1. CASE \E w \in Workspaces : \E changes \in Changes : Write(w, changes)
  BY <1>1, WayKept DEF Write, theQueue
<1>2. CASE Push
  <2>1. /\ writer'.pc = "schedule"
        /\ UNCHANGED <<scheduled, thread>>
    BY <1>2 DEF Push, TypeOK
  <2>2. QED
    BY <2>1 DEF FlushOnItsWay, At
<1>3. CASE Schedule
  <2>1. \E t \in Flushers : thread'[t].pc = "sleep"
    BY <1>3, ScheduleIs
  <2>2. QED
    BY <2>1 DEF FlushOnItsWay, At
<1>4. CASE \E t \in Flushers : Wake(t)
  <2>1. PICK t \in Flushers : Wake(t)
    BY <1>4
  <2>2. ~scheduled' /\ thread'[t].pc = "flush"
    BY <2>1, WakeIs
  <2>3. QED
    BY <2>2 DEF FlushOnItsWay, At
<1>5. CASE \E t \in Threads : Flush(t)
  <2>1. PICK t \in Threads : Flush(t)
    BY <1>5
  <2>2. CASE Lock(t)
    BY <2>2, LockIs, WayKept, Apart DEF Others
  <2>3. CASE TakeOps(t)
    <3>1. /\ UNCHANGED <<writer, scheduled>> /\ pending' = <<>>
          /\ thread[t].pc = "take" /\ Others(t)
      BY <2>3, TakeIs DEF TakeOps, theWrite
    <3>2. QED
      BY <3>1, WayKept, Apart DEF Others
  <2>4. CASE Apply(t)
    <3>1. /\ UNCHANGED <<writer, scheduled, pending>>
          /\ thread[t].pc = "apply" /\ Others(t)
      <4>1. /\ UNCHANGED <<writer, scheduled, pending>> /\ thread[t].pc = "apply"
            /\ thread' = [thread EXCEPT ![t].ops =
                  SubSeq(thread[t].ops, Len(FirstRun(thread[t].ops)) + 1, Len(thread[t].ops))]
        BY <2>4 DEF Apply, At, theWrite, theQueue
      <4>2. Others(t)
        BY <4>1 DEF Others, TypeOK
      <4>3. QED
        BY <4>1, <4>2
    <3>2. QED
      BY <3>1, WayKept, Apart DEF Others
  <2>5. CASE Unlock(t)
    BY <2>5, UnlockIs, WayKept, Apart DEF Others
  <2>6. QED
    BY <2>1, <2>2, <2>3, <2>4, <2>5 DEF Flush
<1>6. CASE \E s \in Searches, w \in Workspaces, query \in Queries, scoped \in BOOLEAN :
              BeginSearch(s, w, query, scoped)
  <2>1. PICK s \in Searches, w \in Workspaces, query \in Queries, scoped \in BOOLEAN :
           BeginSearch(s, w, query, scoped)
    BY <1>6
  <2>2. Others(s) /\ UNCHANGED <<writer, pending, scheduled>>
    BY <2>1, BeginIs DEF BeginSearch, theWrite, theQueue
  <2>3. QED
    BY <2>2, WayKept, Apart DEF Others
<1>7. CASE \E s \in Searches : Search(s)
  <2>1. PICK s \in Searches : Search(s)
    BY <1>7
  <2>2. Others(s) /\ UNCHANGED <<writer, pending, scheduled>>
    BY <2>1, SearchIs
  <2>3. QED
    BY <2>2, WayKept, Apart DEF Others
<1>8. QED
  BY <1>1, <1>2, <1>3, <1>4, <1>5, <1>6, <1>7 DEF Next

\* A step that takes or gives up no index keeps one holder.
LEMMA HolderKept ==
    ASSUME OneHolder, projecting' = projecting,
           \A t \in Threads :
              \/ thread'[t] = thread[t]
              \/ /\ thread[t].pc \in {"take", "apply"} <=> thread'[t].pc \in {"take", "apply"}
                 /\ thread'[t].ops # <<>> => thread'[t].pc = "apply"
    PROVE  OneHolder'
BY DEF OneHolder, At

LEMMA HolderNext ==
    ASSUME TypeOK, FlushOnItsWay, OneHolder, FloorInLine, LineInOrder, LineIsWhatIsLeft, Next
    PROVE  OneHolder'
<1>0. \A t \in Threads : thread[t].pc \notin {"take", "apply"} => thread[t].ops = <<>>
  BY DEF OneHolder, At
<1>1. CASE \E w \in Workspaces : \E changes \in Changes : Write(w, changes)
  BY <1>1, HolderKept DEF Write, theQueue
<1>2. CASE Push
  BY <1>2, HolderKept DEF Push
<1>3. CASE Schedule
  <2>1. /\ projecting' = projecting
        /\ \A x \in Threads :
             \/ thread'[x] = thread[x]
             \/ /\ thread[x].pc = "idle" /\ thread'[x].pc = "sleep"
                /\ thread'[x].ops = thread[x].ops
    BY <1>3, ScheduleIs
  <2>2. QED
    BY <1>0, <2>1, HolderKept
<1>4. CASE \E t \in Flushers : Wake(t)
  <2>1. PICK t \in Flushers : Wake(t)
    BY <1>4
  <2>2. /\ projecting' = projecting /\ Others(t)
        /\ thread[t].pc = "sleep" /\ thread'[t].pc = "flush" /\ thread'[t].ops = thread[t].ops
    BY <2>1, WakeIs
  <2>3. thread[t].ops = <<>>
    BY <1>0, <2>2, Apart
  <2>4. QED
    BY <2>2, <2>3, HolderKept DEF Others
<1>5. CASE \E t \in Threads : Flush(t)
  <2>1. PICK t \in Threads : Flush(t)
    BY <1>5
  <2>2. CASE Lock(t)
    <3>1. /\ Others(t) /\ projecting = None /\ projecting' = t
          /\ thread[t].pc = "flush" /\ thread'[t].pc = "take" /\ thread'[t].ops = thread[t].ops
      BY <2>2, LockIs
    <3>2. \A x \in Threads : thread[x].pc \notin {"take", "apply"} /\ thread[x].ops = <<>>
      BY <1>0, <3>1, Constants DEF OneHolder
    <3>3. QED
      BY <3>1, <3>2 DEF OneHolder, At, Others
  <2>3. CASE TakeOps(t)
    <3>1. /\ Others(t) /\ thread[t].pc = "take" /\ thread'[t].pc = "apply"
          /\ projecting' = projecting
      BY <2>3, TakeIs DEF TakeOps
    <3>2. QED
      BY <3>1, HolderKept DEF Others
  <2>4. CASE Apply(t)
    <3>1. /\ Others(t) /\ thread[t].pc = "apply" /\ thread'[t].pc = "apply"
          /\ projecting' = projecting
      BY <2>4, ApplyIs
    <3>2. QED
      BY <3>1, HolderKept DEF Others
  <2>5. CASE Unlock(t)
    <3>1. /\ Others(t) /\ projecting' = None /\ thread[t].pc = "apply"
          /\ thread'[t].ops = <<>> /\ thread'[t].pc \in {"idle", "ensure"}
      BY <2>5, UnlockIs
    <3>2. projecting = t
      BY <3>1 DEF OneHolder
    <3>3. \A x \in Threads : x # t => thread[x].pc \notin {"take", "apply"} /\ thread[x].ops = <<>>
      BY <1>0, <3>2 DEF OneHolder
    <3>4. QED
      BY <3>1, <3>3, Constants DEF OneHolder, At, Others
  <2>6. QED
    BY <2>1, <2>2, <2>3, <2>4, <2>5 DEF Flush
<1>6. CASE \E s \in Searches, w \in Workspaces, query \in Queries, scoped \in BOOLEAN :
              BeginSearch(s, w, query, scoped)
  <2>1. PICK s \in Searches, w \in Workspaces, query \in Queries, scoped \in BOOLEAN :
           BeginSearch(s, w, query, scoped)
    BY <1>6
  <2>2. /\ Others(s) /\ projecting' = projecting /\ thread[s].pc = "idle"
        /\ thread'[s].pc = "flush" /\ thread'[s].ops = <<>>
    BY <2>1, BeginIs DEF BeginSearch, theQueue, At
  <2>3. QED
    BY <2>2, HolderKept DEF Others
<1>7. CASE \E s \in Searches : Search(s)
  <2>1. PICK s \in Searches : Search(s)
    BY <1>7
  <2>2. /\ Others(s) /\ projecting' = projecting
        /\ thread[s].pc \notin {"take", "apply"} /\ thread'[s].pc \notin {"take", "apply"}
        /\ thread'[s].ops = thread[s].ops \/ thread'[s].ops = <<>>
    BY <2>1, SearchIs
  <2>3. thread'[s].ops = <<>>
    BY <1>0, <2>2, Apart
  <2>4. QED
    BY <2>2, <2>3, HolderKept DEF Others
<1>8. QED
  BY <1>1, <1>2, <1>3, <1>4, <1>5, <1>6, <1>7 DEF Next

-----------------------------------------------------------------------------
(* The line at every step. *)

LEMMA LineNext ==
    ASSUME TypeOK, FlushOnItsWay, OneHolder, FloorInLine, LineInOrder, LineIsWhatIsLeft, Next
    PROVE  LineInOrder' /\ LineIsWhatIsLeft'
<1>0. \A t \in Threads : thread[t].pc # "apply" => thread[t].ops = <<>>
  BY DEF OneHolder, At
<1>1. CASE \E w \in Workspaces : \E changes \in Changes : Write(w, changes)
  BY <1>1, LineWrite
<1>2. CASE Push
  BY <1>2, LinePush
<1>3. CASE Schedule
  <2>1. /\ \A t \in Threads : thread'[t].ops = thread[t].ops
        /\ Unpushed' = Unpushed /\ UNCHANGED <<pending, pack, written, writes, tried>>
    BY <1>3, ScheduleIs
  <2>2. QED
    BY <2>1, LineKept
<1>4. CASE \E t \in Flushers : Wake(t)
  <2>1. PICK t \in Flushers : Wake(t)
    BY <1>4
  <2>2. /\ \A x \in Threads : thread'[x].ops = thread[x].ops
        /\ Unpushed' = Unpushed /\ UNCHANGED <<pending, pack, written, writes, tried>>
    BY <2>1, WakeIs DEF Others, Unpushed
  <2>3. QED
    BY <2>2, LineKept
<1>5. CASE \E t \in Threads : Flush(t)
  <2>1. PICK t \in Threads : Flush(t)
    BY <1>5
  <2>2. CASE Lock(t) \/ Unlock(t)
    <3>1. /\ \A x \in Threads : thread'[x].ops = thread[x].ops
          /\ Unpushed' = Unpushed /\ UNCHANGED <<pending, pack, written, writes, tried>>
      BY <2>2, LockIs, UnlockIs DEF Others, Unpushed
    <3>2. QED
      BY <3>1, LineKept
  <2>3. CASE TakeOps(t)
    BY <2>3, LineTake
  <2>4. CASE Apply(t)
    BY <2>4, LineApply
  <2>5. QED
    BY <2>1, <2>2, <2>3, <2>4 DEF Flush
<1>6. CASE \E s \in Searches, w \in Workspaces, query \in Queries, scoped \in BOOLEAN :
              BeginSearch(s, w, query, scoped)
  <2>1. PICK s \in Searches, w \in Workspaces, query \in Queries, scoped \in BOOLEAN :
           BeginSearch(s, w, query, scoped)
    BY <1>6
  <2>2. /\ Others(s) /\ thread'[s].ops = <<>> /\ thread[s].pc = "idle"
        /\ UNCHANGED <<pending, writer, pack, written, writes, tried>>
    BY <2>1, BeginIs DEF BeginSearch, At, theWrite, theQueue
  <2>3. \A x \in Threads : thread'[x].ops = thread[x].ops
    BY <1>0, <2>2, Apart DEF Others
  <2>4. QED
    BY <2>2, <2>3, LineKept DEF Unpushed
<1>7. CASE \E s \in Searches : Search(s)
  <2>1. PICK s \in Searches : Search(s)
    BY <1>7
  <2>2. /\ Others(s) /\ thread'[s].ops \in {thread[s].ops, <<>>} /\ thread[s].pc # "apply"
        /\ UNCHANGED <<pending, writer, pack, written, writes, tried>>
    BY <2>1, SearchIs
  <2>3. \A x \in Threads : thread'[x].ops = thread[x].ops
    BY <1>0, <2>2, Apart DEF Others
  <2>4. QED
    BY <2>2, <2>3, LineKept DEF Unpushed
<1>8. QED
  BY <1>1, <1>2, <1>3, <1>4, <1>5, <1>6, <1>7 DEF Next

-----------------------------------------------------------------------------
(* What a search may not run ahead of. *)

Covered(op, s, i) == For(op, thread[s].ws, i) /\ op.at >= thread[s].floor[i]

\* A search that has begun has a workspace, and what it waits for is tried,
\* in the line, or in its hands.
FloorOf(s, i) ==
    /\ thread[s].ws \in Workspaces
    /\ \/ tried[thread[s].ws][i] >= thread[s].floor[i]
       \/ thread[s].pc \in {"flush", "take"} /\ \E op \in Taken : Covered(op, s, i)
       \/ thread[s].pc = "apply" /\ \E op \in ToSet(thread[s].ops) : Covered(op, s, i)

LEMMA FloorMeans ==
    FloorInLine <=> \A s \in Searches, i \in Ids : thread[s].pc # "idle" => FloorOf(s, i)
BY DEF FloorInLine, FloorOf, Covered, At

\* A search past its flush has what it waited for.
LEMMA Asked ==
    ASSUME FloorInLine
    PROVE  FlushedBeforeAsked
BY DEF FloorInLine, FlushedBeforeAsked, At

\* A search that stays where it is, while the line moves on.
LEMMA FloorKept ==
    ASSUME TypeOK, TypeOK', NEW s \in Searches, NEW i \in Ids, FloorOf(s, i),
           thread'[s] = thread[s], thread[s].pc # "apply",
           \A w \in Workspaces : tried[w][i] <= tried'[w][i],
           \A op \in Taken : op \in Taken' \/ op.at <= tried'[op.ws][op.id]
    PROVE  FloorOf(s, i)'
<1> DEFINE w == thread[s].ws
           f == thread[s].floor[i]
<1>1. f \in Nat /\ w \in Workspaces
  BY Apart, Constants DEF TypeOK, ThreadStates, Stamps, FloorOf
<1>2. tried[w][i] \in Nat /\ tried'[w][i] \in Nat
  BY <1>1, Constants DEF TypeOK, Stamps
<1>3. thread'[s].ws = w /\ thread'[s].floor[i] = f
  OBVIOUS
<1>4. CASE tried[w][i] >= f
  <2>1. tried'[w][i] >= f
    BY <1>1, <1>2, <1>4
  <2>2. QED
    BY <1>1, <1>3, <2>1 DEF FloorOf
<1>5. CASE thread[s].pc \in {"flush", "take"} /\ \E op \in Taken : Covered(op, s, i)
  <2>1. PICK op \in Taken : Covered(op, s, i)
    BY <1>5
  <2>2. op.ws = w /\ op.id = i /\ op.at >= f /\ op.at \in Nat
    BY <2>1, LineOps DEF Covered, For, InLine
  <2>3. CASE op \in Taken'
    BY <1>1, <1>3, <1>5, <2>2, <2>3 DEF FloorOf, Covered, For
  <2>4. CASE op.at <= tried'[op.ws][op.id]
    <3>1. tried'[w][i] >= f
      BY <1>1, <1>2, <2>2, <2>4
    <3>2. QED
      BY <1>1, <1>3, <3>1 DEF FloorOf
  <2>5. QED
    BY <2>1, <2>3, <2>4
<1>6. QED
  BY <1>4, <1>5 DEF FloorOf

\* The other searches, when one thread moves.
LEMMA FloorOthers ==
    ASSUME TypeOK, TypeOK', OneHolder, FloorInLine,
           NEW s \in Searches, NEW i \in Ids, thread[s].pc # "idle", thread'[s] = thread[s],
           UNCHANGED tried, Taken' = Taken
    PROVE  FloorOf(s, i)'
<1>1. FloorOf(s, i)
  BY FloorMeans
<1>2. CASE thread[s].pc # "apply"
  <2>1. \A w \in Workspaces : tried[w][i] <= tried'[w][i]
    BY Constants DEF TypeOK, Stamps
  <2>2. QED
    BY <1>1, <1>2, <2>1, FloorKept
<1>3. CASE thread[s].pc = "apply"
  BY <1>1, <1>3 DEF FloorOf, Covered, For
<1>4. QED
  BY <1>2, <1>3

\* A flush of a search's own, or of another's.
LEMMA FloorFlush ==
    ASSUME TypeOK, TypeOK', OneHolder, FloorInLine, LineInOrder, LineIsWhatIsLeft,
           NEW t \in Threads, Flush(t),
           NEW s \in Searches, NEW i \in Ids, thread'[s].pc # "idle"
    PROVE  FloorOf(s, i)'
<1>0. s \in Threads /\ \A op : Covered(op, s, i) <=> For(op, thread[s].ws, i) /\ op.at >= thread[s].floor[i]
  BY Apart DEF Covered
<1>1. CASE Lock(t)
  <2>1. /\ Others(t) /\ thread[t].pc = "flush" /\ thread'[t].pc = "take"
        /\ thread'[t].ops = thread[t].ops
        /\ thread'[t].ws = thread[t].ws /\ thread'[t].floor = thread[t].floor
        /\ UNCHANGED <<pending, tried>>
    BY <1>1, LockIs
  <2>2. Taken' = Taken
    BY <2>1 DEF Taken, Others
  <2>3. CASE s # t
    BY <1>0, <2>1, <2>2, <2>3, FloorOthers DEF Others
  <2>4. CASE s = t
    <3>1. FloorOf(s, i)
      BY <2>1, <2>4, FloorMeans
    <3>2. QED
      BY <2>1, <2>2, <2>4, <3>1 DEF FloorOf, Covered, For
  <2>5. QED
    BY <2>3, <2>4
<1>2. CASE TakeOps(t)
  <2>1. /\ Others(t) /\ thread[t].pc = "take" /\ thread'[t].pc = "apply"
        /\ thread'[t].ops = pending /\ \A x \in Threads : thread[x].ops = <<>>
        /\ thread'[t].ws = thread[t].ws /\ thread'[t].floor = thread[t].floor
        /\ UNCHANGED tried
    BY <1>2, TakeIs DEF TakeOps
  <2>2. Taken' = Taken
    BY <1>2, LineTake
  <2>3. CASE s # t
    BY <1>0, <2>1, <2>2, <2>3, FloorOthers DEF Others
  <2>4. CASE s = t
    <3>1. FloorOf(s, i)
      BY <2>1, <2>4, FloorMeans
    <3>2. Taken = ToSet(pending)
      BY <2>1 DEF Taken, ToSet
    <3>3. \/ tried[thread[s].ws][i] >= thread[s].floor[i]
          \/ \E op \in ToSet(thread'[s].ops) : Covered(op, s, i)
      BY <2>1, <2>4, <3>1, <3>2 DEF FloorOf
    <3>4. \A op : Covered(op, s, i)' <=> For(op, thread[s].ws, i) /\ op.at >= thread[s].floor[i]
      BY <2>1, <2>4 DEF Covered, For
    <3>5. QED
      BY <1>0, <2>1, <2>4, <3>1, <3>3, <3>4 DEF FloorOf
  <2>5. QED
    BY <2>3, <2>4
<1>3. CASE Apply(t)
  <2>1. /\ Others(t) /\ thread[t].pc = "apply" /\ thread'[t].pc = "apply"
        /\ thread'[t].ws = thread[t].ws /\ thread'[t].floor = thread[t].floor
        /\ \A op \in ToSet(thread[t].ops) :
             op \in ToSet(thread'[t].ops) \/ op.at <= tried'[op.ws][op.id]
    BY <1>3, ApplyIs
  <2>2. /\ \A op \in Taken : op \in Taken' \/ op.at <= tried'[op.ws][op.id]
        /\ \A w \in Workspaces : tried[w][i] <= tried'[w][i]
    BY <1>3, LineApply
  <2>3. CASE s # t
    <3>1. thread'[s] = thread[s] /\ thread[s].pc # "apply"
      BY <1>0, <2>1, <2>3 DEF Others, OneHolder
    <3>2. FloorOf(s, i)
      BY <3>1, FloorMeans
    <3>3. QED
      BY <2>2, <3>1, <3>2, FloorKept
  <2>4. CASE s = t
    <3> DEFINE w == thread[s].ws
               f == thread[s].floor[i]
    <3>1. FloorOf(s, i)
      BY <2>1, <2>4, FloorMeans
    <3>2. f \in Nat /\ w \in Workspaces
      BY <1>0, <3>1, Constants DEF TypeOK, ThreadStates, Stamps, FloorOf
    <3>3. tried[w][i] \in Nat /\ tried'[w][i] \in Nat /\ tried[w][i] <= tried'[w][i]
      BY <2>2, <3>2, Constants DEF TypeOK, Stamps
    <3>4. thread'[s].ws = w /\ thread'[s].floor[i] = f
      BY <2>1, <2>4
    <3>5. CASE tried[w][i] >= f
      <4>1. tried'[w][i] >= f
        BY <3>2, <3>3, <3>5
      <4>2. QED
        BY <3>2, <3>4, <4>1 DEF FloorOf
    <3>6. CASE \E op \in ToSet(thread[s].ops) : Covered(op, s, i)
      <4>1. PICK op \in ToSet(thread[s].ops) : Covered(op, s, i)
        BY <3>6
      <4>2. op.ws = w /\ op.id = i /\ op.at >= f /\ op.at \in Nat
        BY <1>0, <4>1, LineOps DEF Covered, For, InLine, Taken
      <4>3. CASE op \in ToSet(thread'[s].ops)
        BY <2>1, <2>4, <3>2, <3>4, <4>2, <4>3 DEF FloorOf, Covered, For
      <4>4. CASE op.at <= tried'[op.ws][op.id]
        <5>1. tried'[w][i] >= f
          BY <3>2, <3>3, <4>2, <4>4
        <5>2. QED
          BY <3>2, <3>4, <5>1 DEF FloorOf
      <4>5. QED
        BY <2>1, <2>4, <4>1, <4>3, <4>4
    <3>7. QED
      BY <2>1, <2>4, <3>1, <3>5, <3>6 DEF FloorOf
  <2>5. QED
    BY <2>3, <2>4
<1>4. CASE Unlock(t)
  <2>1. /\ Others(t) /\ thread[t].pc = "apply" /\ thread[t].ops = <<>> /\ thread'[t].ops = <<>>
        /\ \/ t \in Flushers
           \/ thread'[t].ws = thread[t].ws /\ thread'[t].floor = thread[t].floor
        /\ UNCHANGED <<pending, tried>>
    BY <1>4, UnlockIs
  <2>2. Taken' = Taken
    BY <2>1 DEF Taken, Others
  <2>3. CASE s # t
    BY <1>0, <2>1, <2>2, <2>3, FloorOthers DEF Others
  <2>4. CASE s = t
    <3>1. FloorOf(s, i)
      BY <2>1, <2>4, FloorMeans
    <3>2. tried[thread[s].ws][i] >= thread[s].floor[i]
      BY <2>1, <2>4, <3>1 DEF FloorOf, ToSet
    <3>3. t \notin Flushers
      BY <2>4, Apart
    <3>4. QED
      BY <2>1, <2>4, <3>1, <3>2, <3>3 DEF FloorOf
  <2>5. QED
    BY <2>3, <2>4
<1>5. QED
  BY <1>1, <1>2, <1>3, <1>4 DEF Flush

\* A search that begins waits for writes that are over, and of those that no
\* child was run for yet the ops are queued or taken.
LEMMA FloorBegin ==
    ASSUME TypeOK, LineInOrder, LineIsWhatIsLeft,
           NEW s \in Searches, NEW w \in Workspaces, NEW query \in Queries,
           NEW scoped \in BOOLEAN, BeginSearch(s, w, query, scoped), Taken' = Taken,
           NEW i \in Ids
    PROVE  FloorOf(s, i)'
<1>1. /\ thread'[s].pc = "flush" /\ thread'[s].ws = w
      /\ thread'[s].floor[i] =
           IF writer.pc # "idle" /\ written[w][i] = writes THEN 0 ELSE written[w][i]
  BY BeginIs
<1>1a. tried' = tried
  BY DEF BeginSearch
<1>2. tried[w][i] \in Nat /\ written[w][i] \in Nat
  BY Marks
<1>3. CASE tried[w][i] >= thread'[s].floor[i]
  BY <1>1, <1>1a, <1>3 DEF FloorOf
<1>4. CASE ~(tried[w][i] >= thread'[s].floor[i])
  <2>1. /\ thread'[s].floor[i] = written[w][i] /\ tried[w][i] < written[w][i]
        /\ ~(writer.pc # "idle" /\ written[w][i] = writes)
    BY <1>1, <1>2, <1>4
  <2>2. PICK op \in InLine : For(op, w, i) /\ op.at = written[w][i]
    BY <2>1 DEF LineIsWhatIsLeft
  <2>3. op \notin ToSet(Unpushed)
    <3> SUFFICES ASSUME op \in ToSet(Unpushed) PROVE FALSE
      OBVIOUS
    <3>1. PICK k \in 1..Len(Unpushed) : op = Unpushed[k]
      BY LineOps, Places
    <3>2. op.at = writes
      BY <3>1 DEF LineInOrder
    <3>3. writer.pc = "push"
      BY <3>1 DEF Unpushed
    <3>4. QED
      BY <2>1, <2>2, <3>2, <3>3
  <2>4. op \in Taken'
    BY <2>2, <2>3 DEF InLine
  <2>5. For(op, w, i) /\ op.at >= written[w][i]
    BY <1>2, <2>2
  <2>6. QED
    BY <1>1, <2>1, <2>4, <2>5 DEF FloorOf, Covered, For
<1>5. QED
  BY <1>3, <1>4

LEMMA FloorNext ==
    ASSUME TypeOK, TypeOK', FlushOnItsWay, OneHolder, FloorInLine, LineInOrder,
           LineIsWhatIsLeft, Next
    PROVE  FloorInLine'
<1>0. \A t \in Threads : thread[t].pc # "apply" => thread[t].ops = <<>>
  BY DEF OneHolder, At
<1> SUFFICES ASSUME NEW s \in Searches, NEW i \in Ids, thread'[s].pc # "idle"
             PROVE  FloorOf(s, i)'
  BY FloorMeans DEF FloorOf, Covered, FloorInLine, At
<1>s. s \in Threads /\ s \notin Flushers
  BY Apart
<1>1. CASE \E w \in Workspaces : \E changes \in Changes : Write(w, changes)
  <2>1. UNCHANGED <<thread, tried>>
    BY <1>1 DEF Write
  <2>2. Taken' = Taken
    BY <1>1, LineWrite
  <2>3. QED
    BY <2>1, <2>2, FloorOthers
<1>2. CASE Push
  <2>1. UNCHANGED <<thread, tried>>
    BY <1>2 DEF Push
  <2>2. Taken \subseteq Taken'
    BY <1>2, LinePush
  <2>3. CASE thread[s].pc = "apply"
    BY <2>1, <2>3, FloorMeans DEF FloorOf, Covered, For
  <2>4. CASE thread[s].pc # "apply"
    <3>1. FloorOf(s, i)
      BY <2>1, FloorMeans
    <3>2. \A w \in Workspaces : tried[w][i] <= tried'[w][i]
      BY <2>1, Constants DEF TypeOK, Stamps
    <3>3. QED
      BY <2>1, <2>2, <2>4, <3>1, <3>2, FloorKept
  <2>5. QED
    BY <2>3, <2>4
<1>3. CASE Schedule
  <2>1. /\ \A t \in Threads : thread'[t].ops = thread[t].ops
        /\ thread'[s] = thread[s] /\ UNCHANGED <<pending, tried>>
    BY <1>3, <1>s, ScheduleIs
  <2>2. Taken' = Taken
    BY <2>1 DEF Taken
  <2>3. QED
    BY <2>1, <2>2, FloorOthers
<1>4. CASE \E t \in Flushers : Wake(t)
  <2>1. PICK t \in Flushers : Wake(t)
    BY <1>4
  <2>2. /\ \A x \in Threads : thread'[x].ops = thread[x].ops
        /\ thread'[s] = thread[s] /\ UNCHANGED <<pending, tried>>
    BY <1>s, <2>1, WakeIs DEF Others
  <2>3. Taken' = Taken
    BY <2>2 DEF Taken
  <2>4. QED
    BY <2>2, <2>3, FloorOthers
<1>5. CASE \E t \in Threads : Flush(t)
  BY <1>5, FloorFlush
<1>6. CASE \E r \in Searches, w \in Workspaces, query \in Queries, scoped \in BOOLEAN :
              BeginSearch(r, w, query, scoped)
  <2>1. PICK r \in Searches, w \in Workspaces, query \in Queries, scoped \in BOOLEAN :
           BeginSearch(r, w, query, scoped)
    BY <1>6
  <2>2. /\ Others(r) /\ thread'[r].ops = <<>> /\ thread[r].pc = "idle"
        /\ UNCHANGED <<pending, tried>>
    BY <2>1, BeginIs DEF BeginSearch, At, theQueue
  <2>3. \A x \in Threads : thread'[x].ops = thread[x].ops
    BY <1>0, <2>2, Apart DEF Others
  <2>4. Taken' = Taken
    BY <2>2, <2>3 DEF Taken
  <2>5. CASE s = r
    BY <2>1, <2>4, <2>5, FloorBegin
  <2>6. CASE s # r
    BY <1>s, <2>2, <2>4, <2>6, FloorOthers DEF Others
  <2>7. QED
    BY <2>5, <2>6
<1>7. CASE \E r \in Searches : Search(r)
  <2>1. PICK r \in Searches : Search(r)
    BY <1>7
  <2>2. /\ Others(r) /\ UNCHANGED <<pending, tried>>
        /\ thread[r].pc \notin {"idle", "sleep", "flush", "take", "apply"}
        /\ \/ /\ thread'[r].pc \notin {"idle", "sleep", "flush", "take", "apply"}
              /\ thread'[r].ops = thread[r].ops
              /\ thread'[r].ws = thread[r].ws /\ thread'[r].floor = thread[r].floor
           \/ thread'[r].pc = "idle" /\ thread'[r].ops = <<>>
    BY <2>1, SearchIs
  <2>3. \A x \in Threads : thread'[x].ops = thread[x].ops
    BY <1>0, <2>2, Apart DEF Others
  <2>4. Taken' = Taken
    BY <2>2, <2>3 DEF Taken
  <2>5. CASE s = r
    <3>1. FloorOf(s, i)
      BY <2>2, <2>5, FloorMeans
    <3>2. QED
      BY <2>2, <2>5, <3>1 DEF FloorOf
  <2>6. CASE s # r
    BY <1>s, <2>2, <2>4, <2>6, FloorOthers DEF Others
  <2>7. QED
    BY <2>5, <2>6
<1>8. QED
  BY <1>1, <1>2, <1>3, <1>4, <1>5, <1>6, <1>7 DEF Next

-----------------------------------------------------------------------------
(* What the children were run for is in the index. *)

\* Nothing that the level speaks of is touched.
LEMMA LevelKept ==
    ASSUME LevelSoFar, UNCHANGED <<pack, written, tried, index, disturbed>>
    PROVE  LevelSoFar'
BY DEF LevelSoFar, Alone

\* A write of an atom puts it ahead of the children; the others stay.
LEMMA LevelWrite ==
    ASSUME TypeOK, LineIsWhatIsLeft, LevelSoFar,
           NEW w \in Workspaces, NEW changes \in Changes, Write(w, changes)
    PROVE  LevelSoFar'
<1> DEFINE n == writes + 1
<1>1. n \in Nat /\ writes \in Nat /\ writes < n /\ n # 0
  BY DEF TypeOK, Stamps
<1>2. \A v \in Workspaces, i \in Ids :
        /\ written'[v][i] = IF v = w /\ i \in DOMAIN changes THEN n ELSE written[v][i]
        /\ pack'[v][i] = IF v = w /\ i \in DOMAIN changes
                         THEN IF changes[i] = "stored" THEN n ELSE None
                         ELSE pack[v][i]
  BY DEF Write, TypeOK
<1>3. UNCHANGED <<tried, index, disturbed>>
  BY DEF Write, theIndex
<1> HIDE DEF n
<1> SUFFICES ASSUME ~disturbed, NEW v \in Workspaces, NEW i \in Ids,
                    Alone(v, i)', pack'[v][i] # None,
                    written'[v][i] > 0, tried[v][i] = written'[v][i]
             PROVE  index[i] = [ws |-> v, at |-> pack'[v][i]]
  BY <1>3 DEF LevelSoFar, Alone
<1>4. tried[v][i] \in Nat /\ tried[v][i] <= writes
  BY Marks DEF LineIsWhatIsLeft
<1>5. ~(v = w /\ i \in DOMAIN changes)
  BY <1>1, <1>2, <1>4
<1>6. written'[v][i] = written[v][i] /\ pack'[v][i] = pack[v][i]
  BY <1>2, <1>5
<1>7. \A u \in Workspaces \ {v} : written[u][i] = 0 /\ pack[u][i] = None
  <2> SUFFICES ASSUME NEW u \in Workspaces, u # v
               PROVE  written[u][i] = 0 /\ pack[u][i] = None
    OBVIOUS
  <2>1. written'[u][i] = 0 /\ pack'[u][i] = None
    BY DEF Alone
  <2>2. QED
    BY <1>1, <1>2, <2>1
<1>8. QED
  BY <1>6, <1>7 DEF LevelSoFar, Alone

\* A child leaves the last document of each id it had ops of.
LEMMA LevelApply ==
    ASSUME TypeOK, OneHolder, LineInOrder, LineIsWhatIsLeft, LevelSoFar,
           NEW t \in Threads, Apply(t)
    PROVE  LevelSoFar'
<1> DEFINE ops == thread[t].ops
           run == FirstRun(ops)
<1>1. /\ ops \in Seq(Ops) /\ ops # <<>> /\ ToSet(ops) \subseteq InLine
      /\ tried' = Noted(tried, run) /\ UNCHANGED <<pack, written>>
      /\ ~disturbed' => ~disturbed /\ index' = Applied(index, run)
  <2>1. ops \in Seq(Ops) /\ ToSet(ops) \subseteq InLine
    BY LineOps DEF InLine, Taken
  <2>2. QED
    BY <2>1 DEF Apply, theWrite
<1> HIDE DEF ops
<1>2. run \in Seq(Ops) /\ \A k \in 1..Len(run) : run[k] \in InLine
  <2>1. PICK m \in 1..Len(ops) : /\ Len(FirstRun(ops)) = m /\ FirstRun(ops) \in Seq(Ops)
                                 /\ \A k \in 1..m : FirstRun(ops)[k] = ops[k]
    BY <1>1, RunIs
  <2>2. \A k \in 1..m : ops[k] \in InLine
    <3>1. Len(ops) \in Nat /\ \A k \in 1..Len(ops) : ops[k] \in ToSet(ops)
      BY <1>1, Places
    <3>2. QED
      BY <1>1, <2>1, <3>1
  <2>3. QED
    BY <2>1, <2>2
<1> HIDE DEF run
<1> SUFFICES ASSUME ~disturbed', NEW w \in Workspaces, NEW i \in Ids,
                    Alone(w, i), pack[w][i] # None,
                    written[w][i] > 0, tried'[w][i] = written[w][i]
             PROVE  index'[i] = [ws |-> w, at |-> pack[w][i]]
  BY <1>1 DEF LevelSoFar, Alone
<1> DEFINE ofId == {k \in 1..Len(run) : run[k].id = i}
           ofAtom == {k \in 1..Len(run) : run[k].ws = w /\ run[k].id = i}
<1>3. /\ index'[i] = IF ofId = {} THEN index[i] ELSE Document(run[Max(ofId)])
      /\ tried'[w][i] = IF ofAtom = {} THEN tried[w][i] ELSE run[Max(ofAtom)].at
  BY <1>1 DEF Applied, Noted
<1>4. \A k \in 1..Len(run) : run[k].id = i => run[k].ws = w
  <2> SUFFICES ASSUME NEW k \in 1..Len(run), run[k].id = i, run[k].ws # w
               PROVE  FALSE
    OBVIOUS
  <2> DEFINE op == run[k]
  <2>1. op \in InLine /\ op.ws \in Workspaces /\ op.at \in 1..MaxWrites
    BY <1>2, LineOps
  <2>2. op.at <= written[op.ws][i]
    BY <2>1 DEF LineIsWhatIsLeft
  <2>3. written[op.ws][i] = 0
    BY <2>1 DEF Alone
  <2>4. QED
    BY <2>1, <2>2, <2>3, Constants
<1>5. ofAtom = ofId
  BY <1>4
<1>6. CASE ofId = {}
  BY <1>1, <1>3, <1>5, <1>6 DEF LevelSoFar
<1>7. CASE ofId # {}
  <2>1. PICK last \in ofId : last = Max(ofId)
    BY <1>2, <1>7, LastIn
  <2>2. run[last].ws = w /\ run[last].id = i /\ run[last].at = written[w][i]
    BY <1>3, <1>5, <1>7, <2>1
  <2>3. pack[w][i] = run[last].at
    BY <2>2 DEF LineIsWhatIsLeft
  <2>4. run[last].kind = "upsert"
    BY <1>2, <2>1, <2>2, <2>3 DEF LineIsWhatIsLeft
  <2>5. QED
    BY <1>3, <1>7, <2>1, <2>2, <2>3, <2>4 DEF Document
<1>8. QED
  BY <1>6, <1>7

\* A search changes the index by uploads and failures only, and says so.
LEMMA LevelNext ==
    ASSUME TypeOK, FlushOnItsWay, OneHolder, FloorInLine, LineInOrder,
           LineIsWhatIsLeft, LevelSoFar, Next
    PROVE  LevelSoFar'
<1>1. CASE \E w \in Workspaces : \E changes \in Changes : Write(w, changes)
  BY <1>1, LevelWrite
<1>2. CASE Push
  BY <1>2, LevelKept DEF Push, theIndex
<1>3. CASE Schedule
  BY <1>3, ScheduleIs, LevelKept
<1>4. CASE \E t \in Flushers : Wake(t)
  BY <1>4, WakeIs, LevelKept
<1>5. CASE \E t \in Threads : Flush(t)
  <2>1. PICK t \in Threads : Flush(t)
    BY <1>5
  <2>2. CASE Lock(t) \/ Unlock(t)
    BY <2>2, LockIs, UnlockIs, LevelKept
  <2>3. CASE TakeOps(t)
    BY <2>3, LevelKept DEF TakeOps, theWrite, theIndex
  <2>4. CASE Apply(t)
    BY <2>4, LevelApply
  <2>5. QED
    BY <2>1, <2>2, <2>3, <2>4 DEF Flush
<1>6. CASE \E s \in Searches, w \in Workspaces, query \in Queries, scoped \in BOOLEAN :
              BeginSearch(s, w, query, scoped)
  BY <1>6, LevelKept DEF BeginSearch, theWrite, theIndex
<1>7. CASE \E s \in Searches : Search(s)
  <2>1. PICK s \in Searches : Search(s)
    BY <1>7
  <2>2. UNCHANGED <<pack, written, tried>>
    BY <2>1, SearchIs
  <2>3. disturbed' = TRUE \/ (index' = index /\ disturbed' = disturbed)
    BY <2>1 DEF Search, Ensure, Replace, Reindex, Backfill, Ask, Rebuild, AskAgain,
                FallBack, EndSearch, Upload, Failed, theIndex
  <2>4. CASE disturbed' = TRUE
    BY <2>4 DEF LevelSoFar
  <2>5. CASE index' = index /\ disturbed' = disturbed
    BY <2>2, <2>5, LevelKept
  <2>6. QED
    BY <2>3, <2>4, <2>5
<1>8. QED
  BY <1>1, <1>2, <1>3, <1>4, <1>5, <1>6, <1>7 DEF Next

-----------------------------------------------------------------------------
(* The invariant. *)

LEMMA TypesNext ==
    ASSUME TypeOK, FlushOnItsWay, OneHolder, FloorInLine, Next
    PROVE  TypeOK'
<1>1. CASE \E w \in Workspaces : \E changes \in Changes : Write(w, changes)
  BY <1>1, WriteTypes
<1>2. CASE Push
  BY <1>2, PushTypes
<1>3. CASE Schedule
  BY <1>3, ScheduleIs
<1>4. CASE \E t \in Flushers : Wake(t)
  BY <1>4, WakeIs
<1>5. CASE \E t \in Threads : Flush(t)
  BY <1>5, QueueTypes
<1>6. CASE \E s \in Searches, w \in Workspaces, query \in Queries, scoped \in BOOLEAN :
              BeginSearch(s, w, query, scoped)
  BY <1>6, BeginTypes
<1>7. CASE \E s \in Searches : Search(s)
  BY <1>7, SearchTypes
<1>8. QED
  BY <1>1, <1>2, <1>3, <1>4, <1>5, <1>6, <1>7 DEF Next

LEMMA InitOK ==
    ASSUME Init
    PROVE  Inv
<1>1. /\ pending = <<>> /\ writer = NoWrite /\ scheduled = FALSE /\ projecting = None
      /\ thread = [t \in Threads |-> Unused] /\ writes = 0
      /\ written = [w \in Workspaces |-> [i \in Ids |-> 0]] /\ tried = written
      /\ pack \in [Workspaces -> [Ids -> {0, None}]]
      /\ index \in [Ids -> Documents \cup {None}] /\ ready \in BOOLEAN
      /\ backfilled = FALSE /\ rebuilt = None /\ disturbed = FALSE
  BY DEF Init, Empty
<1>2. \A t \in Threads : thread[t].pc = "idle" /\ thread[t].ops = <<>>
  BY <1>1 DEF Unused
<1>3. TypeOK
  <2>1. Unused \in ThreadStates
    BY Constants DEF Unused, ThreadStates, Pcs, Corpora, Empty
  <2>2. writer \in [pc : {"idle", "push", "schedule"}, ops : Seq(Ops)]
    BY <1>1 DEF NoWrite
  <2>3. /\ written \in [Workspaces -> [Ids -> Stamps]] /\ tried \in [Workspaces -> [Ids -> Stamps]]
        /\ pack \in [Workspaces -> Corpora] /\ writes \in Stamps
    BY <1>1, Constants DEF Corpora
  <2>4. pending \in Seq(Ops)
    BY <1>1
  <2>5. thread \in [Threads -> ThreadStates] /\ projecting \in Threads \cup {None}
    BY <1>1, <2>1
  <2>6. QED
    BY <1>1, <2>2, <2>3, <2>4, <2>5 DEF TypeOK
<1>4. FlushOnItsWay
  BY <1>1 DEF FlushOnItsWay
<1>5. OneHolder
  BY <1>1, <1>2, Constants DEF OneHolder
<1>6. Unpushed = <<>>
  BY <1>1 DEF Unpushed, NoWrite
<1>7. LineInOrder
  <2>1. InOrder(<<>>) /\ Before(<<>>, <<>>)
    BY DEF InOrder, Before
  <2>2. QED
    BY <1>1, <1>2, <1>6, <2>1 DEF LineInOrder
<1>8. LineIsWhatIsLeft
  <2>1. InLine = {}
    BY <1>1, <1>2, <1>6 DEF InLine, Taken, ToSet
  <2>2. \A w \in Workspaces, i \in Ids :
          written[w][i] = 0 /\ tried[w][i] = 0 /\ pack[w][i] \in {0, None}
    BY <1>1
  <2>3. QED
    BY <1>1, <2>1, <2>2 DEF LineIsWhatIsLeft
<1>9. FloorInLine
  BY <1>2, Apart DEF FloorInLine, At
<1>10. LevelSoFar
  BY <1>1 DEF LevelSoFar
<1>11. QED
  BY <1>3, <1>4, <1>5, <1>7, <1>8, <1>9, <1>10, Asked DEF Inv

LEMMA InvNext ==
    ASSUME Inv, [Next]_vars
    PROVE  Inv'
<1>1. CASE Next
  <2>1. TypeOK'
    BY <1>1, TypesNext DEF Inv
  <2>2. FlushOnItsWay' /\ OneHolder'
    BY <1>1, WayNext, HolderNext DEF Inv
  <2>3. LineInOrder' /\ LineIsWhatIsLeft'
    BY <1>1, LineNext DEF Inv
  <2>4. FloorInLine'
    BY <1>1, <2>1, FloorNext DEF Inv
  <2>5. FlushedBeforeAsked'
    BY <2>4 DEF FloorInLine, FlushedBeforeAsked, At
  <2>6. LevelSoFar'
    BY <1>1, LevelNext DEF Inv
  <2>7. QED
    BY <2>1, <2>2, <2>3, <2>4, <2>5, <2>6 DEF Inv
<1>2. CASE UNCHANGED vars
  <2>1. UNCHANGED <<pack, written, writes, writer, pending, scheduled, projecting, thread,
                    index, ready, backfilled, rebuilt, tried, disturbed>>
    BY <1>2 DEF vars
  <2>2. TypeOK'
    BY <2>1 DEF Inv, TypeOK
  <2>3. FlushOnItsWay' /\ OneHolder'
    BY <2>1 DEF Inv, FlushOnItsWay, OneHolder, At
  <2>4. LineInOrder' /\ LineIsWhatIsLeft' /\ Taken' = Taken
    BY <2>1, LineKept DEF Inv, Unpushed
  <2>5. FloorInLine' /\ FlushedBeforeAsked'
    BY <2>1, <2>4 DEF Inv, FloorInLine, FlushedBeforeAsked, At, For
  <2>6. LevelSoFar'
    BY <2>1, LevelKept DEF Inv
  <2>7. QED
    BY <2>2, <2>3, <2>4, <2>5, <2>6 DEF Inv
<1>3. QED
  BY <1>1, <1>2

(***************************************************************************)
(* However many workspaces, ids, threads and writes: a queued write has a  *)
(* flush on its way, the ops stand in line in the order of their writes    *)
(* and are what the pack is ahead of the children by, and no search asks   *)
(* the index past a write that was over when it began.                     *)
(***************************************************************************)
THEOREM Invariance == Spec => []Inv
<1>1. Init => Inv
  BY InitOK
<1>2. Inv /\ [Next]_vars => Inv'
  BY InvNext
<1>3. QED
  BY <1>1, <1>2, PTL DEF Spec

\* Only a child changes what was tried, and by ops that no later one of the
\* same atom went before.
LEMMA TriedOnward ==
    ASSUME Inv, [Next]_vars
    PROVE  [\A w \in Workspaces, i \in Ids : tried'[w][i] >= tried[w][i]]_vars
<1> SUFFICES ASSUME Next, NEW w \in Workspaces, NEW i \in Ids
             PROVE  tried'[w][i] >= tried[w][i]
  OBVIOUS
<1>1. tried[w][i] \in Nat /\ tried'[w][i] \in Nat
  BY InvNext, Constants DEF Inv, TypeOK, Stamps
<1>2. CASE \E t \in Threads : Apply(t)
  <2>1. tried[w][i] <= tried'[w][i]
    BY <1>2, LineApply DEF Inv
  <2>2. QED
    BY <1>1, <2>1
<1>3. CASE ~ \E t \in Threads : Apply(t)
  <2>1. tried' = tried
    <3>1. CASE \E s \in Searches : Search(s)
      BY <3>1, SearchIs DEF Inv
    <3>2. CASE ~ \E s \in Searches : Search(s)
      BY <1>3, <3>2 DEF Next, Write, Push, Schedule, Wake, Flush, Lock, TakeOps, Unlock,
                        BeginSearch
    <3>3. QED
      BY <3>1, <3>2
  <2>2. QED
    BY <1>1, <2>1
<1>4. QED
  BY <1>2, <1>3

(***************************************************************************)
(* Two flushes never apply out of order, whichever threads flush and       *)
(* however a queue is cut into children's runs: this is what `projecting`, *)
(* held from before the queue is taken until the last child, is for.       *)
(***************************************************************************)
THEOREM InOrderAlways == Spec => AppliedInOrder
<1>1. Inv /\ [Next]_vars => [\A w \in Workspaces, i \in Ids : tried'[w][i] >= tried[w][i]]_vars
  BY TriedOnward
<1>2. QED
  BY <1>1, Invariance, PTL DEF Spec, AppliedInOrder

\* With nothing in line every write was tried.
LEMMA QuietIsLevel ==
    ASSUME Inv
    PROVE  LevelWhenQuiet
<1> SUFFICES ASSUME Quiet, ~disturbed, NEW w \in Workspaces, NEW i \in Ids,
                    Alone(w, i), written[w][i] > 0, pack[w][i] # None
             PROVE  index[i] = [ws |-> w, at |-> pack[w][i]]
  BY DEF LevelWhenQuiet
<1>1. InLine = {}
  <2>1. \A t \in Threads : thread[t].ops = <<>>
    BY DEF Inv, OneHolder, Quiet, At
  <2>2. pending = <<>> /\ Unpushed = <<>>
    BY DEF Quiet, Unpushed
  <2>3. QED
    BY <2>1, <2>2 DEF InLine, Taken, ToSet
<1>2. ~(tried[w][i] < written[w][i]) /\ tried[w][i] <= written[w][i]
  BY <1>1 DEF Inv, LineIsWhatIsLeft
<1>3. tried[w][i] = written[w][i]
  BY <1>2, Marks DEF Inv
<1>4. QED
  BY <1>3 DEF Inv, LevelSoFar

(***************************************************************************)
(* The queue alone keeps the index level with the pack, for the ids no two *)
(* workspaces share, as long as no child failed and no search uploaded.    *)
(***************************************************************************)
THEOREM LevelAlways == Spec => []LevelWhenQuiet
<1>1. Inv => LevelWhenQuiet
  BY QuietIsLevel
<1>2. QED
  BY <1>1, Invariance, PTL

=============================================================================
