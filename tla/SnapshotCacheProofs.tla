------------------------- MODULE SnapshotCacheProofs ------------------------
(***************************************************************************)
(* SnapshotCache for every number of workspaces, ids, texts and workers:   *)
(* what its reads return, its memory bound, and that it implements         *)
(* PackStore.                                                              *)
(***************************************************************************)
EXTENDS SnapshotCache, FiniteSetTheorems, TLAPS

-----------------------------------------------------------------------------
(* What the helpers return. *)

\* A batch written over a workspace's records leaves records.
LEMMA AppliedType ==
    ASSUME NEW batch \in Batches, NEW docs \in Docs
    PROVE  Applied(batch, docs) \in Docs
BY DEF Applied, Docs, Batches

\* Folding a batch twice is folding it once: a set whose scan already saw
\* the write is not disturbed by the patch.
LEMMA AppliedTwice ==
    ASSUME NEW batch \in Batches, NEW docs \in Docs
    PROVE  Applied(batch, Applied(batch, docs)) = Applied(batch, docs)
BY DEF Applied, Docs, Batches

\* Inserting into a cache and evicting from it leave a cache.
LEMMA CacheUpdateType ==
    ASSUME NEW cache \in [Workspaces -> Snapshots \cup {None}],
           NEW w, NEW entry \in Snapshots \cup {None}, NEW out
    PROVE  /\ With(cache, w, entry, out) \in [Workspaces -> Snapshots \cup {None}]
           /\ Without(cache, out) \in [Workspaces -> Snapshots \cup {None}]
BY DEF With, Without

\* Folding a batch into a cached set, or restamping it, leaves a cached set.
LEMMA FoldedType ==
    ASSUME NEW snap \in Snapshots, NEW batch \in Batches, NEW g \in Nat
    PROVE  /\ Folded(snap, batch, g) \in Snapshots
           /\ Restamped(snap, g) \in Snapshots
<1>1. Applied(batch, snap.docs) \in Docs
  BY AppliedType DEF Snapshots
<1>2. [i \in Ids |-> CASE Applied(batch, snap.docs)[i] = Hidden -> 0
                       [] snap.docs[i] = Hidden -> g
                       [] OTHER -> snap.arrival[i]] \in [Ids -> Nat]
  BY DEF Snapshots
<1>3. QED
  BY <1>1, <1>2 DEF Folded, Restamped, Snapshots

\* There is always a last commit, a database per workspace.
LEMMA CommittedType ==
    ASSUME TypeOK
    PROVE  /\ Committed \in [Workspaces -> Docs]
           /\ Len(log) \in Nat \ {0}
BY DEF Committed, TypeOK, LogOK

-----------------------------------------------------------------------------
\* A worker between calls.
LEMMA IdleType == Idle \in WorkerStates
BY DEF Idle, WorkerStates, Steps

\* An opened store has the types, whatever its file held.
LEMMA TypeInit == Init => TypeOK
<1> SUFFICES ASSUME Init PROVE TypeOK
  OBVIOUS
<1>1. PICK db \in [Workspaces -> Docs] : log = <<db>>
  BY DEF Init
<1>2. LogOK
  BY <1>1 DEF LogOK
<1>3. CachesOK /\ WorkersOK
  BY IdleType DEF Init, CachesOK, WorkersOK
<1>4. QED
  BY <1>2, <1>3 DEF Init, TypeOK

\* What a step of one worker leaves alone.
LEMMA MoveType ==
    ASSUME WorkersOK, NEW a \in Workers, NEW state \in WorkerStates, Move(a, state)
    PROVE  /\ WorkersOK'
           /\ worker'[a] = state
           /\ \A b \in Workers : b # a => worker'[b] = worker[b]
BY DEF WorkersOK, Move

\* A read step leaves every worker of the right type; what it puts in a
\* worker's hands comes from a cache or from the log.
LEMMA WorkersRead ==
    ASSUME TypeOK, StagesOK, NEW a \in Workers, Read(a)
    PROVE  WorkersOK'
<1>0. /\ WorkersOK /\ worker[a] \in WorkerStates
      /\ CachesOK /\ generation \in Nat /\ acked \in Nat
  BY DEF TypeOK, WorkersOK
<1>ws. ~At(a, "idle") => worker[a].ws \in Workspaces
  BY DEF StagesOK, StageOK
<1>1. ASSUME NEW w \in Workspaces, NEW op \in {"live", "search"}, BeginRead(a, op, w)
      PROVE  WorkersOK'
  <2>1. [Idle EXCEPT !.pc = "load", !.op = op, !.ws = w, !.floor = acked] \in WorkerStates
    BY <1>0 DEF Idle, WorkerStates, Steps, Ops
  <2>2. QED
    BY <1>0, <1>1, <2>1, MoveType DEF BeginRead, Begin
<1>2. CASE LoadGeneration(a)
  <2>1. [worker[a] EXCEPT !.pc = "lookup", !.seen = generation] \in WorkerStates
    BY <1>0 DEF Steps, WorkerStates
  <2>2. QED
    BY <1>0, <1>2, <2>1, MoveType DEF LoadGeneration
<1>3. CASE LookupHit(a)
  <2>1. [worker[a] EXCEPT !.pc = "got", !.snap = live[worker[a].ws]] \in WorkerStates
    BY <1>0, <1>ws, <1>3 DEF Steps, WorkerStates, LookupHit, At, CachesOK
  <2>2. QED
    BY <1>0, <1>3, <2>1, MoveType DEF LookupHit
<1>4. CASE LookupMiss(a)
  <2>1. [worker[a] EXCEPT !.pc = "scan"] \in WorkerStates
    BY <1>0 DEF Steps, WorkerStates
  <2>2. QED
    BY <1>0, <1>4, <2>1, MoveType DEF LookupMiss
<1>5. CASE CheckGeneration(a)
  <2>1. [worker[a] EXCEPT !.pc = IF Unraced(a) THEN "insert" ELSE "got"] \in WorkerStates
    BY <1>0 DEF Steps, WorkerStates
  <2>2. QED
    BY <1>0, <1>5, <2>1, MoveType DEF CheckGeneration
<1>6. CASE Insert(a)
  <2>1. [worker[a] EXCEPT !.pc = "got"] \in WorkerStates
    BY <1>0 DEF Steps, WorkerStates
  <2>2. QED
    BY <1>0, <1>6, <2>1, MoveType DEF Insert
<1>7. CASE AnswerLive(a)
  <2>1. [worker[a] EXCEPT !.pc = "done"] \in WorkerStates
    BY <1>0 DEF Steps, WorkerStates
  <2>2. QED
    BY <1>0, <1>7, <2>1, MoveType DEF AnswerLive
<1>8. CASE SearchHit(a)
  <2>1. [worker[a] EXCEPT !.pc = "done", !.index = terms[worker[a].ws]] \in WorkerStates
    BY <1>0, <1>ws, <1>8 DEF Steps, WorkerStates, SearchHit, At, CachesOK
  <2>2. QED
    BY <1>0, <1>8, <2>1, MoveType DEF SearchHit
<1>9. CASE SearchMiss(a)
  <2>1. [worker[a] EXCEPT !.pc = "wait"] \in WorkerStates
    BY <1>0 DEF Steps, WorkerStates
  <2>2. QED
    BY <1>0, <1>9, <2>1, MoveType DEF SearchMiss
<1>10. CASE AcquireBuild(a)
  <2>1. [worker[a] EXCEPT !.pc = "load", !.op = "recheck"] \in WorkerStates
    BY <1>0 DEF Steps, WorkerStates, Ops
  <2>2. QED
    BY <1>0, <1>10, <2>1, MoveType DEF AcquireBuild
<1>11. CASE RecheckMiss(a)
  <2>1. [worker[a] EXCEPT !.pc = "load", !.op = "build"] \in WorkerStates
    BY <1>0 DEF Steps, WorkerStates, Ops
  <2>2. QED
    BY <1>0, <1>11, <2>1, MoveType DEF RecheckMiss
<1>12. CASE TakePrevious(a)
  <2>1. [worker[a] EXCEPT !.pc = "push"] \in WorkerStates
    BY <1>0 DEF Steps, WorkerStates
  <2>2. QED
    BY <1>0, <1>12, <2>1, MoveType DEF TakePrevious
<1>13. CASE PushIndex(a)
  <2>1. [worker[a] EXCEPT !.pc = "done", !.index = worker[a].snap] \in WorkerStates
    BY <1>0 DEF Steps, WorkerStates
  <2>2. QED
    BY <1>0, <1>13, <2>1, MoveType DEF PushIndex
<1>14. CASE Scan(a)
  <2> DEFINE snap == [generation |-> worker[a].seen,
                      docs       |-> Committed[worker[a].ws],
                      arrival    |-> [i \in Ids |-> 0]]
  <2>1. snap \in Snapshots
    BY <1>0, <1>ws, <1>14, CommittedType DEF Snapshots, WorkerStates, Scan, At
  <2>2. [worker[a] EXCEPT !.pc = "check", !.snap = snap] \in WorkerStates
    BY <1>0, <2>1 DEF Steps, WorkerStates
  <2>3. QED
    BY <1>0, <1>14, <2>2, MoveType DEF Scan
<1>15. CASE Return(a)
  BY <1>0, <1>15, IdleType, MoveType DEF Return
<1>16. QED
  BY <1>1, <1>2, <1>3, <1>4, <1>5, <1>6, <1>7, <1>8, <1>9, <1>10, <1>11, <1>12, <1>13, <1>14, <1>15 DEF Read

\* So does a write step.
LEMMA WorkersWrite ==
    ASSUME TypeOK, NEW a \in Workers, Write(a)
    PROVE  WorkersOK'
<1>0. /\ WorkersOK /\ worker[a] \in WorkerStates
      /\ generation \in Nat /\ acked \in Nat
  BY DEF TypeOK, WorkersOK
<1>1. ASSUME NEW w \in Workspaces, BeginWrite(a, w)
      PROVE  WorkersOK'
  <2>1. ASSUME NEW op \in Ops, NEW step \in Steps
        PROVE  [Idle EXCEPT !.pc = step, !.op = op, !.ws = w, !.floor = acked]
                 \in WorkerStates
    BY <1>0 DEF Idle, WorkerStates
  <2>2. CASE Begin(a, "write", w, "load")
    BY <1>0, <2>1, <2>2, MoveType DEF Begin, Steps, Ops
  <2>3. CASE Begin(a, "forget", w, "erase")
    BY <1>0, <2>1, <2>3, MoveType DEF Begin, Steps, Ops
  <2>4. QED
    BY <1>1, <2>2, <2>3 DEF BeginWrite
<1>2. ASSUME NEW batch \in Batches, Commit(a, batch)
      PROVE  WorkersOK'
  <2>1. [worker[a] EXCEPT !.pc = "bump", !.batch = batch] \in WorkerStates
    BY <1>0 DEF Steps, WorkerStates
  <2>2. QED
    BY <1>0, <1>2, <2>1, MoveType DEF Commit
<1>3. CASE CommitForget(a)
  <2> DEFINE gone == [i \in Ids |-> Hidden]
  <2>1. gone \in Batches
    BY DEF Batches
  <2>2. [worker[a] EXCEPT !.pc = "bump", !.batch = gone] \in WorkerStates
    BY <1>0, <2>1 DEF Steps, WorkerStates
  <2>3. QED
    BY <1>0, <1>3, <2>2, MoveType DEF CommitForget
<1>4. CASE ForgetNothing(a)
  <2>1. [worker[a] EXCEPT !.pc = "drop", !.seen = generation] \in WorkerStates
    BY <1>0 DEF Steps, WorkerStates
  <2>2. QED
    BY <1>0, <1>4, <2>1, MoveType DEF ForgetNothing
<1>5. CASE Bump(a)
  <2> DEFINE next == IF Doing(a, {"forget"}) THEN "drop" ELSE "patch"
  <2>0. next \in Steps /\ generation + 1 \in Nat
    BY <1>0 DEF Steps
  <2> HIDE DEF next
  <2>1. [worker[a] EXCEPT !.pc = next, !.seen = generation + 1] \in WorkerStates
    BY <1>0, <2>0 DEF WorkerStates
  <2>2. QED
    BY <1>0, <1>5, <2>1, MoveType DEF Bump, next
<1>6. CASE PatchLive(a)
  <2>1. [worker[a] EXCEPT !.pc = "unlock"] \in WorkerStates
    BY <1>0 DEF Steps, WorkerStates
  <2>2. QED
    BY <1>0, <1>6, <2>1, MoveType DEF PatchLive
<1>7. CASE DropLive(a)
  <2>1. [worker[a] EXCEPT !.pc = "drop_terms"] \in WorkerStates
    BY <1>0 DEF Steps, WorkerStates
  <2>2. QED
    BY <1>0, <1>7, <2>1, MoveType DEF DropLive
<1>8. CASE DropTerms(a)
  <2>1. [worker[a] EXCEPT !.pc = "unlock"] \in WorkerStates
    BY <1>0 DEF Steps, WorkerStates
  <2>2. QED
    BY <1>0, <1>8, <2>1, MoveType DEF DropTerms
<1>9. CASE Decline(a)
  BY <1>0, <1>9, IdleType, MoveType DEF Decline
<1>10. CASE EndWrite(a)
  BY <1>0, <1>10, IdleType, MoveType DEF EndWrite
<1>11. CASE ReadAgain(a)
  <2>1. [worker[a] EXCEPT !.pc = "load"] \in WorkerStates
    BY <1>0 DEF Steps, WorkerStates
  <2>2. QED
    BY <1>0, <1>11, <2>1, MoveType DEF ReadAgain
<1>12. QED
  BY <1>1, <1>2, <1>3, <1>4, <1>5, <1>6, <1>7, <1>8, <1>9, <1>10, <1>11 DEF Write

\* A step moves the worker that takes it and no other.
LEMMA Moved ==
    ASSUME WorkersOK, NEW a \in Workers, NEW state, Move(a, state)
    PROVE  /\ worker'[a] = state
           /\ \A b \in Workers : b # a => worker'[b] = worker[b]
BY DEF WorkersOK, Move

\* A read leaves the store as it was, and the caches of the right type.
LEMMA ReadKeeps ==
    ASSUME NEW a \in Workers, Read(a)
    PROVE  UNCHANGED <<log, generation, writes, acked>>
BY DEF Read, Begin, BeginRead, LoadGeneration, LookupHit, LookupMiss, Scan, CheckGeneration, Insert, AnswerLive, SearchHit, SearchMiss, AcquireBuild, RecheckMiss, TakePrevious, PushIndex, Return

\* Every step is one worker's.
LEMMA OthersKept ==
    ASSUME WorkersOK, NEW a \in Workers, Read(a) \/ Write(a)
    PROVE  \A b \in Workers : b # a => worker'[b] = worker[b]
<1>1. CASE Read(a)
  BY <1>1, Moved DEF Read, Begin, BeginRead, LoadGeneration, LookupHit, LookupMiss, Scan, CheckGeneration, Insert, AnswerLive, SearchHit, SearchMiss, AcquireBuild, RecheckMiss, TakePrevious, PushIndex, Return
<1>2. CASE Write(a)
  BY <1>2, Moved DEF Write, Begin, BeginWrite, Commit, Decline, CommitForget, ForgetNothing, Bump, PatchLive, DropLive, DropTerms, ReadAgain, EndWrite
<1>3. QED
  BY <1>1, <1>2

-----------------------------------------------------------------------------
(* The fields of a worker that stepped, one lemma per shape of a step. *)

\* A step that only goes on to another.
LEMMA MovePc ==
    ASSUME WorkersOK, NEW a \in Workers, NEW pc1,
           Move(a, [worker[a] EXCEPT !.pc = pc1])
    PROVE  /\ worker'[a].pc = pc1
           /\ worker'[a].op = worker[a].op /\ worker'[a].ws = worker[a].ws
           /\ worker'[a].seen = worker[a].seen /\ worker'[a].snap = worker[a].snap
           /\ worker'[a].index = worker[a].index /\ worker'[a].batch = worker[a].batch
           /\ worker'[a].floor = worker[a].floor
<1>1. worker'[a] = [worker[a] EXCEPT !.pc = pc1] /\ worker[a] \in WorkerStates
  BY Moved DEF WorkersOK
<1>2. QED
  BY <1>1 DEF WorkerStates

\* The live set a scan comes back with.
Scanned(a) ==
    [generation |-> worker[a].seen,
     docs       |-> Committed[worker[a].ws],
     arrival    |-> [i \in Ids |-> 0]]

\* The generation loaded is the one the read will be labelled with.
LEMMA LoadGenerationMoves ==
    ASSUME WorkersOK, NEW a \in Workers, LoadGeneration(a)
    PROVE  /\ worker'[a].pc = "lookup" /\ worker'[a].seen = generation
           /\ worker'[a].op = worker[a].op /\ worker'[a].ws = worker[a].ws
           /\ worker'[a].snap = worker[a].snap /\ worker'[a].index = worker[a].index
           /\ worker'[a].batch = worker[a].batch /\ worker'[a].floor = worker[a].floor
<1>1. worker'[a] = [worker[a] EXCEPT !.pc = "lookup", !.seen = generation]
  BY Moved DEF LoadGeneration
<1>2. worker[a] \in WorkerStates
  BY DEF WorkersOK
<1>3. QED
  BY <1>1, <1>2 DEF WorkerStates

\* A hit hands over the cached set.
LEMMA LookupHitMoves ==
    ASSUME WorkersOK, NEW a \in Workers, LookupHit(a)
    PROVE  /\ worker'[a].pc = "got"
           /\ worker'[a].snap = live[worker[a].ws]
           /\ worker'[a].op = worker[a].op /\ worker'[a].ws = worker[a].ws
           /\ worker'[a].seen = worker[a].seen /\ worker'[a].index = worker[a].index
           /\ worker'[a].batch = worker[a].batch /\ worker'[a].floor = worker[a].floor
<1>1. worker'[a] = [worker[a] EXCEPT !.pc = "got", !.snap = live[worker[a].ws]]
  BY Moved DEF LookupHit
<1>2. worker[a] \in WorkerStates
  BY DEF WorkersOK
<1>3. QED
  BY <1>1, <1>2 DEF WorkerStates

\* A scan hands over the last commit, labelled with the generation loaded.
LEMMA ScanMoves ==
    ASSUME WorkersOK, NEW a \in Workers, Scan(a)
    PROVE  /\ worker'[a].pc = "check"
           /\ worker'[a].snap = Scanned(a)
           /\ worker'[a].op = worker[a].op /\ worker'[a].ws = worker[a].ws
           /\ worker'[a].seen = worker[a].seen /\ worker'[a].index = worker[a].index
           /\ worker'[a].batch = worker[a].batch /\ worker'[a].floor = worker[a].floor
<1>1. worker'[a] = [worker[a] EXCEPT !.pc = "check", !.snap = Scanned(a)]
  BY Moved DEF Scan, Scanned
<1>2. worker[a] \in WorkerStates
  BY DEF WorkersOK
<1>3. QED
  BY <1>1, <1>2 DEF WorkerStates

\* A search hit hands over the cached index.
LEMMA SearchHitMoves ==
    ASSUME WorkersOK, NEW a \in Workers, SearchHit(a)
    PROVE  /\ worker'[a].pc = "done"
           /\ worker'[a].index = terms[worker[a].ws]
           /\ worker'[a].op = worker[a].op /\ worker'[a].ws = worker[a].ws
           /\ worker'[a].seen = worker[a].seen /\ worker'[a].snap = worker[a].snap
           /\ worker'[a].batch = worker[a].batch /\ worker'[a].floor = worker[a].floor
<1>1. worker'[a] = [worker[a] EXCEPT !.pc = "done", !.index = terms[worker[a].ws]]
  BY Moved DEF SearchHit
<1>2. worker[a] \in WorkerStates
  BY DEF WorkersOK
<1>3. QED
  BY <1>1, <1>2 DEF WorkerStates

\* A build hands over an index of the set just read.
LEMMA PushIndexMoves ==
    ASSUME WorkersOK, NEW a \in Workers, PushIndex(a)
    PROVE  /\ worker'[a].pc = "done" /\ worker'[a].index = worker[a].snap
           /\ worker'[a].op = worker[a].op /\ worker'[a].ws = worker[a].ws
           /\ worker'[a].seen = worker[a].seen /\ worker'[a].snap = worker[a].snap
           /\ worker'[a].batch = worker[a].batch /\ worker'[a].floor = worker[a].floor
<1>1. worker'[a] = [worker[a] EXCEPT !.pc = "done", !.index = worker[a].snap]
  BY Moved DEF PushIndex
<1>2. worker[a] \in WorkerStates
  BY DEF WorkersOK
<1>3. QED
  BY <1>1, <1>2 DEF WorkerStates

\* A forget of nothing goes on to the caches at the current count.
LEMMA ForgetNothingMoves ==
    ASSUME WorkersOK, NEW a \in Workers, ForgetNothing(a)
    PROVE  /\ worker'[a].pc = "drop" /\ worker'[a].seen = generation
           /\ worker'[a].op = worker[a].op /\ worker'[a].ws = worker[a].ws
           /\ worker'[a].snap = worker[a].snap /\ worker'[a].index = worker[a].index
           /\ worker'[a].batch = worker[a].batch /\ worker'[a].floor = worker[a].floor
<1>1. worker'[a] = [worker[a] EXCEPT !.pc = "drop", !.seen = generation]
  BY Moved DEF ForgetNothing
<1>2. worker[a] \in WorkerStates
  BY DEF WorkersOK
<1>3. QED
  BY <1>1, <1>2 DEF WorkerStates

\* A bump is known to the writer that made it.
LEMMA BumpMoves ==
    ASSUME WorkersOK, NEW a \in Workers, Bump(a)
    PROVE  /\ worker'[a].pc = (IF Doing(a, {"forget"}) THEN "drop" ELSE "patch")
           /\ worker'[a].seen = generation + 1
           /\ worker'[a].op = worker[a].op /\ worker'[a].ws = worker[a].ws
           /\ worker'[a].snap = worker[a].snap /\ worker'[a].index = worker[a].index
           /\ worker'[a].batch = worker[a].batch /\ worker'[a].floor = worker[a].floor
<1> DEFINE next == IF Doing(a, {"forget"}) THEN "drop" ELSE "patch"
<1>1. worker'[a] = [worker[a] EXCEPT !.pc = next, !.seen = generation + 1]
  BY Moved DEF Bump
<1>2. worker[a] \in WorkerStates
  BY DEF WorkersOK
<1> HIDE DEF next
<1>3. worker'[a].pc = next
  BY <1>1, <1>2 DEF WorkerStates
<1>4. QED
  BY <1>1, <1>2, <1>3 DEF WorkerStates, next

\* A search starts its live read over, holding the build lock.
LEMMA MoveOp ==
    ASSUME WorkersOK, NEW a \in Workers, NEW op1,
           Move(a, [worker[a] EXCEPT !.pc = "load", !.op = op1])
    PROVE  /\ worker'[a].pc = "load" /\ worker'[a].op = op1
           /\ worker'[a].ws = worker[a].ws /\ worker'[a].seen = worker[a].seen
           /\ worker'[a].snap = worker[a].snap /\ worker'[a].index = worker[a].index
           /\ worker'[a].batch = worker[a].batch /\ worker'[a].floor = worker[a].floor
<1>1. worker'[a] = [worker[a] EXCEPT !.pc = "load", !.op = op1] /\ worker[a] \in WorkerStates
  BY Moved DEF WorkersOK
<1>2. QED
  BY <1>1 DEF WorkerStates

\* A commit leaves its batch to be folded into the cache.
LEMMA MoveBatch ==
    ASSUME WorkersOK, NEW a \in Workers, NEW batch1,
           Move(a, [worker[a] EXCEPT !.pc = "bump", !.batch = batch1])
    PROVE  /\ worker'[a].pc = "bump" /\ worker'[a].batch = batch1
           /\ worker'[a].op = worker[a].op /\ worker'[a].ws = worker[a].ws
           /\ worker'[a].seen = worker[a].seen /\ worker'[a].snap = worker[a].snap
           /\ worker'[a].index = worker[a].index /\ worker'[a].floor = worker[a].floor
<1>1. worker'[a] = [worker[a] EXCEPT !.pc = "bump", !.batch = batch1] /\ worker[a] \in WorkerStates
  BY Moved DEF WorkersOK
<1>2. QED
  BY <1>1 DEF WorkerStates

\* A call that ends leaves nothing behind.
LEMMA MoveIdle ==
    ASSUME WorkersOK, NEW a \in Workers, Move(a, Idle)
    PROVE  /\ worker'[a].pc = "idle" /\ worker'[a].op = None
           /\ worker'[a].snap = None /\ worker'[a].index = None
           /\ worker'[a].floor = 0 /\ worker'[a].seen = 0
BY Moved DEF Idle

\* A call starts with nothing but what was acknowledged before it.
LEMMA MoveBegin ==
    ASSUME WorkersOK, NEW a \in Workers, NEW op, NEW w, NEW step, Begin(a, op, w, step)
    PROVE  /\ worker'[a].pc = step /\ worker'[a].op = op /\ worker'[a].ws = w
           /\ worker'[a].snap = None /\ worker'[a].index = None
           /\ worker'[a].floor = acked /\ worker'[a].seen = 0
<1>1. worker'[a] = [Idle EXCEPT !.pc = step, !.op = op, !.ws = w, !.floor = acked]
  BY Moved DEF Begin
<1>2. QED
  BY <1>1 DEF Idle

-----------------------------------------------------------------------------
(* Which operation is at which step, and who holds the mutex. *)

\* A read step keeps its operation in step with where it is.
LEMMA StagesRead ==
    ASSUME WorkersOK, StagesOK, NEW a \in Workers, Read(a)
    PROVE  StageOK(a)'
<1>0. /\ WorkersOK /\ worker[a] \in WorkerStates /\ StageOK(a)
      /\ writes' = writes /\ None \notin Ops /\ None # a
  BY ReadKeeps, NoneAssumption DEF WorkersOK, StagesOK
<1>1. ASSUME NEW w \in Workspaces, NEW op \in {"live", "search"}, BeginRead(a, op, w)
      PROVE  StageOK(a)'
  <2>1. worker'[a].pc = "load" /\ worker'[a].op = op /\ worker'[a].ws = w
    BY <1>0, <1>1, MoveBegin DEF BeginRead
  <2>2. ~Writing(a)
    BY <1>0, <1>1 DEF BeginRead, Begin, StageOK, At, Doing, Writing, Ops
  <2>3. QED
    BY <1>0, <1>1, <2>1, <2>2 DEF StageOK, At, Doing, Writing, Ops
<1>2. CASE LoadGeneration(a)
  <2>1. /\ worker'[a].pc = "lookup"
        /\ worker'[a].op = worker[a].op /\ worker'[a].ws = worker[a].ws
    BY <1>0, <1>2, LoadGenerationMoves
  <2>2. QED
    BY <1>0, <1>2, <2>1 DEF LoadGeneration, StageOK, At, Doing, Writing, Ops
<1>3. CASE LookupHit(a)
  <2>1. /\ worker'[a].pc = "got"
        /\ worker'[a].op = worker[a].op /\ worker'[a].ws = worker[a].ws
    BY <1>0, <1>3, LookupHitMoves
  <2>2. QED
    BY <1>0, <1>3, <2>1 DEF LookupHit, StageOK, At, Doing, Writing, Ops
<1>4. CASE LookupMiss(a)
  <2>1. /\ worker'[a].pc = "scan"
        /\ worker'[a].op = worker[a].op /\ worker'[a].ws = worker[a].ws
    BY <1>0, <1>4, MovePc DEF LookupMiss
  <2>2. QED
    BY <1>0, <1>4, <2>1 DEF LookupMiss, StageOK, At, Doing, Writing, Ops
<1>5. CASE Scan(a)
  <2>1. /\ worker'[a].pc = "check"
        /\ worker'[a].op = worker[a].op /\ worker'[a].ws = worker[a].ws
    BY <1>0, <1>5, ScanMoves
  <2>2. QED
    BY <1>0, <1>5, <2>1 DEF Scan, StageOK, At, Doing, Writing, Ops
<1>6. CASE CheckGeneration(a)
  <2>1. /\ worker'[a].pc = (IF Unraced(a) THEN "insert" ELSE "got")
        /\ worker'[a].op = worker[a].op /\ worker'[a].ws = worker[a].ws
    BY <1>0, <1>6, MovePc DEF CheckGeneration
  <2>2. QED
    BY <1>0, <1>6, <2>1 DEF CheckGeneration, StageOK, At, Doing, Writing, Ops
<1>7. CASE Insert(a)
  <2>1. /\ worker'[a].pc = "got"
        /\ worker'[a].op = worker[a].op /\ worker'[a].ws = worker[a].ws
    BY <1>0, <1>7, MovePc DEF Insert
  <2>2. QED
    BY <1>0, <1>7, <2>1 DEF Insert, StageOK, At, Doing, Writing, Ops
<1>8. CASE AnswerLive(a)
  <2>1. /\ worker'[a].pc = "done"
        /\ worker'[a].op = worker[a].op /\ worker'[a].ws = worker[a].ws
    BY <1>0, <1>8, MovePc DEF AnswerLive
  <2>2. QED
    BY <1>0, <1>8, <2>1 DEF AnswerLive, StageOK, At, Doing, Writing, Ops
<1>9. CASE SearchHit(a)
  <2>1. /\ worker'[a].pc = "done"
        /\ worker'[a].op = worker[a].op /\ worker'[a].ws = worker[a].ws
    BY <1>0, <1>9, SearchHitMoves
  <2>2. QED
    BY <1>0, <1>9, <2>1 DEF SearchHit, StageOK, At, Doing, Writing, Ops
<1>10. CASE SearchMiss(a)
  <2>1. /\ worker'[a].pc = "wait"
        /\ worker'[a].op = worker[a].op /\ worker'[a].ws = worker[a].ws
    BY <1>0, <1>10, MovePc DEF SearchMiss
  <2>2. QED
    BY <1>0, <1>10, <2>1 DEF SearchMiss, StageOK, At, Doing, Writing, Ops
<1>11. CASE AcquireBuild(a)
  <2>1. /\ worker'[a].pc = "load"
        /\ worker'[a].op = "recheck" /\ worker'[a].ws = worker[a].ws
    BY <1>0, <1>11, MoveOp DEF AcquireBuild
  <2>2. QED
    BY <1>0, <1>11, <2>1 DEF AcquireBuild, StageOK, At, Doing, Writing, Ops
<1>12. CASE RecheckMiss(a)
  <2>1. /\ worker'[a].pc = "load"
        /\ worker'[a].op = "build" /\ worker'[a].ws = worker[a].ws
    BY <1>0, <1>12, MoveOp DEF RecheckMiss
  <2>2. QED
    BY <1>0, <1>12, <2>1 DEF RecheckMiss, StageOK, At, Doing, Writing, Ops
<1>13. CASE TakePrevious(a)
  <2>1. /\ worker'[a].pc = "push"
        /\ worker'[a].op = worker[a].op /\ worker'[a].ws = worker[a].ws
    BY <1>0, <1>13, MovePc DEF TakePrevious
  <2>2. QED
    BY <1>0, <1>13, <2>1 DEF TakePrevious, StageOK, At, Doing, Writing, Ops
<1>14. CASE PushIndex(a)
  <2>1. /\ worker'[a].pc = "done"
        /\ worker'[a].op = worker[a].op /\ worker'[a].ws = worker[a].ws
    BY <1>0, <1>14, PushIndexMoves
  <2>2. QED
    BY <1>0, <1>14, <2>1 DEF PushIndex, StageOK, At, Doing, Writing, Ops
<1>15. CASE Return(a)
  <2>1. /\ worker'[a].pc = "idle"
        /\ worker'[a].op = None
    BY <1>0, <1>15, MoveIdle DEF Return
  <2>2. QED
    BY <1>0, <1>15, <2>1 DEF Return, StageOK, At, Doing, Writing, Ops
<1>16. QED
  BY <1>1, <1>2, <1>3, <1>4, <1>5, <1>6, <1>7, <1>8, <1>9, <1>10, <1>11, <1>12, <1>13, <1>14, <1>15 DEF Read

\* A write step does too, and takes or releases the mutex for itself only.
LEMMA StagesWrite ==
    ASSUME WorkersOK, StagesOK, NEW a \in Workers, Write(a)
    PROVE  /\ StageOK(a)'
           /\ \/ writes' = writes
              \/ writes = None /\ writes' = a
              \/ writes = a /\ writes' = None
<1>0. /\ WorkersOK /\ worker[a] \in WorkerStates /\ StageOK(a)
      /\ None \notin Ops /\ None # a /\ None \notin Batches
  BY NoneAssumption DEF WorkersOK, StagesOK
<1> DEFINE Mutex == \/ writes' = writes
                    \/ writes = None /\ writes' = a
                    \/ writes = a /\ writes' = None
<1>1. ASSUME NEW w \in Workspaces, BeginWrite(a, w)
      PROVE  StageOK(a)' /\ Mutex
  <2>0. writes = None /\ writes' = a
    BY <1>1 DEF BeginWrite, WritesFree
  <2>1. \/ worker'[a].pc = "load" /\ worker'[a].op = "write" /\ worker'[a].ws = w
        \/ worker'[a].pc = "erase" /\ worker'[a].op = "forget" /\ worker'[a].ws = w
    BY <1>0, <1>1, MoveBegin DEF BeginWrite
  <2>2. QED
    BY <1>0, <2>0, <2>1 DEF StageOK, At, Doing, Writing, Ops
<1>2. ASSUME NEW batch \in Batches, Commit(a, batch)
      PROVE  StageOK(a)' /\ Mutex
  <2>1. /\ worker'[a].pc = "bump" /\ worker'[a].op = worker[a].op
        /\ worker'[a].ws = worker[a].ws /\ worker'[a].batch = batch
    BY <1>0, <1>2, MoveBatch DEF Commit
  <2>2. QED
    BY <1>0, <1>2, <2>1 DEF Commit, StageOK, At, Doing, Writing, Ops
<1>3. CASE CommitForget(a)
  <2> DEFINE gone == [i \in Ids |-> Hidden]
  <2>0. gone # None
    BY <1>0 DEF Batches
  <2>1. /\ worker'[a].pc = "bump" /\ worker'[a].op = worker[a].op
        /\ worker'[a].ws = worker[a].ws /\ worker'[a].batch = gone
    BY <1>0, <1>3, MoveBatch DEF CommitForget
  <2> HIDE DEF gone
  <2>2. QED
    BY <1>0, <1>3, <2>0, <2>1 DEF CommitForget, StageOK, At, Doing, Writing, Ops
<1>4. CASE ForgetNothing(a)
  <2>1. /\ worker'[a].pc = "drop" /\ worker'[a].op = worker[a].op
        /\ worker'[a].ws = worker[a].ws
    BY <1>0, <1>4, ForgetNothingMoves
  <2>2. QED
    BY <1>0, <1>4, <2>1 DEF ForgetNothing, StageOK, At, Doing, Writing, Ops
<1>5. CASE Bump(a)
  <2>1. /\ worker'[a].pc = (IF Doing(a, {"forget"}) THEN "drop" ELSE "patch")
        /\ worker'[a].op = worker[a].op
        /\ worker'[a].ws = worker[a].ws /\ worker'[a].batch = worker[a].batch
    BY <1>0, <1>5, BumpMoves
  <2>2. QED
    BY <1>0, <1>5, <2>1 DEF Bump, StageOK, At, Doing, Writing, Ops
<1>6. CASE PatchLive(a)
  <2>1. /\ worker'[a].pc = "unlock" /\ worker'[a].op = worker[a].op
        /\ worker'[a].ws = worker[a].ws
    BY <1>0, <1>6, MovePc DEF PatchLive
  <2>2. QED
    BY <1>0, <1>6, <2>1 DEF PatchLive, StageOK, At, Doing, Writing, Ops
<1>7. CASE DropLive(a)
  <2>1. /\ worker'[a].pc = "drop_terms" /\ worker'[a].op = worker[a].op
        /\ worker'[a].ws = worker[a].ws
    BY <1>0, <1>7, MovePc DEF DropLive
  <2>2. QED
    BY <1>0, <1>7, <2>1 DEF DropLive, StageOK, At, Doing, Writing, Ops
<1>8. CASE DropTerms(a)
  <2>1. /\ worker'[a].pc = "unlock" /\ worker'[a].op = worker[a].op
        /\ worker'[a].ws = worker[a].ws
    BY <1>0, <1>8, MovePc DEF DropTerms
  <2>2. QED
    BY <1>0, <1>8, <2>1 DEF DropTerms, StageOK, At, Doing, Writing, Ops
<1>9. CASE Decline(a)
  <2>1. worker'[a].pc = "idle" /\ worker'[a].op = None
    BY <1>0, <1>9, MoveIdle DEF Decline
  <2>2. QED
    BY <1>0, <1>9, <2>1 DEF Decline, StageOK, At, Doing, Writing, Ops
<1>10. CASE EndWrite(a)
  <2>1. worker'[a].pc = "idle" /\ worker'[a].op = None
    BY <1>0, <1>10, MoveIdle DEF EndWrite
  <2>2. QED
    BY <1>0, <1>10, <2>1 DEF EndWrite, StageOK, At, Doing, Writing, Ops
<1>11. CASE ReadAgain(a)
  <2>1. /\ worker'[a].pc = "load" /\ worker'[a].op = worker[a].op
        /\ worker'[a].ws = worker[a].ws
    BY <1>0, <1>11, MovePc DEF ReadAgain
  <2>2. QED
    BY <1>0, <1>11, <2>1 DEF ReadAgain, StageOK, At, Doing, Writing, Ops
<1>12. QED
  BY <1>1, <1>2, <1>3, <1>4, <1>5, <1>6, <1>7, <1>8, <1>9, <1>10, <1>11 DEF Write

\* One worker's step leaves the others' stages alone: the mutex a writer
\* holds is not released by another.
LEMMA StagesNext ==
    ASSUME WorkersOK, StagesOK, NEW a \in Workers, Read(a) \/ Write(a)
    PROVE  StagesOK'
<1>1. StageOK(a)'
  BY StagesRead, StagesWrite
<1>2. ASSUME NEW b \in Workers, b # a PROVE StageOK(b)'
  <2>1. worker'[b] = worker[b]
    BY <1>2, OthersKept
  <2>2. \/ writes' = writes
        \/ writes = None /\ writes' = a
        \/ writes = a /\ writes' = None
    BY ReadKeeps, StagesWrite
  <2>3. StageOK(b) /\ None # b
    BY NoneAssumption DEF StagesOK
  <2>4. QED
    BY <1>2, <2>1, <2>2, <2>3 DEF StageOK, At, Doing, Writing
<1>3. QED
  BY <1>1, <1>2 DEF StagesOK

\* The mutex: one writer at a time.
LEMMA OneWriter ==
    ASSUME StagesOK, NEW a \in Workers, NEW b \in Workers, Writing(a), Writing(b)
    PROVE  a = b
BY DEF StagesOK, StageOK

-----------------------------------------------------------------------------
(* Types. *)

\* A commit appends a database.
LEMMA LogType ==
    ASSUME TypeOK, StagesOK, NEW a \in Workers, Read(a) \/ Write(a)
    PROVE  LogOK'
<1>1. CASE log' = log
  BY <1>1 DEF TypeOK, LogOK
<1>2. ASSUME NEW batch \in Batches, Store(worker[a].ws, batch), worker[a].ws \in Workspaces
      PROVE  LogOK'
  <2> DEFINE w == worker[a].ws
             db == [Committed EXCEPT ![w] = Applied(batch, Committed[w])]
  <2>1. Committed \in [Workspaces -> Docs]
    BY CommittedType
  <2>2. Applied(batch, Committed[w]) \in Docs
    BY <1>2, <2>1, AppliedType
  <2>3. db \in [Workspaces -> Docs]
    BY <2>1, <2>2
  <2>4. log' = Append(log, db)
    BY <1>2 DEF Store
  <2> HIDE DEF db
  <2>5. QED
    BY <2>3, <2>4 DEF TypeOK, LogOK
<1>3. StageOK(a)
  BY DEF StagesOK
<1>4. ASSUME NEW batch \in Batches, Commit(a, batch) PROVE LogOK'
  BY <1>2, <1>3, <1>4 DEF Commit, StageOK, At
<1>5. CASE CommitForget(a)
  <2> DEFINE gone == [i \in Ids |-> Hidden]
  <2>1. gone \in Batches
    BY DEF Batches
  <2>2. Store(worker[a].ws, gone) /\ worker[a].ws \in Workspaces
    BY <1>3, <1>5 DEF CommitForget, StageOK, At
  <2>3. QED
    BY <1>2, <2>1, <2>2
<1>6. QED
  BY <1>1, <1>4, <1>5, ReadKeeps DEF Write, BeginWrite, Begin, Decline, ForgetNothing,
     Bump, PatchLive, DropLive, DropTerms, ReadAgain, EndWrite

\* Every step leaves both caches of the right type.
LEMMA CachesType ==
    ASSUME TypeOK, StagesOK, NEW a \in Workers, Read(a) \/ Write(a)
    PROVE  CachesOK'
<1>0. /\ live \in [Workspaces -> Snapshots \cup {None}]
      /\ terms \in [Workspaces -> Snapshots \cup {None}]
      /\ worker[a] \in WorkerStates /\ StageOK(a) /\ WorkersOK
  BY DEF TypeOK, CachesOK, WorkersOK, StagesOK
<1>1. worker[a].snap \in Snapshots \cup {None}
  BY <1>0 DEF WorkerStates
<1>2. CASE UNCHANGED <<live, terms>>
  BY <1>0, <1>2 DEF CachesOK
<1>3. CASE Insert(a)
  <2>1. PICK out : /\ live' = With(live, worker[a].ws, worker[a].snap, out)
                   /\ terms' = Without(terms, out)
    BY <1>3 DEF Insert
  <2>2. QED
    BY <1>0, <1>1, <2>1, CacheUpdateType DEF CachesOK
<1>4. CASE TakePrevious(a)
  BY <1>0, <1>4, CacheUpdateType DEF TakePrevious, CachesOK
<1>5. CASE PushIndex(a)
  <2>1. PICK out : terms' = With(terms, worker[a].ws, worker[a].snap, out)
    BY <1>5 DEF PushIndex
  <2>2. live' = live
    BY <1>5 DEF PushIndex
  <2>3. QED
    BY <1>0, <1>1, <2>1, <2>2, CacheUpdateType DEF CachesOK
<1>6. CASE PatchLive(a)
  <2>1. worker[a].batch \in Batches /\ worker[a].seen \in Nat
    BY <1>0, <1>6 DEF PatchLive, StageOK, At, WorkerStates
  <2>2. ASSUME NEW w \in Workspaces, live[w] # None
        PROVE  /\ Folded(live[w], worker[a].batch, worker[a].seen) \in Snapshots
               /\ Restamped(live[w], worker[a].seen) \in Snapshots
    BY <1>0, <2>1, <2>2, FoldedType
  <2>3. QED
    BY <1>0, <1>6, <2>2 DEF PatchLive, CachesOK
<1>7. CASE DropLive(a)
  BY <1>0, <1>7, CacheUpdateType DEF DropLive, CachesOK
<1>8. CASE DropTerms(a)
  BY <1>0, <1>8, CacheUpdateType DEF DropTerms, CachesOK
<1>9. QED
  BY <1>2, <1>3, <1>4, <1>5, <1>6, <1>7, <1>8 DEF Read, Write, Begin, BeginRead,
     LoadGeneration, LookupHit, LookupMiss, Scan, CheckGeneration, AnswerLive, SearchHit,
     SearchMiss, AcquireBuild, RecheckMiss, Return, BeginWrite, Commit, Decline,
     CommitForget, ForgetNothing, Bump, ReadAgain, EndWrite

\* The counters are numbers and the locks have a holder or none.
LEMMA CountersType ==
    ASSUME TypeOK, NEW a \in Workers, Read(a) \/ Write(a)
    PROVE  (/\ generation \in Nat
            /\ acked \in Nat
            /\ writes \in Workers \cup {None}
            /\ terms_build \in Workers \cup {None})'
<1>0. worker[a] \in WorkerStates
  BY DEF TypeOK, WorkersOK
<1>1. worker[a].seen \in Nat
  BY <1>0 DEF WorkerStates
<1>2. generation' = generation \/ generation' = generation + 1
  BY ReadKeeps DEF Write, Begin, BeginWrite, Commit, Decline,
     CommitForget, ForgetNothing, Bump, PatchLive, DropLive, DropTerms, ReadAgain, EndWrite
<1>3. acked' = acked \/ acked' = worker[a].seen
  BY ReadKeeps DEF Write, Begin, BeginWrite, Commit, Decline,
     CommitForget, ForgetNothing, Bump, PatchLive, DropLive, DropTerms, ReadAgain, EndWrite
<1>4. writes' \in Workers \cup {None}
  BY ReadKeeps DEF TypeOK, Write, BeginWrite, Commit, Decline,
     CommitForget, ForgetNothing, Bump, PatchLive, DropLive, DropTerms, ReadAgain, EndWrite
<1>5. terms_build' \in Workers \cup {None}
  BY DEF TypeOK, Read, Write, Begin, BeginRead, LoadGeneration, LookupHit, LookupMiss,
     Scan, CheckGeneration, Insert, AnswerLive, SearchHit, SearchMiss, AcquireBuild,
     RecheckMiss, TakePrevious, PushIndex, Return, BeginWrite, Commit, Decline,
     CommitForget, ForgetNothing, Bump, PatchLive, DropLive, DropTerms, ReadAgain, EndWrite
<1>6. QED
  BY <1>1, <1>2, <1>3, <1>4, <1>5 DEF TypeOK

\* The types are kept, given the stages.
LEMMA TypeNext ==
    ASSUME TypeOK, StagesOK, NEW a \in Workers, Read(a) \/ Write(a)
    PROVE  TypeOK'
<1>1. WorkersOK'
  BY WorkersRead, WorkersWrite
<1>2. QED
  BY <1>1, LogType, CachesType, CountersType DEF TypeOK

\* Nobody is in an operation when the store opens.
LEMMA StagesInit == Init => StagesOK
BY NoneAssumption DEF Init, StagesOK, StageOK, At, Doing, Writing, Idle, Ops

(***************************************************************************)
(* Every variable of the store keeps its type, for any number of           *)
(* workspaces, records and threads: in particular a patch always has a     *)
(* batch and every step past idle a workspace.                             *)
(***************************************************************************)
THEOREM TypeCorrect == Spec => []TypeOK
<1>1. Init => TypeOK /\ StagesOK
  BY TypeInit, StagesInit
<1>2. TypeOK /\ StagesOK /\ [Next]_vars => (TypeOK /\ StagesOK)'
  <2> SUFFICES ASSUME TypeOK, StagesOK, [Next]_vars
               PROVE  (TypeOK /\ StagesOK)'
    OBVIOUS
  <2>1. CASE UNCHANGED vars
    BY <2>1 DEF vars, TypeOK, LogOK, CachesOK, WorkersOK, StagesOK, StageOK, At, Doing, Writing
  <2>2. ASSUME NEW a \in Workers, Read(a) \/ Write(a)
        PROVE  (TypeOK /\ StagesOK)'
    <3>1. WorkersOK
      BY DEF TypeOK
    <3>2. QED
      BY <2>2, <3>1, TypeNext, StagesNext
  <2>3. QED
    BY <2>1, <2>2 DEF Next
<1>3. QED
  BY <1>1, <1>2, PTL DEF Spec

-----------------------------------------------------------------------------
(* What only grows. *)

\* A read of the log that no step takes back.
Grown ==
    /\ generation <= generation'
    /\ Len(log) <= Len(log') /\ Len(log') \in Nat
    /\ \A k \in 1..Len(log) : log'[k] = log[k]

\* Only a writer changes the log or the count.
LEMMA OnlyWriters ==
    ASSUME StagesOK, NEW a \in Workers, Read(a) \/ Write(a), ~Writing(a)
    PROVE  UNCHANGED <<log, generation, acked>>
<1>1. StageOK(a)
  BY DEF StagesOK
<1>2. QED
  BY <1>1, ReadKeeps DEF Write, BeginWrite, Begin, Commit, Decline, CommitForget,
     ForgetNothing, Bump, PatchLive, DropLive, DropTerms, ReadAgain, EndWrite, StageOK, At,
     Doing, Writing

\* No step rewrites a commit or takes a bump back.
LEMMA Grows ==
    ASSUME TypeOK, StagesOK, NEW a \in Workers, Read(a) \/ Write(a)
    PROVE  Grown
<1>0. /\ generation \in Nat /\ Len(log) \in Nat
      /\ \E T : log \in Seq(T)
  BY CommittedType DEF TypeOK, LogOK
<1>1. CASE log' = log
  <2>1. generation' = generation \/ generation' = generation + 1
    BY ReadKeeps DEF Write, BeginWrite, Begin, Commit, Decline, CommitForget,
       ForgetNothing, Bump, PatchLive, DropLive, DropTerms, ReadAgain, EndWrite
  <2>2. QED
    BY <1>0, <1>1, <2>1 DEF Grown
<1>2. ASSUME NEW batch, Store(worker[a].ws, batch), generation' = generation
      PROVE  Grown
  <2> DEFINE db == [Committed EXCEPT ![worker[a].ws] =
                        Applied(batch, Committed[worker[a].ws])]
  <2>1. log' = Append(log, db)
    BY <1>2 DEF Store
  <2> HIDE DEF db
  <2>2. Len(log') = Len(log) + 1 /\ \A k \in 1..Len(log) : log'[k] = log[k]
    BY <1>0, <2>1
  <2>3. QED
    BY <1>0, <1>2, <2>2 DEF Grown
<1>3. QED
  BY <1>1, <1>2, ReadKeeps DEF Write, BeginWrite, Begin, Commit, Decline,
     CommitForget, ForgetNothing, Bump, PatchLive, DropLive, DropTerms, ReadAgain, EndWrite

\* What was committed stays committed.
LEMMA SinceKept ==
    ASSUME Len(log) \in Nat, Grown, NEW docs, NEW w, NEW n \in Nat,
           CommittedSince(docs, w, n)
    PROVE  \E k \in (n + 1)..Len(log') : docs = log'[k][w]
BY DEF CommittedSince, Grown

\* What was committed since a later write was since an earlier one.
LEMMA SinceWeaker ==
    ASSUME NEW docs, NEW w, NEW m \in Nat, NEW n \in Nat, n <= m,
           CommittedSince(docs, w, m)
    PROVE  CommittedSince(docs, w, n)
BY DEF CommittedSince

\* The log is one or two longer than the count of writes.
LEMMA CountBounds ==
    ASSUME TypeOK, CountOK
    PROVE  /\ generation + 1 <= Len(log) /\ Len(log) <= generation + 2
           /\ generation \in Nat /\ Len(log) \in Nat
BY CommittedType DEF TypeOK, CountOK

\* A reflected set was committed at or after its label.
LEMMA ReflectsSince ==
    ASSUME TypeOK, CountOK, NEW snap \in Snapshots, NEW w, Reflects(snap, w)
    PROVE  CommittedSince(snap.docs, w, snap.generation)
<1>1. snap.generation \in Nat
  BY DEF Snapshots
<1>2. /\ generation + 1 <= Len(log) /\ generation \in Nat /\ Len(log) \in Nat
      /\ snap.generation <= generation
  BY CountBounds DEF Reflects
<1>3. CASE snap.docs = log[snap.generation + 1][w]
  <2>1. snap.generation + 1 \in (snap.generation + 1)..Len(log)
    BY <1>1, <1>2
  <2>2. QED
    BY <1>3, <2>1 DEF CommittedSince
<1>4. CASE /\ snap.generation + 2 <= Len(log)
           /\ snap.docs = log[snap.generation + 2][w]
  <2>1. snap.generation + 2 \in (snap.generation + 1)..Len(log)
    BY <1>1, <1>2, <1>4
  <2>2. QED
    BY <1>4, <2>1 DEF CommittedSince
<1>5. QED
  BY <1>3, <1>4 DEF Reflects

\* Reflects after the step, of a set from before it.
ReflectsNext(snap, w) ==
    /\ snap.generation <= generation'
    /\ \/ snap.docs = log'[snap.generation + 1][w]
       \/ /\ snap.generation + 2 <= Len(log')
          /\ snap.docs = log'[snap.generation + 2][w]

\* What a cached set reflects it reflects after any step.
LEMMA ReflectsKept ==
    ASSUME TypeOK, CountOK, Grown, generation' \in Nat, NEW snap \in Snapshots, NEW w,
           Reflects(snap, w)
    PROVE  ReflectsNext(snap, w)
<1>1. snap.generation \in Nat
  BY DEF Snapshots
<1>2. /\ generation + 1 <= Len(log) /\ generation \in Nat /\ Len(log) \in Nat
      /\ snap.generation <= generation
  BY CountBounds DEF Reflects
<1>3. /\ snap.generation + 1 \in 1..Len(log)
      /\ snap.generation <= generation' /\ Len(log) <= Len(log') /\ Len(log') \in Nat
  BY <1>1, <1>2 DEF Grown
<1>4. CASE snap.docs = log[snap.generation + 1][w]
  BY <1>3, <1>4 DEF Grown, ReflectsNext
<1>5. CASE /\ snap.generation + 2 <= Len(log)
           /\ snap.docs = log[snap.generation + 2][w]
  <2>1. snap.generation + 2 \in 1..Len(log) /\ snap.generation + 2 <= Len(log')
    BY <1>1, <1>2, <1>3, <1>5
  <2>2. QED
    BY <1>3, <1>5, <2>1 DEF Grown, ReflectsNext
<1>6. QED
  BY <1>4, <1>5 DEF Reflects

-----------------------------------------------------------------------------
(* The count of writes. *)

ReadSteps == {"idle", "load", "lookup", "scan", "check", "insert", "got", "wait",
              "push", "done"}

\* A read stays among the steps of reads.
LEMMA ReadMoves ==
    ASSUME WorkersOK, NEW a \in Workers, Read(a)
    PROVE  worker[a].pc \in ReadSteps /\ worker'[a].pc \in ReadSteps
<1>1. ASSUME NEW w, NEW op, BeginRead(a, op, w)
      PROVE  worker[a].pc \in ReadSteps /\ worker'[a].pc \in ReadSteps
  BY <1>1, MoveBegin DEF BeginRead, Begin, At, ReadSteps
<1>2. CASE LoadGeneration(a)
  BY <1>2, LoadGenerationMoves DEF LoadGeneration, At, ReadSteps
<1>3. CASE LookupHit(a)
  BY <1>3, LookupHitMoves DEF LookupHit, At, ReadSteps
<1>4. CASE LookupMiss(a)
  BY <1>4, MovePc DEF LookupMiss, At, ReadSteps
<1>5. CASE Scan(a)
  BY <1>5, ScanMoves DEF Scan, At, ReadSteps
<1>6. CASE CheckGeneration(a)
  BY <1>6, MovePc DEF CheckGeneration, At, ReadSteps
<1>7. CASE Insert(a)
  BY <1>7, MovePc DEF Insert, At, ReadSteps
<1>8. CASE AnswerLive(a)
  BY <1>8, MovePc DEF AnswerLive, At, ReadSteps
<1>9. CASE SearchHit(a)
  BY <1>9, SearchHitMoves DEF SearchHit, At, ReadSteps
<1>10. CASE SearchMiss(a)
  BY <1>10, MovePc DEF SearchMiss, At, ReadSteps
<1>11. CASE AcquireBuild(a)
  BY <1>11, MoveOp DEF AcquireBuild, At, ReadSteps
<1>12. CASE RecheckMiss(a)
  BY <1>12, MoveOp DEF RecheckMiss, At, ReadSteps
<1>13. CASE TakePrevious(a)
  BY <1>13, MovePc DEF TakePrevious, At, ReadSteps
<1>14. CASE PushIndex(a)
  BY <1>14, PushIndexMoves DEF PushIndex, At, ReadSteps
<1>15. CASE Return(a)
  BY <1>15, MoveIdle DEF Return, At, ReadSteps
<1>16. QED
  BY <1>1, <1>2, <1>3, <1>4, <1>5, <1>6, <1>7, <1>8, <1>9, <1>10, <1>11, <1>12, <1>13, <1>14, <1>15 DEF Read

\* A commit puts the log one ahead of the count, and its own bump, the
\* only one that may follow, takes that back.
LEMMA CountNext ==
    ASSUME TypeOK, StagesOK, CountOK, NEW a \in Workers, Read(a) \/ Write(a)
    PROVE  CountOK'
<1>0. WorkersOK /\ StageOK(a) /\ generation \in Nat /\ Len(log) \in Nat
  BY CommittedType DEF TypeOK, StagesOK
<1>1. \A b \in Workers : b # a => worker'[b] = worker[b]
  BY <1>0, OthersKept
<1>2. Writing(a) => \A b \in Workers : b # a => ~At(b, "bump")
  <2>1. \A b \in Workers : At(b, "bump") => Writing(b)
    BY DEF StagesOK, StageOK, At
  <2>2. QED
    BY <2>1, OneWriter
<1>3. ASSUME UNCHANGED <<log, generation>>, ~At(a, "bump"), worker'[a].pc # "bump"
      PROVE  CountOK'
  <2>1. (\E b \in Workers : At(b, "bump"))' <=> \E b \in Workers : At(b, "bump")
    BY <1>1, <1>3 DEF At
  <2>2. QED
    BY <1>3, <2>1 DEF CountOK
<1>4. CASE Read(a)
  BY <1>0, <1>3, <1>4, ReadKeeps, ReadMoves DEF ReadSteps, At
<1>5. ASSUME NEW batch, Store(worker[a].ws, batch), generation' = generation,
             Writing(a), ~At(a, "bump"), worker'[a].pc = "bump"
      PROVE  CountOK'
  <2>1. ~\E b \in Workers : At(b, "bump")
    BY <1>2, <1>5
  <2>2. (\E b \in Workers : At(b, "bump"))'
    BY <1>5 DEF At
  <2>3. Len(log') = Len(log) + 1
    BY <1>5 DEF Store, TypeOK, LogOK
  <2>4. QED
    BY <1>0, <1>5, <2>1, <2>2, <2>3 DEF CountOK
<1>6. ASSUME NEW batch, Commit(a, batch) PROVE CountOK'
  <2>1. worker'[a].pc = "bump"
    BY <1>0, <1>6, MoveBatch DEF Commit
  <2>2. Writing(a) /\ ~At(a, "bump")
    BY <1>6 DEF Commit, Writing, Doing, At
  <2>3. QED
    BY <1>5, <1>6, <2>1, <2>2 DEF Commit
<1>7. CASE CommitForget(a)
  <2>1. worker'[a].pc = "bump"
    BY <1>0, <1>7, MoveBatch DEF CommitForget
  <2>2. Writing(a) /\ ~At(a, "bump")
    BY <1>0, <1>7 DEF CommitForget, StageOK, At
  <2>3. QED
    BY <1>5, <1>7, <2>1, <2>2 DEF CommitForget
<1>8. CASE Bump(a)
  <2>1. worker'[a].pc = (IF Doing(a, {"forget"}) THEN "drop" ELSE "patch")
    BY <1>0, <1>8, BumpMoves
  <2>2. Writing(a) /\ At(a, "bump")
    BY <1>0, <1>8 DEF Bump, StageOK, At
  <2>3. ~(\E b \in Workers : At(b, "bump"))'
    BY <1>1, <1>2, <2>1, <2>2 DEF At
  <2>4. Len(log) = generation + 2
    BY <2>2 DEF CountOK
  <2>5. QED
    BY <1>0, <1>8, <2>3, <2>4 DEF CountOK, Bump
<1>9. ASSUME NEW w, BeginWrite(a, w) PROVE CountOK'
  <2>1. worker'[a].pc \in {"load", "erase"}
    BY <1>0, <1>9, MoveBegin DEF BeginWrite
  <2>2. QED
    BY <1>3, <1>9, <2>1 DEF BeginWrite, Begin, At
<1>10. CASE Decline(a)
  <2>1. worker'[a].pc = "idle"
    BY <1>0, <1>10, MoveIdle DEF Decline
  <2>2. QED
    BY <1>3, <1>10, <2>1 DEF Decline, At
<1>11. CASE ForgetNothing(a)
  <2>1. worker'[a].pc = "drop"
    BY <1>0, <1>11, ForgetNothingMoves
  <2>2. QED
    BY <1>3, <1>11, <2>1 DEF ForgetNothing, At
<1>12. CASE PatchLive(a)
  <2>1. worker'[a].pc = "unlock"
    BY <1>0, <1>12, MovePc DEF PatchLive
  <2>2. QED
    BY <1>3, <1>12, <2>1 DEF PatchLive, At
<1>13. CASE DropLive(a)
  <2>1. worker'[a].pc = "drop_terms"
    BY <1>0, <1>13, MovePc DEF DropLive
  <2>2. QED
    BY <1>3, <1>13, <2>1 DEF DropLive, At
<1>14. CASE DropTerms(a)
  <2>1. worker'[a].pc = "unlock"
    BY <1>0, <1>14, MovePc DEF DropTerms
  <2>2. QED
    BY <1>3, <1>14, <2>1 DEF DropTerms, At
<1>15. CASE EndWrite(a)
  <2>1. worker'[a].pc = "idle"
    BY <1>0, <1>15, MoveIdle DEF EndWrite
  <2>2. QED
    BY <1>3, <1>15, <2>1 DEF EndWrite, At
<1>16. CASE ReadAgain(a)
  <2>1. worker'[a].pc = "load"
    BY <1>0, <1>16, MovePc DEF ReadAgain
  <2>2. QED
    BY <1>3, <1>16, <2>1 DEF ReadAgain, At
<1>17. QED
  BY <1>4, <1>6, <1>7, <1>8, <1>9, <1>10, <1>11, <1>12, <1>13, <1>14, <1>15, <1>16 DEF Write

-----------------------------------------------------------------------------
(* What a worker knows of the writes. *)

\* A reader never knows less than what was acknowledged when it began.
LEMMA SeenRead ==
    ASSUME TypeOK, StagesOK, acked <= generation, NEW a \in Workers, SeenOK(a), Read(a)
    PROVE  SeenOK(a)'
<1>0. /\ WorkersOK /\ worker[a].seen \in Nat /\ worker[a].floor \in Nat
      /\ acked \in Nat /\ generation \in Nat
      /\ acked' = acked /\ generation' = generation
  BY ReadKeeps DEF TypeOK, WorkersOK, WorkerStates
<1>1. ASSUME NEW w \in Workspaces, NEW op \in {"live", "search"}, BeginRead(a, op, w)
      PROVE  SeenOK(a)'
  <2>1. /\ worker'[a].pc = "load" /\ worker'[a].seen = 0
        /\ worker'[a].floor = acked
    BY <1>0, <1>1, MoveBegin DEF BeginRead
  <2>2. QED
    BY <1>0, <2>1 DEF SeenOK, At, Reading
<1>2. CASE LoadGeneration(a)
  <2>1. /\ worker'[a].pc = "lookup" /\ worker'[a].op = worker[a].op
        /\ worker'[a].seen = generation /\ worker'[a].floor = worker[a].floor
    BY <1>0, <1>2, LoadGenerationMoves
  <2>2. QED
    BY <1>0, <1>2, <2>1 DEF LoadGeneration, SeenOK, At, Doing, Writing, Reading
<1>3. CASE LookupHit(a)
  <2>1. /\ worker'[a].pc = "got" /\ worker'[a].op = worker[a].op
        /\ worker'[a].seen = worker[a].seen /\ worker'[a].floor = worker[a].floor
    BY <1>0, <1>3, LookupHitMoves
  <2>2. QED
    BY <1>0, <1>3, <2>1 DEF LookupHit, SeenOK, At, Doing, Writing, Reading
<1>4. CASE LookupMiss(a)
  <2>1. /\ worker'[a].pc = "scan" /\ worker'[a].op = worker[a].op
        /\ worker'[a].seen = worker[a].seen /\ worker'[a].floor = worker[a].floor
    BY <1>0, <1>4, MovePc DEF LookupMiss
  <2>2. QED
    BY <1>0, <1>4, <2>1 DEF LookupMiss, SeenOK, At, Doing, Writing, Reading
<1>5. CASE Scan(a)
  <2>1. /\ worker'[a].pc = "check" /\ worker'[a].op = worker[a].op
        /\ worker'[a].seen = worker[a].seen /\ worker'[a].floor = worker[a].floor
    BY <1>0, <1>5, ScanMoves
  <2>2. QED
    BY <1>0, <1>5, <2>1 DEF Scan, SeenOK, At, Doing, Writing, Reading
<1>6. CASE CheckGeneration(a)
  <2>1. /\ worker'[a].pc = (IF Unraced(a) THEN "insert" ELSE "got") /\ worker'[a].op = worker[a].op
        /\ worker'[a].seen = worker[a].seen /\ worker'[a].floor = worker[a].floor
    BY <1>0, <1>6, MovePc DEF CheckGeneration
  <2>2. QED
    BY <1>0, <1>6, <2>1 DEF CheckGeneration, SeenOK, At, Doing, Writing, Reading
<1>7. CASE Insert(a)
  <2>1. /\ worker'[a].pc = "got" /\ worker'[a].op = worker[a].op
        /\ worker'[a].seen = worker[a].seen /\ worker'[a].floor = worker[a].floor
    BY <1>0, <1>7, MovePc DEF Insert
  <2>2. QED
    BY <1>0, <1>7, <2>1 DEF Insert, SeenOK, At, Doing, Writing, Reading
<1>8. CASE AnswerLive(a)
  <2>1. /\ worker'[a].pc = "done" /\ worker'[a].op = worker[a].op
        /\ worker'[a].seen = worker[a].seen /\ worker'[a].floor = worker[a].floor
    BY <1>0, <1>8, MovePc DEF AnswerLive
  <2>2. QED
    BY <1>0, <1>8, <2>1 DEF AnswerLive, SeenOK, At, Doing, Writing, Reading
<1>9. CASE SearchHit(a)
  <2>1. /\ worker'[a].pc = "done" /\ worker'[a].op = worker[a].op
        /\ worker'[a].seen = worker[a].seen /\ worker'[a].floor = worker[a].floor
    BY <1>0, <1>9, SearchHitMoves
  <2>2. QED
    BY <1>0, <1>9, <2>1 DEF SearchHit, SeenOK, At, Doing, Writing, Reading
<1>10. CASE SearchMiss(a)
  <2>1. /\ worker'[a].pc = "wait" /\ worker'[a].op = worker[a].op
        /\ worker'[a].seen = worker[a].seen /\ worker'[a].floor = worker[a].floor
    BY <1>0, <1>10, MovePc DEF SearchMiss
  <2>2. QED
    BY <1>0, <1>10, <2>1 DEF SearchMiss, SeenOK, At, Doing, Writing, Reading
<1>11. CASE AcquireBuild(a)
  <2>1. /\ worker'[a].pc = "load" /\ worker'[a].op = "recheck"
        /\ worker'[a].seen = worker[a].seen /\ worker'[a].floor = worker[a].floor
    BY <1>0, <1>11, MoveOp DEF AcquireBuild
  <2>2. QED
    BY <1>0, <1>11, <2>1 DEF AcquireBuild, SeenOK, At, Doing, Writing, Reading
<1>12. CASE RecheckMiss(a)
  <2>1. /\ worker'[a].pc = "load" /\ worker'[a].op = "build"
        /\ worker'[a].seen = worker[a].seen /\ worker'[a].floor = worker[a].floor
    BY <1>0, <1>12, MoveOp DEF RecheckMiss
  <2>2. QED
    BY <1>0, <1>12, <2>1 DEF RecheckMiss, SeenOK, At, Doing, Writing, Reading
<1>13. CASE TakePrevious(a)
  <2>1. /\ worker'[a].pc = "push" /\ worker'[a].op = worker[a].op
        /\ worker'[a].seen = worker[a].seen /\ worker'[a].floor = worker[a].floor
    BY <1>0, <1>13, MovePc DEF TakePrevious
  <2>2. QED
    BY <1>0, <1>13, <2>1 DEF TakePrevious, SeenOK, At, Doing, Writing, Reading
<1>14. CASE PushIndex(a)
  <2>1. /\ worker'[a].pc = "done" /\ worker'[a].op = worker[a].op
        /\ worker'[a].seen = worker[a].seen /\ worker'[a].floor = worker[a].floor
    BY <1>0, <1>14, PushIndexMoves
  <2>2. QED
    BY <1>0, <1>14, <2>1 DEF PushIndex, SeenOK, At, Doing, Writing, Reading
<1>15. CASE Return(a)
  <2>1. /\ worker'[a].pc = "idle" /\ worker'[a].seen = 0
        /\ worker'[a].floor = 0
    BY <1>0, <1>15, MoveIdle DEF Return
  <2>2. QED
    BY <1>0, <1>15, <2>1 DEF Return, SeenOK, At, Doing, Writing, Reading
<1>16. QED
  BY <1>1, <1>2, <1>3, <1>4, <1>5, <1>6, <1>7, <1>8, <1>9, <1>10, <1>11, <1>12, <1>13, <1>14, <1>15 DEF Read

\* A writer knows every write there is, and acknowledges no other.
LEMMA SeenWrite ==
    ASSUME TypeOK, StagesOK, acked <= generation, NEW a \in Workers, SeenOK(a), Write(a)
    PROVE  SeenOK(a)' /\ acked <= acked' /\ acked' <= generation'
<1>0. /\ WorkersOK /\ worker[a].seen \in Nat /\ worker[a].floor \in Nat
      /\ acked \in Nat /\ generation \in Nat
  BY DEF TypeOK, WorkersOK, WorkerStates
<1> DEFINE Goal == SeenOK(a)' /\ acked <= acked' /\ acked' <= generation'
<1>1. ASSUME NEW w \in Workspaces, BeginWrite(a, w) PROVE Goal
  <2>1. /\ worker'[a].pc \in {"load", "erase"} /\ worker'[a].seen = 0
        /\ worker'[a].floor = acked
    BY <1>0, <1>1, MoveBegin DEF BeginWrite
  <2>2. acked' = acked /\ generation' = generation
    BY <1>1 DEF BeginWrite, Begin
  <2>3. QED
    BY <1>0, <2>1, <2>2 DEF SeenOK, At, Reading
<1>2. ASSUME NEW batch \in Batches, Commit(a, batch) PROVE Goal
  <2>1. /\ worker'[a].pc = "bump" /\ worker'[a].seen = worker[a].seen
        /\ worker'[a].floor = worker[a].floor
    BY <1>0, <1>2, MoveBatch DEF Commit
  <2>2. QED
    BY <1>0, <1>2, <2>1 DEF Commit, SeenOK, At, Reading
<1>3. CASE CommitForget(a)
  <2>1. /\ worker'[a].pc = "bump" /\ worker'[a].seen = worker[a].seen
        /\ worker'[a].floor = worker[a].floor
    BY <1>0, <1>3, MoveBatch DEF CommitForget
  <2>2. QED
    BY <1>0, <1>3, <2>1 DEF CommitForget, SeenOK, At, Reading
<1>4. CASE Decline(a)
  <2>1. /\ worker'[a].pc = "idle"
        /\ worker'[a].seen = 0 /\ worker'[a].floor = 0
    BY <1>0, <1>4, MoveIdle DEF Decline
  <2>2. /\ acked' = worker[a].seen /\ worker[a].seen = generation
        /\ generation' = generation
    BY <1>0, <1>4 DEF Decline, SeenOK, At, Doing, Writing, Reading
  <2>3. QED
    BY <1>0, <2>1, <2>2 DEF SeenOK, At, Reading, TypeOK
<1>5. CASE ForgetNothing(a)
  <2>1. /\ worker'[a].pc = "drop"
        /\ worker'[a].seen = generation /\ worker'[a].floor = worker[a].floor
    BY <1>0, <1>5, ForgetNothingMoves
  <2>2. QED
    BY <1>0, <1>5, <2>1 DEF ForgetNothing, SeenOK, At, Doing, Reading
<1>6. CASE Bump(a)
  <2>1. /\ worker'[a].pc = (IF Doing(a, {"forget"}) THEN "drop" ELSE "patch")
        /\ worker'[a].seen = generation + 1 /\ worker'[a].floor = worker[a].floor
    BY <1>0, <1>6, BumpMoves
  <2>2. QED
    BY <1>0, <1>6, <2>1 DEF Bump, SeenOK, At, Doing, Reading
<1>7. CASE PatchLive(a)
  <2>1. /\ worker'[a].pc = "unlock"
        /\ worker'[a].seen = worker[a].seen /\ worker'[a].floor = worker[a].floor
    BY <1>0, <1>7, MovePc DEF PatchLive
  <2>2. QED
    BY <1>0, <1>7, <2>1 DEF PatchLive, SeenOK, At, Doing, Reading
<1>8. CASE DropLive(a)
  <2>1. /\ worker'[a].pc = "drop_terms"
        /\ worker'[a].seen = worker[a].seen /\ worker'[a].floor = worker[a].floor
    BY <1>0, <1>8, MovePc DEF DropLive
  <2>2. QED
    BY <1>0, <1>8, <2>1 DEF DropLive, SeenOK, At, Doing, Reading
<1>9. CASE DropTerms(a)
  <2>1. /\ worker'[a].pc = "unlock"
        /\ worker'[a].seen = worker[a].seen /\ worker'[a].floor = worker[a].floor
    BY <1>0, <1>9, MovePc DEF DropTerms
  <2>2. QED
    BY <1>0, <1>9, <2>1 DEF DropTerms, SeenOK, At, Doing, Reading
<1>10. CASE EndWrite(a)
  <2>1. /\ worker'[a].pc = "idle"
        /\ worker'[a].seen = 0 /\ worker'[a].floor = 0
    BY <1>0, <1>10, MoveIdle DEF EndWrite
  <2>2. QED
    BY <1>0, <1>10, <2>1 DEF EndWrite, SeenOK, At, Doing, Reading
<1>11. CASE ReadAgain(a)
  <2>1. /\ worker'[a].pc = "load"
        /\ worker'[a].seen = worker[a].seen /\ worker'[a].floor = worker[a].floor
    BY <1>0, <1>11, MovePc DEF ReadAgain
  <2>2. QED
    BY <1>0, <1>11, <2>1 DEF ReadAgain, SeenOK, At, Doing, Reading
<1>12. QED
  BY <1>1, <1>2, <1>3, <1>4, <1>5, <1>6, <1>7, <1>8, <1>9, <1>10, <1>11 DEF Write

\* What a worker knows, it knows after another's step.
LEMMA SeenOthers ==
    ASSUME TypeOK, StagesOK, NEW a \in Workers, Read(a) \/ Write(a), Grown,
           acked <= acked', acked' \in Nat,
           NEW b \in Workers, b # a, SeenOK(b)
    PROVE  SeenOK(b)'
<1>1. worker'[b] = worker[b]
  BY OthersKept DEF TypeOK
<1>2. /\ worker[b].seen \in Nat /\ worker[b].floor \in Nat /\ StageOK(b)
      /\ acked \in Nat /\ generation \in Nat /\ generation' \in Nat
  BY CountersType DEF TypeOK, WorkersOK, WorkerStates, StagesOK
<1>3. CASE Writing(b)
  <2>1. UNCHANGED <<generation, acked>>
    BY <1>3, OneWriter, OnlyWriters
  <2>2. QED
    BY <1>1, <2>1 DEF SeenOK, At, Doing, Writing, Reading
<1>4. CASE ~Writing(b)
  <2>1. worker[b].pc \notin {"patch", "drop", "drop_terms", "unlock"}
    BY <1>2, <1>4 DEF StageOK
  <2>2. QED
    BY <1>1, <1>2, <1>4, <2>1 DEF SeenOK, At, Doing, Writing, Reading, Grown
<1>5. QED
  BY <1>3, <1>4

-----------------------------------------------------------------------------
(* What a worker has read. *)

SnapSteps == {"check", "insert", "got", "push", "done"}

\* What a reader holds was committed since the generation it loaded.
LEMMA SnapRead ==
    ASSUME IInv, NEW a \in Workers, Read(a)
    PROVE  SnapOK(a)'
<1>0. /\ TypeOK /\ CountOK /\ WorkersOK /\ worker[a] \in WorkerStates /\ StageOK(a)
      /\ SeenOK(a) /\ SnapOK(a)
      /\ worker[a].seen \in Nat /\ worker[a].floor \in Nat
  BY DEF IInv, TypeOK, WorkersOK, WorkerStates, StagesOK
<1>same. UNCHANGED <<log, generation>>
  BY ReadKeeps
<1>1. ASSUME NEW w \in Workspaces, NEW op \in {"live", "search"}, BeginRead(a, op, w)
      PROVE  SnapOK(a)'
  <2>1. worker'[a].pc = "load" /\ worker'[a].index = None
    BY <1>0, <1>1, MoveBegin DEF BeginRead
  <2>2. QED
    BY <2>1 DEF SnapOK, At
<1>ws. ~At(a, "idle") => worker[a].ws \in Workspaces
  BY <1>0 DEF StageOK
<1>2. CASE LoadGeneration(a)
  <2>1. /\ worker'[a].pc = "lookup" /\ worker'[a].ws = worker[a].ws
        /\ worker'[a].seen = generation /\ worker'[a].snap = worker[a].snap
        /\ worker'[a].index = worker[a].index /\ worker'[a].floor = worker[a].floor
    BY <1>0, <1>2, LoadGenerationMoves
  <2>2. QED
    BY <1>0, <1>same, <1>2, <2>1 DEF LoadGeneration, SnapOK, At, CommittedSince
<1>3. CASE LookupHit(a)
  <2>1. /\ worker'[a].pc = "got" /\ worker'[a].ws = worker[a].ws
        /\ worker'[a].seen = worker[a].seen /\ worker'[a].snap = live[worker[a].ws]
        /\ worker'[a].index = worker[a].index /\ worker'[a].floor = worker[a].floor
    BY <1>0, <1>3, LookupHitMoves
  <2>2. /\ live[worker[a].ws] # None
        /\ (live[worker[a].ws]).generation = worker[a].seen
        /\ worker[a].ws \in Workspaces
    BY <1>ws, <1>3 DEF LookupHit, IsCurrent, At
  <2>3. live[worker[a].ws] \in Snapshots
    BY <1>0, <2>2 DEF TypeOK, CachesOK
  <2>4. CommittedSince((live[worker[a].ws]).docs, worker[a].ws, worker[a].seen)
    BY <1>0, <2>2, <2>3, ReflectsSince DEF IInv, LiveReflects
  <2>5. QED
    BY <1>0, <1>same, <2>1, <2>2, <2>4 DEF SnapOK, At, CommittedSince
<1>4. CASE LookupMiss(a)
  <2>1. /\ worker'[a].pc = "scan" /\ worker'[a].ws = worker[a].ws
        /\ worker'[a].seen = worker[a].seen /\ worker'[a].snap = worker[a].snap
        /\ worker'[a].index = worker[a].index /\ worker'[a].floor = worker[a].floor
    BY <1>0, <1>4, MovePc DEF LookupMiss
  <2>2. QED
    BY <1>0, <1>same, <1>4, <2>1 DEF LookupMiss, SnapOK, At, CommittedSince
<1>5. CASE Scan(a)
  <2> DEFINE snap == Scanned(a)
  <2>1. /\ worker'[a].pc = "check" /\ worker'[a].snap = snap
        /\ worker'[a].ws = worker[a].ws /\ worker'[a].seen = worker[a].seen
        /\ worker'[a].index = worker[a].index /\ worker'[a].floor = worker[a].floor
    BY <1>0, <1>5, ScanMoves
  <2>2. snap \in Snapshots
    BY <1>0, <1>ws, <1>5, CommittedType DEF Scanned, Snapshots, Scan, At
  <2>3. snap # None
    BY <2>2, NoneAssumption
  <2>4. CommittedSince(snap.docs, worker[a].ws, worker[a].seen)
    <3>1. Len(log) \in (worker[a].seen + 1)..Len(log)
      BY <1>0, CountBounds DEF SeenOK
    <3>2. QED
      BY <3>1 DEF Scanned, CommittedSince, Committed
  <2>5. snap.generation = worker[a].seen
    BY DEF Scanned
  <2> HIDE DEF snap
  <2>6. QED
    BY <1>0, <1>same, <2>1, <2>3, <2>4, <2>5 DEF SnapOK, At, CommittedSince
<1>6. CASE CheckGeneration(a)
  <2>1. /\ worker'[a].pc = (IF Unraced(a) THEN "insert" ELSE "got") /\ worker'[a].ws = worker[a].ws
        /\ worker'[a].seen = worker[a].seen /\ worker'[a].snap = worker[a].snap
        /\ worker'[a].index = worker[a].index /\ worker'[a].floor = worker[a].floor
    BY <1>0, <1>6, MovePc DEF CheckGeneration
  <2>2. At(a, "check")
    BY <1>6 DEF CheckGeneration
  <2>3. /\ worker[a].snap # None /\ worker[a].snap.generation = worker[a].seen
        /\ CommittedSince(worker[a].snap.docs, worker[a].ws, worker[a].seen)
    BY <1>0, <2>2 DEF SnapOK, At
  <2>4. ASSUME Unraced(a) PROVE Reflects(worker[a].snap, worker[a].ws)
    <3>1. PICK n \in (generation + 1)..Len(log) : worker[a].snap.docs = log[n][worker[a].ws]
      BY <2>3, <2>4 DEF Unraced, CommittedSince
    <3>2. n = generation + 1 \/ (n = generation + 2 /\ generation + 2 <= Len(log))
      BY <1>0, CountBounds
    <3>3. worker[a].snap.generation = generation /\ generation \in Nat
      BY <1>0, <2>3, <2>4, CountBounds DEF Unraced
    <3>4. QED
      BY <3>1, <3>2, <3>3 DEF Reflects
  <2>5. QED
    BY <1>0, <1>same, <2>1, <2>3, <2>4 DEF SnapOK, At, CommittedSince, Reflects
<1>7. CASE Insert(a)
  <2>1. /\ worker'[a].pc = "got" /\ worker'[a].ws = worker[a].ws
        /\ worker'[a].seen = worker[a].seen /\ worker'[a].snap = worker[a].snap
        /\ worker'[a].index = worker[a].index /\ worker'[a].floor = worker[a].floor
    BY <1>0, <1>7, MovePc DEF Insert
  <2>2. QED
    BY <1>0, <1>same, <1>7, <2>1 DEF Insert, SnapOK, At, CommittedSince
<1>8. CASE AnswerLive(a)
  <2>1. /\ worker'[a].pc = "done" /\ worker'[a].ws = worker[a].ws
        /\ worker'[a].seen = worker[a].seen /\ worker'[a].snap = worker[a].snap
        /\ worker'[a].index = worker[a].index /\ worker'[a].floor = worker[a].floor
    BY <1>0, <1>8, MovePc DEF AnswerLive
  <2>2. QED
    BY <1>0, <1>same, <1>8, <2>1 DEF AnswerLive, SnapOK, At, CommittedSince
<1>9. CASE SearchHit(a)
  <2>1. /\ worker'[a].pc = "done" /\ worker'[a].ws = worker[a].ws
        /\ worker'[a].seen = worker[a].seen /\ worker'[a].snap = worker[a].snap
        /\ worker'[a].index = terms[worker[a].ws] /\ worker'[a].floor = worker[a].floor
    BY <1>0, <1>9, SearchHitMoves
  <2>2. /\ terms[worker[a].ws] # None
        /\ (terms[worker[a].ws]).generation = worker[a].snap.generation
        /\ worker[a].ws \in Workspaces
    BY <1>ws, <1>9 DEF SearchHit, IndexFits, At
  <2>3. /\ worker[a].snap # None /\ worker[a].snap.generation = worker[a].seen
        /\ CommittedSince(worker[a].snap.docs, worker[a].ws, worker[a].seen)
        /\ worker[a].floor <= worker[a].seen
    BY <1>0, <1>9 DEF SearchHit, SnapOK, SeenOK, At, Reading
  <2>4. CommittedSince((terms[worker[a].ws]).docs, worker[a].ws, worker[a].seen)
    BY <2>2, <2>3 DEF IInv, TermsSince
  <2>5. CommittedSince((terms[worker[a].ws]).docs, worker[a].ws, worker[a].floor)
    BY <1>0, <2>3, <2>4, SinceWeaker
  <2>6. QED
    BY <1>0, <1>same, <2>1, <2>3, <2>5 DEF SnapOK, At, CommittedSince
<1>10. CASE SearchMiss(a)
  <2>1. /\ worker'[a].pc = "wait" /\ worker'[a].ws = worker[a].ws
        /\ worker'[a].seen = worker[a].seen /\ worker'[a].snap = worker[a].snap
        /\ worker'[a].index = worker[a].index /\ worker'[a].floor = worker[a].floor
    BY <1>0, <1>10, MovePc DEF SearchMiss
  <2>2. QED
    BY <1>0, <1>same, <1>10, <2>1 DEF SearchMiss, SnapOK, At, CommittedSince
<1>11. CASE AcquireBuild(a)
  <2>1. /\ worker'[a].pc = "load" /\ worker'[a].ws = worker[a].ws
        /\ worker'[a].seen = worker[a].seen /\ worker'[a].snap = worker[a].snap
        /\ worker'[a].index = worker[a].index /\ worker'[a].floor = worker[a].floor
    BY <1>0, <1>11, MoveOp DEF AcquireBuild
  <2>2. QED
    BY <1>0, <1>same, <1>11, <2>1 DEF AcquireBuild, SnapOK, At, CommittedSince
<1>12. CASE RecheckMiss(a)
  <2>1. /\ worker'[a].pc = "load" /\ worker'[a].ws = worker[a].ws
        /\ worker'[a].seen = worker[a].seen /\ worker'[a].snap = worker[a].snap
        /\ worker'[a].index = worker[a].index /\ worker'[a].floor = worker[a].floor
    BY <1>0, <1>12, MoveOp DEF RecheckMiss
  <2>2. QED
    BY <1>0, <1>same, <1>12, <2>1 DEF RecheckMiss, SnapOK, At, CommittedSince
<1>13. CASE TakePrevious(a)
  <2>1. /\ worker'[a].pc = "push" /\ worker'[a].ws = worker[a].ws
        /\ worker'[a].seen = worker[a].seen /\ worker'[a].snap = worker[a].snap
        /\ worker'[a].index = worker[a].index /\ worker'[a].floor = worker[a].floor
    BY <1>0, <1>13, MovePc DEF TakePrevious
  <2>2. QED
    BY <1>0, <1>same, <1>13, <2>1 DEF TakePrevious, SnapOK, At, CommittedSince
<1>14. CASE PushIndex(a)
  <2>1. /\ worker'[a].pc = "done" /\ worker'[a].ws = worker[a].ws
        /\ worker'[a].seen = worker[a].seen /\ worker'[a].snap = worker[a].snap
        /\ worker'[a].index = worker[a].snap /\ worker'[a].floor = worker[a].floor
    BY <1>0, <1>14, PushIndexMoves
  <2>2. /\ worker[a].snap # None /\ worker[a].snap.generation = worker[a].seen
        /\ CommittedSince(worker[a].snap.docs, worker[a].ws, worker[a].seen)
        /\ worker[a].floor <= worker[a].seen
    BY <1>0, <1>14 DEF PushIndex, SnapOK, SeenOK, At, Reading
  <2>3. CommittedSince(worker[a].snap.docs, worker[a].ws, worker[a].floor)
    BY <1>0, <2>2, SinceWeaker
  <2>4. QED
    BY <1>0, <1>same, <2>1, <2>2, <2>3 DEF SnapOK, At, CommittedSince
<1>15. CASE Return(a)
  <2>1. worker'[a].pc = "idle" /\ worker'[a].index = None
    BY <1>0, <1>15, MoveIdle DEF Return
  <2>2. QED
    BY <2>1 DEF SnapOK, At
<1>16. QED
  BY <1>1, <1>2, <1>3, <1>4, <1>5, <1>6, <1>7, <1>8, <1>9, <1>10, <1>11, <1>12, <1>13, <1>14, <1>15 DEF Read

\* The steps that hold a live set are a reader's; a writer past them keeps
\* only what the log keeps.
LEMMA SnapWrite ==
    ASSUME IInv, NEW a \in Workers, Write(a), Grown
    PROVE  SnapOK(a)'
<1>0. /\ TypeOK /\ WorkersOK /\ SnapOK(a) /\ Len(log) \in Nat
      /\ worker[a].floor \in Nat
  BY CommittedType DEF IInv, TypeOK, WorkersOK, WorkerStates
<1>1. ASSUME worker'[a].index = None, worker'[a].pc \in {"load", "erase", "idle"}
      PROVE  SnapOK(a)'
  BY <1>1 DEF SnapOK, At
<1>2. ASSUME worker'[a].index = worker[a].index, worker'[a].ws = worker[a].ws,
             worker'[a].floor = worker[a].floor,
             worker'[a].pc \in {"load", "bump", "drop", "patch", "unlock", "drop_terms"}
      PROVE  SnapOK(a)'
  <2>1. ASSUME worker[a].index # None
        PROVE  \E k \in (worker[a].floor + 1)..Len(log') :
                  worker[a].index.docs = log'[k][worker[a].ws]
    <3>1. CommittedSince(worker[a].index.docs, worker[a].ws, worker[a].floor)
      BY <1>0, <2>1 DEF SnapOK
    <3>2. QED
      BY <1>0, <3>1, SinceKept
  <2>2. QED
    BY <1>2, <2>1 DEF SnapOK, At, CommittedSince
<1>3. ASSUME NEW w \in Workspaces, BeginWrite(a, w) PROVE SnapOK(a)'
  <2>1. worker'[a].index = None /\ worker'[a].pc \in {"load", "erase"}
    BY <1>0, <1>3, MoveBegin DEF BeginWrite
  <2>2. QED
    BY <1>1, <2>1
<1>4. ASSUME NEW batch \in Batches, Commit(a, batch) PROVE SnapOK(a)'
  BY <1>0, <1>2, <1>4, MoveBatch DEF Commit
<1>5. CASE CommitForget(a)
  BY <1>0, <1>2, <1>5, MoveBatch DEF CommitForget
<1>6. CASE ForgetNothing(a)
  BY <1>0, <1>2, <1>6, ForgetNothingMoves
<1>7. CASE Bump(a)
  BY <1>0, <1>2, <1>7, BumpMoves
<1>8. CASE PatchLive(a)
  BY <1>0, <1>2, <1>8, MovePc DEF PatchLive
<1>9. CASE DropLive(a)
  BY <1>0, <1>2, <1>9, MovePc DEF DropLive
<1>10. CASE DropTerms(a)
  BY <1>0, <1>2, <1>10, MovePc DEF DropTerms
<1>11. CASE Decline(a)
  BY <1>0, <1>1, <1>11, MoveIdle DEF Decline
<1>12. CASE EndWrite(a)
  BY <1>0, <1>1, <1>12, MoveIdle DEF EndWrite
<1>13. CASE ReadAgain(a)
  <2>1. /\ worker'[a].pc = "load" /\ worker'[a].index = worker[a].index
        /\ worker'[a].ws = worker[a].ws /\ worker'[a].floor = worker[a].floor
    BY <1>0, <1>13, MovePc DEF ReadAgain
  <2>2. QED
    BY <1>2, <2>1
<1>14. QED
  BY <1>3, <1>4, <1>5, <1>6, <1>7, <1>8, <1>9, <1>10, <1>11, <1>12, <1>13 DEF Write

\* And stays so while others step.
LEMMA SnapOthers ==
    ASSUME IInv, NEW a \in Workers, Read(a) \/ Write(a), Grown,
           NEW b \in Workers, b # a
    PROVE  SnapOK(b)'
<1>0. /\ TypeOK /\ CountOK /\ WorkersOK /\ worker[b] \in WorkerStates /\ SnapOK(b)
      /\ worker[b].seen \in Nat /\ worker[b].floor \in Nat
      /\ Len(log) \in Nat /\ generation' \in Nat
  BY CommittedType, CountersType DEF IInv, TypeOK, WorkersOK, WorkerStates
<1>1. worker'[b] = worker[b]
  BY <1>0, OthersKept
<1>2. ASSUME NEW docs, NEW n \in Nat, CommittedSince(docs, worker[b].ws, n)
      PROVE  \E k \in (n + 1)..Len(log') : docs = log'[k][worker[b].ws]
  BY <1>0, <1>2, SinceKept
<1>3. ASSUME worker[b].pc \in SnapSteps
      PROVE  (/\ worker[b].snap # None
              /\ worker[b].snap.generation = worker[b].seen
              /\ CommittedSince(worker[b].snap.docs, worker[b].ws, worker[b].seen))'
  <2>1. /\ worker[b].snap # None
        /\ worker[b].snap.generation = worker[b].seen
        /\ CommittedSince(worker[b].snap.docs, worker[b].ws, worker[b].seen)
    BY <1>0, <1>3 DEF SnapOK, SnapSteps
  <2>2. \E k \in (worker[b].seen + 1)..Len(log') :
           worker[b].snap.docs = log'[k][worker[b].ws]
    BY <1>0, <1>2, <2>1
  <2>3. QED
    BY <1>1, <2>1, <2>2 DEF CommittedSince
<1>4. ASSUME At(b, "insert")
      PROVE  Reflects(worker[b].snap, worker[b].ws)'
  <2>1. worker[b].snap # None /\ Reflects(worker[b].snap, worker[b].ws)
    BY <1>0, <1>4 DEF SnapOK, At
  <2>2. worker[b].snap \in Snapshots
    BY <1>0, <2>1 DEF WorkerStates
  <2>3. ReflectsNext(worker[b].snap, worker[b].ws)
    BY <1>0, <2>1, <2>2, ReflectsKept
  <2>4. QED
    BY <1>1, <2>3 DEF Reflects, ReflectsNext
<1>5. ASSUME worker[b].index # None
      PROVE  CommittedSince(worker[b].index.docs, worker[b].ws, worker[b].floor)'
  <2>1. CommittedSince(worker[b].index.docs, worker[b].ws, worker[b].floor)
    BY <1>0, <1>5 DEF SnapOK
  <2>2. \E k \in (worker[b].floor + 1)..Len(log') :
           worker[b].index.docs = log'[k][worker[b].ws]
    BY <1>0, <1>2, <2>1
  <2>3. QED
    BY <1>1, <2>2 DEF CommittedSince
<1>6. QED
  BY <1>1, <1>3, <1>4, <1>5 DEF SnapOK, SnapSteps, At

-----------------------------------------------------------------------------
(* The batch between its commit and its patch. *)

\* A commit is the last database, over the one before it.
LEMMA StoredLast ==
    ASSUME TypeOK, NEW w, NEW batch, Store(w, batch)
    PROVE  /\ Len(log') > 1
           /\ log'[Len(log') - 1] = Committed
           /\ Committed' = [Committed EXCEPT ![w] = Applied(batch, Committed[w])]
<1> DEFINE db == [Committed EXCEPT ![w] = Applied(batch, Committed[w])]
<1>1. log' = Append(log, db)
  BY DEF Store
<1>2. \E T : log \in Seq(T)
  BY DEF TypeOK, LogOK
<1>3. Len(log) \in Nat \ {0}
  BY CommittedType
<1> HIDE DEF db
<1>4. /\ Len(log') = Len(log) + 1 /\ log'[Len(log) + 1] = db
      /\ log'[Len(log)] = log[Len(log)]
  BY <1>1, <1>2, <1>3
<1>5. QED
  BY <1>3, <1>4 DEF Committed, db

\* A writer's batch is the difference its commit made.
LEMMA BatchSelf ==
    ASSUME IInv, NEW a \in Workers, Read(a) \/ Write(a)
    PROVE  BatchOK(a)'
<1>0. TypeOK /\ WorkersOK /\ BatchOK(a)
  BY DEF IInv, TypeOK
<1>1. ASSUME NEW batch, Store(worker[a].ws, batch),
             worker'[a].ws = worker[a].ws, worker'[a].batch = batch
      PROVE  BatchOK(a)'
  <2>1. /\ Len(log') > 1
        /\ log'[Len(log') - 1] = Committed
        /\ Committed' = [Committed EXCEPT ![worker[a].ws] =
                             Applied(batch, Committed[worker[a].ws])]
    BY <1>0, <1>1, StoredLast
  <2>2. Applied(batch, Committed[worker[a].ws])
          = Applied(worker'[a].batch, (log'[Len(log') - 1])[worker'[a].ws])
    BY <1>1, <2>1
  <2>3. QED
    BY <1>1, <2>1, <2>2 DEF BatchOK, Applied
<1>2. ASSUME worker'[a].pc \notin {"bump", "patch"} PROVE BatchOK(a)'
  BY <1>2 DEF BatchOK
<1>3. CASE Read(a)
  BY <1>0, <1>2, <1>3, ReadMoves DEF ReadSteps
<1>4. ASSUME NEW w \in Workspaces, BeginWrite(a, w) PROVE BatchOK(a)'
  <2>1. worker'[a].pc \in {"load", "erase"}
    BY <1>0, <1>4, MoveBegin DEF BeginWrite
  <2>2. QED
    BY <1>2, <2>1
<1>5. ASSUME NEW batch \in Batches, Commit(a, batch) PROVE BatchOK(a)'
  <2>1. worker'[a].ws = worker[a].ws /\ worker'[a].batch = batch
    BY <1>0, <1>5, MoveBatch DEF Commit
  <2>2. QED
    BY <1>1, <1>5, <2>1 DEF Commit
<1>6. CASE CommitForget(a)
  <2> DEFINE gone == [i \in Ids |-> Hidden]
  <2>1. /\ worker'[a].ws = worker[a].ws /\ worker'[a].batch = gone
        /\ Store(worker[a].ws, gone)
    BY <1>0, <1>6, MoveBatch DEF CommitForget
  <2> HIDE DEF gone
  <2>2. QED
    BY <1>1, <2>1
<1>7. CASE Bump(a)
  <2>1. worker'[a].ws = worker[a].ws /\ worker'[a].batch = worker[a].batch
    BY <1>0, <1>7, BumpMoves
  <2>2. log' = log /\ At(a, "bump")
    BY <1>7 DEF Bump
  <2>3. QED
    BY <1>0, <2>1, <2>2 DEF BatchOK, Committed, Applied, At
<1>8. CASE ForgetNothing(a)
  BY <1>0, <1>2, <1>8, ForgetNothingMoves
<1>9. CASE PatchLive(a)
  BY <1>0, <1>2, <1>9, MovePc DEF PatchLive
<1>10. CASE DropLive(a)
  BY <1>0, <1>2, <1>10, MovePc DEF DropLive
<1>11. CASE DropTerms(a)
  BY <1>0, <1>2, <1>11, MovePc DEF DropTerms
<1>12. CASE Decline(a)
  BY <1>0, <1>2, <1>12, MoveIdle DEF Decline
<1>13. CASE EndWrite(a)
  BY <1>0, <1>2, <1>13, MoveIdle DEF EndWrite
<1>14. CASE ReadAgain(a)
  <2>1. worker'[a].pc = "load"
    BY <1>0, <1>14, MovePc DEF ReadAgain
  <2>2. QED
    BY <1>2, <2>1
<1>15. QED
  BY <1>3, <1>4, <1>5, <1>6, <1>7, <1>8, <1>9, <1>10, <1>11, <1>12, <1>13, <1>14 DEF Write

\* And stays so: nobody else commits before the patch is done.
LEMMA BatchOthers ==
    ASSUME IInv, NEW a \in Workers, Read(a) \/ Write(a), NEW b \in Workers, b # a
    PROVE  BatchOK(b)'
<1>0. TypeOK /\ WorkersOK /\ StagesOK /\ StageOK(b) /\ BatchOK(b)
  BY DEF IInv, TypeOK, StagesOK
<1>1. worker'[b] = worker[b]
  BY <1>0, OthersKept
<1>2. CASE worker[b].pc \in {"bump", "patch"}
  <2>1. Writing(b)
    BY <1>0, <1>2 DEF StageOK
  <2>2. log' = log
    BY <1>0, <2>1, OneWriter, OnlyWriters
  <2>3. QED
    BY <1>0, <1>1, <2>2 DEF BatchOK, Committed, Applied
<1>3. CASE worker[b].pc \notin {"bump", "patch"}
  BY <1>1, <1>3 DEF BatchOK
<1>4. QED
  BY <1>2, <1>3

-----------------------------------------------------------------------------
(* What is cached. *)

\* The database as the patch finds it: counted, and the batch its last commit.
LEMMA PatchBase ==
    ASSUME IInv, NEW a \in Workers, PatchLive(a)
    PROVE  /\ worker[a].seen = generation /\ Len(log) = generation + 1
           /\ worker[a].batch \in Batches /\ worker[a].ws \in Workspaces
           /\ generation > 0 /\ log[generation] \in [Workspaces -> Docs]
           /\ Committed = [log[generation] EXCEPT ![worker[a].ws] =
                 Applied(worker[a].batch, log[generation][worker[a].ws])]
<1>0. /\ TypeOK /\ StagesOK /\ StageOK(a) /\ SeenOK(a) /\ BatchOK(a) /\ At(a, "patch")
      /\ generation \in Nat /\ Len(log) \in Nat /\ CountOK
  BY CommittedType DEF IInv, StagesOK, TypeOK, PatchLive
<1>1. worker[a].seen = generation
  BY <1>0 DEF SeenOK, At
<1>2. ~\E b \in Workers : At(b, "bump")
  <2>1. Writing(a)
    BY <1>0 DEF StageOK, At
  <2>2. ASSUME NEW b \in Workers, At(b, "bump") PROVE FALSE
    <3>1. StageOK(b)
      BY <1>0 DEF StagesOK
    <3>2. Writing(b)
      BY <2>2, <3>1 DEF StageOK, At
    <3>3. a = b
      BY <1>0, <2>1, <3>2, OneWriter
    <3>4. QED
      BY <1>0, <2>2, <3>3 DEF At
  <2>3. QED
    BY <2>2
<1>3. Len(log) = generation + 1
  BY <1>0, <1>2 DEF CountOK
<1>4. worker[a].batch \in Batches /\ worker[a].ws \in Workspaces
  BY <1>0 DEF StageOK, At, TypeOK, WorkersOK, WorkerStates
<1>5. Len(log) > 1
  BY <1>0 DEF BatchOK, At
<1>6. generation > 0 /\ generation \in 1..Len(log)
  BY <1>0, <1>3, <1>5
<1>7. log[generation] \in [Workspaces -> Docs]
  BY <1>0, <1>6 DEF TypeOK, LogOK
<1>8. Len(log) - 1 = generation
  BY <1>0, <1>3
<1>9. Committed = [log[generation] EXCEPT ![worker[a].ws] =
                     Applied(worker[a].batch, log[generation][worker[a].ws])]
  BY <1>0, <1>8 DEF BatchOK, At
<1>10. QED
  BY <1>1, <1>3, <1>4, <1>6, <1>7, <1>9

\* A set one write behind holds what the database held before the write, or
\* has the write in it already; folding the batch in, it comes to hold what
\* the database holds now.
LEMMA PatchReflects ==
    ASSUME IInv, NEW a \in Workers, PatchLive(a), NEW w \in Workspaces, live[w] # None,
           OneBehind(live[w], worker[a].seen)
    PROVE  IF w = worker[a].ws
           THEN Applied(worker[a].batch, (live[w]).docs) = Committed[w]
           ELSE (live[w]).docs = Committed[w]
<1> DEFINE before == log[generation]
           batch == worker[a].batch
<1>0. /\ worker[a].seen = generation /\ Len(log) = generation + 1
      /\ batch \in Batches /\ worker[a].ws \in Workspaces
      /\ generation > 0 /\ before \in [Workspaces -> Docs]
      /\ Committed = [before EXCEPT ![worker[a].ws] =
                         Applied(batch, before[worker[a].ws])]
      /\ generation \in Nat
  BY PatchBase DEF IInv, TypeOK
<1>1. live[w] \in Snapshots /\ (live[w]).generation \in Nat
  BY DEF IInv, TypeOK, CachesOK, Snapshots
<1>2. (live[w]).generation + 1 = generation
  BY <1>0 DEF OneBehind
<1>3. Reflects(live[w], w)
  BY DEF IInv, LiveReflects
<1>4. (live[w]).docs = before[w] \/ (live[w]).docs = Committed[w]
  <2>1. (live[w]).generation + 2 = Len(log)
    BY <1>0, <1>1, <1>2
  <2>2. QED
    BY <1>2, <1>3, <2>1 DEF Reflects, Committed
<1>5. before[w] \in Docs
  BY <1>0
<1> HIDE DEF before, batch
<1>6. CASE w # worker[a].ws
  <2>1. Committed[w] = before[w]
    BY <1>0, <1>6
  <2>2. QED
    BY <1>4, <1>6, <2>1
<1>7. CASE w = worker[a].ws
  <2>1. Committed[w] = Applied(batch, before[w])
    BY <1>0, <1>7
  <2>2. Applied(batch, Committed[w]) = Committed[w]
    BY <1>0, <1>5, <2>1, AppliedTwice
  <2>3. Applied(batch, (live[w]).docs) = Committed[w]
    BY <1>4, <2>1, <2>2
  <2>4. QED
    BY <1>7, <2>3 DEF batch
<1>8. QED
  BY <1>6, <1>7

\* Every step keeps each cached live set a reflection of the log.
LEMMA LiveNext ==
    ASSUME IInv, NEW a \in Workers, Read(a) \/ Write(a), Grown
    PROVE  LiveReflects'
<1>0. /\ TypeOK /\ CountOK /\ generation \in Nat /\ generation' \in Nat
      /\ Len(log) \in Nat
      /\ live \in [Workspaces -> Snapshots \cup {None}] /\ None \notin Snapshots
  BY CommittedType, CountersType, NoneAssumption DEF IInv, TypeOK, CachesOK
<1>1. ASSUME \A w \in Workspaces : live'[w] # None => ReflectsNext(live'[w], w)
      PROVE  LiveReflects'
  BY <1>1 DEF LiveReflects, Reflects, ReflectsNext
<1>2. ASSUME NEW w \in Workspaces, live[w] # None
      PROVE  live[w] \in Snapshots /\ Reflects(live[w], w)
  BY <1>0, <1>2 DEF IInv, LiveReflects
<1>3. ASSUME \A w \in Workspaces : live'[w] = live[w] \/ live'[w] = None
      PROVE  LiveReflects'
  <2>1. ASSUME NEW w \in Workspaces, live'[w] # None
        PROVE  ReflectsNext(live'[w], w)
    <3>1. live'[w] = live[w] /\ live[w] # None
      BY <1>3, <2>1
    <3>2. Reflects(live[w], w) /\ live[w] \in Snapshots
      BY <1>2, <3>1
    <3>3. ReflectsNext(live[w], w)
      BY <1>0, <3>2, ReflectsKept
    <3>4. QED
      BY <3>1, <3>3
  <2>2. QED
    BY <1>1, <2>1
<1>4. CASE live' = live
  BY <1>3, <1>4
<1>5. CASE DropLive(a)
  <2>1. \A w \in Workspaces : live'[w] = live[w] \/ live'[w] = None
    BY <1>5 DEF DropLive, Without
  <2>2. QED
    BY <1>3, <2>1
<1>6. CASE Insert(a)
  <2>1. PICK out : live' = With(live, worker[a].ws, worker[a].snap, out)
    BY <1>6 DEF Insert
  <2>2. /\ worker[a].snap # None /\ Reflects(worker[a].snap, worker[a].ws)
        /\ log' = log /\ generation' = generation
    BY <1>6 DEF IInv, SnapOK, Insert, At
  <2>3. ASSUME NEW w \in Workspaces, live'[w] # None
        PROVE  ReflectsNext(live'[w], w)
    <3>1. CASE w = worker[a].ws
      <4>1. live'[w] = worker[a].snap
        BY <2>1, <3>1 DEF With
      <4>2. QED
        BY <2>2, <3>1, <4>1 DEF Reflects, ReflectsNext
    <3>2. CASE w # worker[a].ws
      <4>1. live'[w] = live[w]
        BY <2>1, <2>3, <3>2 DEF With
      <4>2. Reflects(live[w], w)
        BY <1>2, <2>3, <4>1
      <4>3. QED
        BY <2>2, <4>1, <4>2 DEF Reflects, ReflectsNext
    <3>3. QED
      BY <3>1, <3>2
  <2>4. QED
    BY <1>1, <2>3
<1>7. CASE PatchLive(a)
  <2>0. /\ log' = log /\ generation' = generation
        /\ worker[a].seen = generation /\ Len(log) = generation + 1
    BY <1>7, PatchBase DEF PatchLive
  <2>1. ASSUME NEW w \in Workspaces, live'[w] # None
        PROVE  ReflectsNext(live'[w], w)
    <3>1. live[w] # None
      BY <1>7, <2>1 DEF PatchLive
    <3>2. CASE ~OneBehind(live[w], worker[a].seen)
      <4>1. live'[w] = live[w]
        BY <1>7, <3>2 DEF PatchLive
      <4>2. Reflects(live[w], w)
        BY <1>2, <3>1
      <4>3. QED
        BY <2>0, <4>1, <4>2 DEF Reflects, ReflectsNext
    <3>3. CASE OneBehind(live[w], worker[a].seen)
      <4>1. live[w] \in Snapshots
        BY <1>2, <3>1
      <4>2. (live'[w]).generation = generation /\ (live'[w]).docs = Committed[w]
        <5>1. CASE w = worker[a].ws
          <6>1. live'[w] = Folded(live[w], worker[a].batch, worker[a].seen)
            BY <1>7, <3>1, <3>3, <5>1 DEF PatchLive
          <6>2. Applied(worker[a].batch, (live[w]).docs) = Committed[w]
            BY <1>7, <3>1, <3>3, <5>1, PatchReflects
          <6>3. QED
            BY <2>0, <6>1, <6>2 DEF Folded
        <5>2. CASE w # worker[a].ws
          <6>1. live'[w] = Restamped(live[w], worker[a].seen)
            BY <1>7, <3>1, <3>3, <5>2 DEF PatchLive
          <6>2. (live[w]).docs = Committed[w]
            BY <1>7, <3>1, <3>3, <5>2, PatchReflects
          <6>3. QED
            BY <2>0, <4>1, <6>1, <6>2 DEF Restamped, Snapshots
        <5>3. QED
          BY <5>1, <5>2
      <4>3. Committed[w] = log'[generation' + 1][w] /\ generation <= generation'
        BY <1>0, <2>0 DEF Committed
      <4>4. QED
        BY <2>0, <4>2, <4>3 DEF ReflectsNext
    <3>4. QED
      BY <3>2, <3>3
  <2>2. QED
    BY <1>1, <2>1
<1>8. QED
  BY <1>4, <1>5, <1>6, <1>7 DEF Read, Write, Begin, BeginRead,
     LoadGeneration, LookupHit, LookupMiss, Scan, CheckGeneration, AnswerLive, SearchHit,
     SearchMiss, AcquireBuild, RecheckMiss, TakePrevious, PushIndex, Return, BeginWrite,
     Commit, Decline, CommitForget, ForgetNothing, Bump, DropTerms, ReadAgain, EndWrite

\* Every step keeps each cached index over a set committed since its label.
LEMMA TermsNext ==
    ASSUME IInv, NEW a \in Workers, Read(a) \/ Write(a), Grown
    PROVE  TermsSince'
<1> DEFINE After(entry, w) ==
        /\ entry.generation <= generation'
        /\ \E k \in (entry.generation + 1)..Len(log') : entry.docs = log'[k][w]
<1>0. /\ TypeOK /\ generation \in Nat /\ generation' \in Nat /\ Len(log) \in Nat
      /\ terms \in [Workspaces -> Snapshots \cup {None}]
  BY CommittedType, CountersType DEF IInv, TypeOK, CachesOK
<1>1. ASSUME \A w \in Workspaces : terms'[w] # None => After(terms'[w], w)
      PROVE  TermsSince'
  BY <1>1 DEF TermsSince, CommittedSince
<1>2. ASSUME NEW w \in Workspaces, terms[w] # None
      PROVE  After(terms[w], w)
  <2>1. (terms[w]).generation \in Nat
    BY <1>0, <1>2 DEF Snapshots
  <2>2. /\ (terms[w]).generation <= generation
        /\ CommittedSince((terms[w]).docs, w, (terms[w]).generation)
    BY <1>2 DEF IInv, TermsSince
  <2>3. \E k \in ((terms[w]).generation + 1)..Len(log') : (terms[w]).docs = log'[k][w]
    BY <1>0, <2>1, <2>2, SinceKept
  <2>4. (terms[w]).generation <= generation'
    BY <1>0, <2>1, <2>2 DEF Grown
  <2>5. QED
    BY <2>3, <2>4
<1> HIDE DEF After
<1>3. ASSUME \A w \in Workspaces : terms'[w] = terms[w] \/ terms'[w] = None
      PROVE  TermsSince'
  BY <1>1, <1>2, <1>3
<1>4. CASE terms' = terms
  BY <1>3, <1>4
<1>5. ASSUME NEW out, terms' = Without(terms, out) PROVE TermsSince'
  <2>1. \A w \in Workspaces : terms'[w] = terms[w] \/ terms'[w] = None
    BY <1>5 DEF Without
  <2>2. QED
    BY <1>3, <2>1
<1>6. CASE Insert(a)
  <2>1. PICK out : terms' = Without(terms, out)
    BY <1>6 DEF Insert
  <2>2. QED
    BY <1>5, <2>1
<1>7. CASE TakePrevious(a)
  BY <1>5, <1>7 DEF TakePrevious
<1>8. CASE DropTerms(a)
  BY <1>5, <1>8 DEF DropTerms
<1>9. CASE PushIndex(a)
  <2>1. PICK out : terms' = With(terms, worker[a].ws, worker[a].snap, out)
    BY <1>9 DEF PushIndex
  <2>2. /\ worker[a].snap.generation = worker[a].seen
        /\ CommittedSince(worker[a].snap.docs, worker[a].ws, worker[a].seen)
        /\ worker[a].seen <= generation
        /\ log' = log /\ generation' = generation
    BY <1>9 DEF IInv, SnapOK, SeenOK, PushIndex, At
  <2>3. After(worker[a].snap, worker[a].ws)
    BY <2>2 DEF After, CommittedSince
  <2>4. ASSUME NEW w \in Workspaces, terms'[w] # None
        PROVE  After(terms'[w], w)
    <3>1. CASE w = worker[a].ws
      BY <2>1, <2>3, <3>1 DEF With
    <3>2. CASE w # worker[a].ws
      <4>1. terms'[w] = terms[w]
        BY <2>1, <2>4, <3>2 DEF With
      <4>2. QED
        BY <1>2, <2>4, <4>1
    <3>3. QED
      BY <3>1, <3>2
  <2>5. QED
    BY <1>1, <2>4
<1>10. QED
  BY <1>4, <1>6, <1>7, <1>8, <1>9 DEF Read, Write, Begin, BeginRead,
     LoadGeneration, LookupHit, LookupMiss, Scan, CheckGeneration, AnswerLive, SearchHit,
     SearchMiss, AcquireBuild, RecheckMiss, Return, BeginWrite, Commit, Decline,
     CommitForget, ForgetNothing, Bump, PatchLive, DropLive, ReadAgain, EndWrite

-----------------------------------------------------------------------------
(* The invariant. *)

\* The strengthening holds when the store opens.
LEMMA InvInit == Init => IInv
<1> SUFFICES ASSUME Init PROVE IInv
  OBVIOUS
<1>1. TypeOK /\ StagesOK
  BY TypeInit, StagesInit
<1>2. CountOK
  BY DEF Init, CountOK, At, Idle
<1>3. LiveReflects /\ TermsSince
  BY DEF Init, LiveReflects, TermsSince
<1>4. ASSUME NEW a \in Workers PROVE SeenOK(a) /\ SnapOK(a) /\ BatchOK(a)
  BY DEF Init, Idle, SeenOK, SnapOK, BatchOK, At, Reading
<1>5. acked <= generation
  BY DEF Init
<1>6. QED
  BY <1>1, <1>2, <1>3, <1>4, <1>5 DEF IInv

\* Every step keeps the strengthening.
LEMMA InvNext ==
    ASSUME IInv, NEW a \in Workers, Read(a) \/ Write(a)
    PROVE  IInv'
<1>0. /\ TypeOK /\ StagesOK /\ CountOK /\ WorkersOK /\ acked <= generation
      /\ acked \in Nat /\ generation \in Nat
      /\ \A b \in Workers : SeenOK(b)
  BY DEF IInv, TypeOK
<1>1. Grown
  BY <1>0, Grows
<1>2. TypeOK' /\ StagesOK'
  BY <1>0, TypeNext, StagesNext
<1>3. CountOK'
  BY <1>0, CountNext
<1>4. LiveReflects' /\ TermsSince'
  BY <1>1, LiveNext, TermsNext
<1>5. acked <= acked' /\ acked' <= generation'
  <2>1. CASE Read(a)
    BY <1>0, <2>1, ReadKeeps
  <2>2. CASE Write(a)
    BY <1>0, <2>2, SeenWrite
  <2>3. QED
    BY <2>1, <2>2
<1>6. SeenOK(a)'
  BY <1>0, SeenRead, SeenWrite
<1>7. SnapOK(a)' /\ BatchOK(a)'
  BY <1>1, SnapRead, SnapWrite, BatchSelf
<1>8. ASSUME NEW b \in Workers, b # a
      PROVE  (SeenOK(b) /\ SnapOK(b) /\ BatchOK(b))'
  <2>1. acked' \in Nat
    BY <1>2 DEF TypeOK
  <2>2. SeenOK(b)'
    BY <1>0, <1>1, <1>5, <1>8, <2>1, SeenOthers
  <2>3. QED
    BY <1>1, <1>8, <2>2, SnapOthers, BatchOthers
<1>9. \A b \in Workers : (SeenOK(b) /\ SnapOK(b) /\ BatchOK(b))'
  BY <1>6, <1>7, <1>8
<1>10. QED
  BY <1>2, <1>3, <1>4, <1>5, <1>9 DEF IInv

\* A step of something else keeps it too.
LEMMA InvStutter ==
    ASSUME IInv, UNCHANGED vars
    PROVE  IInv'
<1>1. TypeOK' /\ StagesOK'
  BY DEF IInv, vars, TypeOK, LogOK, CachesOK, WorkersOK, StagesOK, StageOK, At, Doing, Writing
<1>2. CountOK' /\ LiveReflects' /\ TermsSince' /\ acked' <= generation'
  BY DEF IInv, vars, CountOK, LiveReflects, Reflects, TermsSince, CommittedSince, At
<1>3. ASSUME NEW a \in Workers PROVE (SeenOK(a) /\ SnapOK(a) /\ BatchOK(a))'
  <2>1. SeenOK(a) /\ SnapOK(a) /\ BatchOK(a)
    BY DEF IInv
  <2>2. SeenOK(a)'
    BY <2>1 DEF vars, SeenOK, At, Writing, Doing
  <2>3. SnapOK(a)'
    BY <2>1 DEF vars, SnapOK, At, CommittedSince, Reflects
  <2>4. BatchOK(a)'
    BY <2>1 DEF vars, BatchOK, Committed, Applied
  <2>5. QED
    BY <2>2, <2>3, <2>4
<1>4. QED
  BY <1>1, <1>2, <1>3 DEF IInv

(***************************************************************************)
(* A cached live set labelled g holds what LMDB held after g commits or    *)
(* one more, a writer knows the current count, and the log is one commit   *)
(* ahead of the count exactly between a commit and its bump.               *)
(***************************************************************************)
THEOREM Invariance == Spec => []IInv
<1>1. Init => IInv
  BY InvInit
<1>2. IInv /\ [Next]_vars => IInv'
  BY InvNext, InvStutter DEF Next
<1>3. QED
  BY <1>1, <1>2, PTL DEF Spec

(***************************************************************************)
(* Whatever reads, writes, patches, evictions and forgets interleave, a    *)
(* read or a search answers with one committed state of its workspace, no  *)
(* older than the last write answered before the read began.               *)
(***************************************************************************)
THEOREM Freshness == Spec => []ReadsAreFresh
<1>1. IInv => ReadsAreFresh
  <2> SUFFICES ASSUME IInv, NEW a \in Workers, At(a, "done")
               PROVE  /\ CommittedSince(worker[a].snap.docs, worker[a].ws, worker[a].floor)
                      /\ worker[a].index # None =>
                           CommittedSince(worker[a].index.docs, worker[a].ws, worker[a].floor)
    BY DEF ReadsAreFresh
  <2>1. SeenOK(a) /\ SnapOK(a) /\ worker[a].seen \in Nat /\ worker[a].floor \in Nat
    BY DEF IInv, TypeOK, WorkersOK, WorkerStates
  <2>2. CommittedSince(worker[a].snap.docs, worker[a].ws, worker[a].seen)
    BY <2>1 DEF SnapOK, At
  <2>3. worker[a].floor <= worker[a].seen
    BY <2>1 DEF SeenOK, At
  <2>4. CommittedSince(worker[a].snap.docs, worker[a].ws, worker[a].floor)
    BY <2>1, <2>2, <2>3, SinceWeaker
  <2>5. QED
    BY <2>1, <2>4 DEF SnapOK
<1>2. QED
  BY <1>1, Invariance, PTL

\* The count is exact when nobody is between a commit and its bump.
LEMMA CountExact ==
    ASSUME IInv, ~\E a \in Workers : At(a, "bump")
    PROVE  Len(log) = generation + 1 /\ generation \in Nat
BY DEF IInv, CountOK, TypeOK

(***************************************************************************)
(* The live set a write is decided on is what LMDB holds, although it came *)
(* from the cache or from a scan that other threads raced.                 *)
(***************************************************************************)
THEOREM WritersCurrent == Spec => []WritersReadCommitted
<1>1. IInv => WritersReadCommitted
  <2> SUFFICES ASSUME IInv, NEW a \in Workers, At(a, "got"), Doing(a, {"write"})
               PROVE  worker[a].snap.docs = Committed[worker[a].ws]
    BY DEF WritersReadCommitted
  <2>1. Writing(a) /\ StagesOK /\ SeenOK(a) /\ SnapOK(a)
    BY DEF IInv, Writing, Doing
  <2>2. worker[a].seen = generation
    BY <2>1 DEF SeenOK, At, Reading
  <2>3. ASSUME NEW b \in Workers, At(b, "bump") PROVE FALSE
    <3>1. Writing(b)
      BY <2>1, <2>3 DEF StagesOK, StageOK, At
    <3>2. a = b
      BY <2>1, <3>1, OneWriter
    <3>3. QED
      BY <2>3, <3>2 DEF At
  <2>4. Len(log) = generation + 1 /\ generation \in Nat
    BY <2>3, CountExact
  <2>5. PICK k \in (generation + 1)..Len(log) : worker[a].snap.docs = log[k][worker[a].ws]
    BY <2>1, <2>2 DEF SnapOK, At, CommittedSince
  <2>6. k = Len(log)
    BY <2>4, <2>5
  <2>7. QED
    BY <2>5, <2>6 DEF Committed
<1>2. QED
  BY <1>1, Invariance, PTL

(***************************************************************************)
(* With no write in flight, a cache entry labelled with the current count  *)
(* is what a fresh scan would give, patched or not.                        *)
(***************************************************************************)
THEOREM CurrentExact == Spec => []CurrentEntriesAreCommitted
<1>1. IInv => CurrentEntriesAreCommitted
  <2> SUFFICES ASSUME IInv, Settled
               PROVE  \A w \in Workspaces : \A cache \in {live, terms} :
                        cache[w] # None /\ (cache[w]).generation = generation =>
                            (cache[w]).docs = Committed[w]
    BY DEF CurrentEntriesAreCommitted
  <2>1. Len(log) = generation + 1 /\ generation \in Nat
    BY CountExact DEF Settled, At
  <2>2. ASSUME NEW w \in Workspaces, live[w] # None, (live[w]).generation = generation
        PROVE  (live[w]).docs = Committed[w]
    <3>1. Reflects(live[w], w)
      BY <2>2 DEF IInv, LiveReflects
    <3>2. QED
      BY <2>1, <2>2, <3>1 DEF Reflects, Committed
  <2>3. ASSUME NEW w \in Workspaces, terms[w] # None, (terms[w]).generation = generation
        PROVE  (terms[w]).docs = Committed[w]
    <3>1. PICK k \in (generation + 1)..Len(log) : (terms[w]).docs = log[k][w]
      BY <2>3 DEF IInv, TermsSince, CommittedSince
    <3>2. k = Len(log)
      BY <2>1, <3>1
    <3>3. QED
      BY <3>1, <3>2 DEF Committed
  <2>4. QED
    BY <2>2, <2>3
<1>2. QED
  BY <1>1, Invariance, PTL

-----------------------------------------------------------------------------
(***************************************************************************)
(* The memory bound, and the implementation of PackStore.                  *)
(***************************************************************************)

-----------------------------------------------------------------------------
(* The cap. *)

\* What the cap says of one cache; the bound alone is not kept by a step
\* unless the cache is finite, which no assumption on Workspaces says.
Capped(cache) ==
    /\ IsFiniteSet(Cached(cache))
    /\ Cap > 0 => Cardinality(Cached(cache)) <= Cap

\* An entry is put in and the overfull part leaves: what is left is a subset
\* of the names that stay, however the one put in was chosen.
LEMMA InsertCapped ==
    ASSUME NEW cache, Capped(cache), NEW w \in Workspaces, NEW entry,
           NEW out \in Evictions(cache, w)
    PROVE  Capped(With(cache, w, entry, out))
<1> DEFINE names == Cached(cache) \cup {w}
           stay  == names \ out
<1>1. IsFiniteSet(names) /\ Cardinality(names) \in Nat
  BY FS_AddElement, FS_CardinalityType DEF Capped
<1>2. out \subseteq names /\ Cardinality(out) = Overfull(Cardinality(names))
  BY DEF Evictions
<1>3. IsFiniteSet(stay) /\ Cardinality(stay) = Cardinality(names) - Cardinality(out)
  <2>1. names \cap out = out
    BY <1>2
  <2>2. IsFiniteSet(names \ out) /\ Cardinality(names \ out) = Cardinality(names) - Cardinality(names \cap out)
    BY <1>1, FS_Difference
  <2>3. QED
    BY <2>1, <2>2
<1>4. Cap > 0 => Cardinality(stay) <= Cap
  BY <1>1, <1>2, <1>3, ConstantsAssumption DEF Overfull
<1>5. Cached(With(cache, w, entry, out)) \subseteq stay
  BY DEF Cached, With, Evictions
<1>6. /\ IsFiniteSet(Cached(With(cache, w, entry, out)))
      /\ Cardinality(Cached(With(cache, w, entry, out))) <= Cardinality(stay)
  BY <1>3, <1>5, FS_Subset
<1>7. /\ Cardinality(Cached(With(cache, w, entry, out))) \in Nat
      /\ Cardinality(stay) \in Nat
  BY <1>3, <1>6, FS_CardinalityType
<1>8. QED
  BY <1>4, <1>6, <1>7, ConstantsAssumption DEF Capped

\* Entries that only leave, or are rewritten in place, keep the bound.
LEMMA FewerCapped ==
    ASSUME NEW cache, Capped(cache), NEW fewer, Cached(fewer) \subseteq Cached(cache)
    PROVE  Capped(fewer)
<1>1. /\ IsFiniteSet(Cached(fewer))
      /\ Cardinality(Cached(fewer)) <= Cardinality(Cached(cache))
  BY FS_Subset DEF Capped
<1>2. Cardinality(Cached(fewer)) \in Nat /\ Cardinality(Cached(cache)) \in Nat
  BY <1>1, FS_CardinalityType DEF Capped
<1>3. QED
  BY <1>1, <1>2, ConstantsAssumption DEF Capped

\* Entries taken out are not there.
LEMMA WithoutCapped ==
    ASSUME NEW cache, Capped(cache), NEW out
    PROVE  Capped(Without(cache, out))
<1>1. Cached(Without(cache, out)) \subseteq Cached(cache)
  BY DEF Cached, Without
<1>2. QED
  BY <1>1, FewerCapped

\* Both caches, with what their entries may be.
CapInv == CachesOK /\ Capped(live) /\ Capped(terms)

\* An insertion, the one step that adds to a cache a worker read.
LEMMA InsertKeepsCap ==
    ASSUME CapInv, IInv, NEW a \in Workers, Insert(a)
    PROVE  Capped(live)' /\ Capped(terms)'
<1>1. PICK out \in Evictions(live, worker[a].ws) :
         /\ live' = With(live, worker[a].ws, worker[a].snap, out)
         /\ terms' = Without(terms, out)
  BY DEF Insert
<1>2. worker[a].ws \in Workspaces
  BY DEF Insert, At, IInv, StagesOK, StageOK
<1>3. Capped(With(live, worker[a].ws, worker[a].snap, out))
  BY <1>2, InsertCapped DEF CapInv
<1>4. Capped(Without(terms, out))
  BY WithoutCapped DEF CapInv
<1>5. QED
  BY <1>1, <1>3, <1>4 DEF Capped, Cached

\* An index pushed, the one step that adds to the other cache.
LEMMA PushKeepsCap ==
    ASSUME CapInv, IInv, NEW a \in Workers, PushIndex(a)
    PROVE  Capped(live)' /\ Capped(terms)'
<1>1. PICK out \in Evictions(terms, worker[a].ws) :
         terms' = With(terms, worker[a].ws, worker[a].snap, out)
  BY DEF PushIndex
<1>2. worker[a].ws \in Workspaces
  BY DEF PushIndex, At, IInv, StagesOK, StageOK
<1>3. Capped(With(terms, worker[a].ws, worker[a].snap, out))
  BY <1>2, InsertCapped DEF CapInv
<1>4. live' = live
  BY DEF PushIndex
<1>5. QED
  BY <1>1, <1>3, <1>4 DEF CapInv, Capped, Cached

\* A patch rewrites the entries that are there.
LEMMA PatchKeepsCap ==
    ASSUME CapInv, NEW a \in Workers, PatchLive(a)
    PROVE  Capped(live)' /\ Capped(terms)'
<1>1. Cached(live') \subseteq Cached(live)
  BY DEF PatchLive, Cached
<1>2. Capped(live')
  BY <1>1, FewerCapped DEF CapInv
<1>3. terms' = terms
  BY DEF PatchLive
<1>4. QED
  BY <1>2, <1>3 DEF CapInv, Capped, Cached

\* Every other step takes entries out or leaves the caches alone.
LEMMA OthersKeepCap ==
    ASSUME CapInv, NEW a \in Workers, Read(a) \/ Write(a),
           ~Insert(a), ~PushIndex(a), ~PatchLive(a)
    PROVE  Capped(live)' /\ Capped(terms)'
<1>1. \/ live' = live
      \/ \E out : live' = Without(live, out)
  BY DEF Read, Write, Begin, BeginRead, LoadGeneration, LookupHit, LookupMiss, Scan, CheckGeneration, AnswerLive, SearchHit, SearchMiss, AcquireBuild, RecheckMiss, TakePrevious, Return, BeginWrite, Commit, Decline, CommitForget, ForgetNothing, Bump, DropLive, DropTerms, ReadAgain, EndWrite
<1>2. \/ terms' = terms
      \/ \E out : terms' = Without(terms, out)
  BY DEF Read, Write, Begin, BeginRead, LoadGeneration, LookupHit, LookupMiss, Scan, CheckGeneration, AnswerLive, SearchHit, SearchMiss, AcquireBuild, RecheckMiss, TakePrevious, Return, BeginWrite, Commit, Decline, CommitForget, ForgetNothing, Bump, DropLive, DropTerms, ReadAgain, EndWrite
<1>3. Capped(live')
  BY <1>1, WithoutCapped DEF CapInv
<1>4. Capped(terms')
  BY <1>2, WithoutCapped DEF CapInv
<1>5. QED
  BY <1>3, <1>4 DEF Capped, Cached

(***************************************************************************)
(* Whatever builds, evictions, patches and forgets interleave, neither     *)
(* cache holds more workspaces than PACKSET_WORKSPACE_CACHE, any number of *)
(* workspaces being in use.                                                *)
(***************************************************************************)
THEOREM WithinCap == Spec => []CapHolds
<1>1. Init => Capped(live) /\ Capped(terms)
  <2>1. ASSUME Init PROVE Cached(live) = {} /\ Cached(terms) = {}
    BY <2>1 DEF Init, Cached
  <2>2. QED
    BY <2>1, FS_EmptySet, ConstantsAssumption DEF Capped
<1>2. IInv /\ Capped(live) /\ Capped(terms) /\ [Next]_vars => (Capped(live) /\ Capped(terms))'
  <2> SUFFICES ASSUME IInv, Capped(live), Capped(terms), [Next]_vars
               PROVE  Capped(live)' /\ Capped(terms)'
    OBVIOUS
  <2>1. CapInv
    BY DEF CapInv, IInv, TypeOK
  <2>2. CASE UNCHANGED vars
    BY <2>2 DEF vars, Capped, Cached
  <2>3. ASSUME NEW a \in Workers, Read(a) \/ Write(a)
        PROVE  Capped(live)' /\ Capped(terms)'
    BY <2>1, <2>3, InsertKeepsCap, PushKeepsCap, PatchKeepsCap, OthersKeepCap
  <2>4. QED
    BY <2>2, <2>3 DEF Next
<1>3. Capped(live) /\ Capped(terms) => CapHolds
  BY DEF Capped, CapHolds
<1>4. QED
  BY <1>1, <1>2, <1>3, Invariance, PTL DEF Spec

-----------------------------------------------------------------------------
(* The abstract store. *)

\* The call of a client in a given state, and the calls of all.
CallOf(state) ==
    IF state.op \in {None, "write", "forget"} THEN None
    ELSE [ws    |-> state.ws,
          since |-> state.floor,
          docs  |-> IF state.pc = "done" THEN state.snap.docs ELSE None]

Calls == [a \in Workers |-> CallSeen(a)]

\* What stands for a missing call or answer is neither.
LEMMA NoneApart ==
    /\ None \notin Docs
    /\ \A w \in Workspaces, n \in Nat, d \in Docs \cup {None} :
         [ws |-> w, since |-> n, docs |-> d] # None
    /\ None \notin {"live", "search", "recheck", "build", "write", "forget"}
<1>1. Docs \subseteq Batches
  BY DEF Docs, Batches
<1>2. QED
  BY <1>1, NoneAssumption DEF Ops

\* A step changes the call of the worker that takes it and no other.
LEMMA CallsMove ==
    ASSUME WorkersOK, NEW a \in Workers, NEW state, Move(a, state)
    PROVE  Calls' = [Calls EXCEPT ![a] = CallOf(state)]
<1>1. \A b \in Workers : CallSeen(b) = CallOf(worker[b])
  BY DEF CallSeen, CallOf, At
<1>2. \A b \in Workers : CallSeen(b)' = CallOf(worker'[b])
  BY DEF CallSeen, CallOf, At
<1>3. worker'[a] = state /\ \A b \in Workers : b # a => worker'[b] = worker[b]
  BY Moved
<1>4. Calls' = [b \in Workers |-> CallOf(worker'[b])]
  BY <1>2 DEF Calls
<1>5. Calls = [b \in Workers |-> CallOf(worker[b])]
  BY <1>1 DEF Calls
<1>6. QED
  BY <1>3, <1>4, <1>5

\* A step that leaves the worker's call as it was leaves every call.
LEMMA CallsKept ==
    ASSUME WorkersOK, NEW a \in Workers, NEW state, Move(a, state),
           CallOf(state) = CallSeen(a)
    PROVE  Calls' = Calls
BY CallsMove DEF Calls

\* Writers have no call that a reader's promise speaks of.
LEMMA WriterNoCall ==
    ASSUME NEW a \in Workers, Writing(a)
    PROVE  CallSeen(a) = None
BY DEF Writing, Doing, CallSeen

\* The steps of a reader from its question to its answer.
LEMMA ReaderOnItsWay ==
    ASSUME IInv, NEW a \in Workers,
           \/ LoadGeneration(a) \/ LookupHit(a) \/ LookupMiss(a) \/ Scan(a)
           \/ CheckGeneration(a) \/ Insert(a) \/ SearchMiss(a) \/ AcquireBuild(a)
           \/ RecheckMiss(a) \/ TakePrevious(a)
    PROVE  Calls' = Calls
<1>1. WorkersOK /\ worker[a] \in WorkerStates
  BY DEF IInv, TypeOK, WorkersOK
<1>2. PICK state : /\ Move(a, state)
                   /\ state.op = worker[a].op \/ {state.op, worker[a].op} \subseteq {"live", "search", "recheck", "build"}
                   /\ state.ws = worker[a].ws /\ state.floor = worker[a].floor
                   /\ state.pc # "done" /\ worker[a].pc # "done"
  <2>1. CASE LoadGeneration(a)
    <3>1. /\ worker'[a].op = worker[a].op /\ worker'[a].ws = worker[a].ws
          /\ worker'[a].floor = worker[a].floor /\ worker'[a].pc = "lookup"
      BY <1>1, <2>1, LoadGenerationMoves
    <3>2. QED
      BY <1>1, <2>1, <3>1, Moved DEF LoadGeneration, At
  <2>2. CASE LookupHit(a)
    <3>1. /\ worker'[a].op = worker[a].op /\ worker'[a].ws = worker[a].ws
          /\ worker'[a].floor = worker[a].floor /\ worker'[a].pc = "got"
      BY <1>1, <2>2, LookupHitMoves
    <3>2. QED
      BY <1>1, <2>2, <3>1, Moved DEF LookupHit, At
  <2>3. CASE Scan(a)
    <3>1. /\ worker'[a].op = worker[a].op /\ worker'[a].ws = worker[a].ws
          /\ worker'[a].floor = worker[a].floor /\ worker'[a].pc = "check"
      BY <1>1, <2>3, ScanMoves
    <3>2. QED
      BY <1>1, <2>3, <3>1, Moved DEF Scan, At
  <2>4. CASE AcquireBuild(a)
    <3>1. worker[a].op \in {"live", "search", "recheck", "build"}
      BY <1>1, <2>4, NoneApart DEF AcquireBuild, IInv, StagesOK, StageOK, At, Doing, Writing, WorkerStates, Ops
    <3>2. QED
      BY <1>1, <2>4, <3>1 DEF AcquireBuild, At, WorkerStates
  <2>5. CASE RecheckMiss(a)
    BY <1>1, <2>5 DEF RecheckMiss, At, Doing, WorkerStates
  <2>6. CASE LookupMiss(a) \/ CheckGeneration(a) \/ Insert(a) \/ SearchMiss(a) \/ TakePrevious(a)
    <3>1. PICK pc1 \in {"scan", "insert", "got", "wait", "push"} :
             Move(a, [worker[a] EXCEPT !.pc = pc1]) /\ worker[a].pc # "done"
      BY <2>6 DEF LookupMiss, CheckGeneration, Insert, SearchMiss, TakePrevious, At
    <3>2. /\ worker'[a].op = worker[a].op /\ worker'[a].ws = worker[a].ws
          /\ worker'[a].floor = worker[a].floor /\ worker'[a].pc = pc1
      BY <1>1, <3>1, MovePc
    <3>3. QED
      BY <1>1, <3>1, <3>2, Moved
  <2>7. QED
    BY <2>1, <2>2, <2>3, <2>4, <2>5, <2>6
<1>3. CallOf(state) = CallSeen(a)
  BY <1>2, NoneApart DEF CallOf, CallSeen, At
<1>4. QED
  BY <1>1, <1>2, <1>3, CallsKept

\* The steps of a writer that answer nobody: its commits are the abstract
\* store's own steps.
LEMMA WriterOnItsWay ==
    ASSUME IInv, NEW a \in Workers,
           \/ \E batch \in Batches : Commit(a, batch)
           \/ CommitForget(a) \/ ForgetNothing(a) \/ Bump(a) \/ PatchLive(a)
           \/ DropLive(a) \/ DropTerms(a) \/ ReadAgain(a)
    PROVE  Calls' = Calls
<1>1. WorkersOK /\ worker[a] \in WorkerStates /\ Writing(a)
  <2>1. StageOK(a)
    BY DEF IInv, StagesOK
  <2>2. QED
    BY <2>1 DEF IInv, TypeOK, WorkersOK, StageOK, Writing, Doing, At, Commit, CommitForget, ForgetNothing, Bump, PatchLive, DropLive, DropTerms, ReadAgain
<1>2. PICK state : Move(a, state) /\ state.op = worker[a].op
  <2>1. CASE \E batch \in Batches : Commit(a, batch)
    <3>1. PICK batch \in Batches : Move(a, [worker[a] EXCEPT !.pc = "bump", !.batch = batch])
      BY <2>1 DEF Commit
    <3>2. [worker[a] EXCEPT !.pc = "bump", !.batch = batch].op = worker[a].op
      BY <1>1 DEF WorkerStates
    <3>3. QED
      BY <3>1, <3>2
  <2>2. CASE CommitForget(a)
    <3>1. PICK gone : Move(a, [worker[a] EXCEPT !.pc = "bump", !.batch = gone])
      BY <2>2 DEF CommitForget
    <3>2. [worker[a] EXCEPT !.pc = "bump", !.batch = gone].op = worker[a].op
      BY <1>1 DEF WorkerStates
    <3>3. QED
      BY <3>1, <3>2
  <2>3. CASE ForgetNothing(a) \/ Bump(a)
    <3>1. PICK pc1, n : Move(a, [worker[a] EXCEPT !.pc = pc1, !.seen = n])
      BY <2>3 DEF ForgetNothing, Bump
    <3>2. [worker[a] EXCEPT !.pc = pc1, !.seen = n].op = worker[a].op
      BY <1>1 DEF WorkerStates
    <3>3. QED
      BY <3>1, <3>2
  <2>4. CASE PatchLive(a) \/ DropLive(a) \/ DropTerms(a) \/ ReadAgain(a)
    <3>1. PICK pc1 : Move(a, [worker[a] EXCEPT !.pc = pc1])
      BY <2>4 DEF PatchLive, DropLive, DropTerms, ReadAgain
    <3>2. [worker[a] EXCEPT !.pc = pc1].op = worker[a].op
      BY <1>1 DEF WorkerStates
    <3>3. QED
      BY <3>1, <3>2
  <2>5. QED
    BY <2>1, <2>2, <2>3, <2>4
<1>3. CallOf(state) = CallSeen(a)
  BY <1>1, <1>2, WriterNoCall DEF CallOf, Writing, Doing
<1>4. QED
  BY <1>1, <1>2, <1>3, CallsKept

\* A question put: the abstract store's Ask.
LEMMA BeginReadAsks ==
    ASSUME IInv, NEW a \in Workers, NEW w \in Workspaces, NEW op \in {"live", "search"},
           BeginRead(a, op, w)
    PROVE  Promise!Ask(a, w)
<1>1. WorkersOK /\ StageOK(a) /\ acked \in Nat
  BY DEF IInv, TypeOK, StagesOK
<1>2. CallSeen(a) = None
  BY <1>1 DEF BeginRead, Begin, StageOK, CallSeen
<1>3. PICK state : /\ Move(a, state) /\ state.op = op /\ state.ws = w /\ state.floor = acked
                   /\ state.pc = "load"
  <2> DEFINE asked == [Idle EXCEPT !.pc = "load", !.op = op, !.ws = w, !.floor = acked]
  <2>1. Move(a, asked)
    BY DEF BeginRead, Begin
  <2>2. asked.op = op /\ asked.ws = w /\ asked.floor = acked /\ asked.pc = "load"
    BY DEF Idle
  <2>3. QED
    BY <2>1, <2>2
<1>4. CallOf(state) = [ws |-> w, since |-> acked, docs |-> None]
  BY <1>3, NoneApart DEF CallOf
<1>5. Calls' = [Calls EXCEPT ![a] = [ws |-> w, since |-> acked, docs |-> None]]
  BY <1>1, <1>3, <1>4, CallsMove
<1>6. UNCHANGED <<log, acked>>
  BY DEF BeginRead, Begin
<1>7. QED
  BY <1>2, <1>5, <1>6 DEF Promise!Ask, Promise!Call, Calls

\* An answer given: the abstract store's Answer, by what was read.
LEMMA AnswerAnswers ==
    ASSUME IInv, NEW a \in Workers,
           AnswerLive(a) \/ SearchHit(a) \/ PushIndex(a)
    PROVE  Promise!Answer(a)
<1>1. /\ WorkersOK /\ worker[a] \in WorkerStates
      /\ StageOK(a) /\ SeenOK(a) /\ SnapOK(a) /\ LogOK
  BY DEF IInv, TypeOK, WorkersOK, StagesOK
<1>2. /\ worker[a].op \notin {None, "write", "forget"}
      /\ worker[a].pc \in {"got", "push"} /\ worker[a].ws \in Workspaces
  BY <1>1, NoneApart DEF AnswerLive, SearchHit, PushIndex, StageOK, At, Doing, Writing
<1>3. PICK state : /\ Move(a, state) /\ state.op = worker[a].op /\ state.ws = worker[a].ws
                   /\ state.floor = worker[a].floor /\ state.pc = "done" /\ state.snap = worker[a].snap
  <2>1. CASE AnswerLive(a)
    <3> DEFINE done == [worker[a] EXCEPT !.pc = "done"]
    <3>1. Move(a, done)
      BY <2>1 DEF AnswerLive
    <3>2. /\ done.op = worker[a].op /\ done.ws = worker[a].ws /\ done.floor = worker[a].floor
          /\ done.pc = "done" /\ done.snap = worker[a].snap
      BY <1>1 DEF WorkerStates
    <3>3. QED
      BY <3>1, <3>2
  <2>2. CASE SearchHit(a) \/ PushIndex(a)
    <3>1. PICK index : Move(a, [worker[a] EXCEPT !.pc = "done", !.index = index])
      BY <2>2 DEF SearchHit, PushIndex
    <3> DEFINE done == [worker[a] EXCEPT !.pc = "done", !.index = index]
    <3>2. /\ done.op = worker[a].op /\ done.ws = worker[a].ws /\ done.floor = worker[a].floor
          /\ done.pc = "done" /\ done.snap = worker[a].snap
      BY <1>1 DEF WorkerStates
    <3>3. QED
      BY <3>1, <3>2
  <2>3. QED
    BY <2>1, <2>2
<1>4. CallSeen(a) = [ws |-> worker[a].ws, since |-> worker[a].floor, docs |-> None]
  BY <1>2 DEF CallSeen, At
<1>5. CallOf(state) = [ws |-> worker[a].ws, since |-> worker[a].floor, docs |-> worker[a].snap.docs]
  BY <1>2, <1>3 DEF CallOf
<1>6. PICK k \in (worker[a].floor + 1)..Len(log) : worker[a].snap.docs = log[k][worker[a].ws]
  <2>1. CommittedSince(worker[a].snap.docs, worker[a].ws, worker[a].seen)
    BY <1>1, <1>2 DEF SnapOK
  <2>2. worker[a].floor <= worker[a].seen /\ worker[a].floor \in Nat /\ worker[a].seen \in Nat
    BY <1>1, <1>2 DEF SeenOK, Reading, WorkerStates
  <2>3. QED
    BY <2>1, <2>2, SinceWeaker DEF CommittedSince
<1>7. Calls' = [Calls EXCEPT ![a] = [ws |-> worker[a].ws, since |-> worker[a].floor, docs |-> log[k][worker[a].ws]]]
  BY <1>1, <1>3, <1>5, <1>6, CallsMove
<1>8. Calls[a] = [ws |-> worker[a].ws, since |-> worker[a].floor, docs |-> None] /\ Calls[a] # None
  <2>1. worker[a].floor \in Nat
    BY <1>1 DEF WorkerStates
  <2>2. QED
    BY <1>2, <1>4, <2>1, NoneApart DEF Calls
<1>9. UNCHANGED <<log, acked>>
  BY DEF AnswerLive, SearchHit, PushIndex
<1>10. /\ (Calls[a]).ws = worker[a].ws /\ (Calls[a]).since = worker[a].floor
       /\ (Calls[a]).docs = None
  BY <1>8
<1>11. \E n \in ((Calls[a]).since + 1)..Len(log) :
         Calls' = [Calls EXCEPT ![a] = Promise!Call((Calls[a]).ws, (Calls[a]).since, log[n][(Calls[a]).ws])]
  BY <1>7, <1>10 DEF Promise!Call
<1>12. QED
  BY <1>8, <1>9, <1>10, <1>11 DEF Promise!Answer, Calls

\* The client has its answer: the abstract store's Leave.
LEMMA ReturnLeaves ==
    ASSUME IInv, NEW a \in Workers, Return(a)
    PROVE  Promise!Leave(a)
<1>1. WorkersOK /\ worker[a] \in WorkerStates /\ StageOK(a) /\ SnapOK(a) /\ At(a, "done")
  BY DEF IInv, TypeOK, WorkersOK, StagesOK, Return
<1>2. worker[a].op \notin {None, "write", "forget"} /\ worker[a].ws \in Workspaces
  BY <1>1 DEF StageOK, At, Doing, Writing
<1>3. worker[a].snap.docs \in Docs /\ worker[a].floor \in Nat
  BY <1>1 DEF SnapOK, At, WorkerStates, Snapshots
<1>4. CallSeen(a) = [ws |-> worker[a].ws, since |-> worker[a].floor, docs |-> worker[a].snap.docs]
  BY <1>1, <1>2 DEF CallSeen
<1>5. Calls[a] # None /\ (Calls[a]).docs # None
  BY <1>2, <1>3, <1>4, NoneApart DEF Calls
<1>6. CallOf(Idle) = None
  BY DEF CallOf, Idle
<1>7. Calls' = [Calls EXCEPT ![a] = None]
  BY <1>1, <1>6, CallsMove DEF Return
<1>8. UNCHANGED <<log, acked>>
  BY DEF Return
<1>9. QED
  BY <1>5, <1>7, <1>8 DEF Promise!Leave, Calls

\* A commit: the abstract store's Store.
LEMMA CommitStores ==
    ASSUME IInv, NEW a \in Workers,
           (\E batch \in Batches : Commit(a, batch)) \/ CommitForget(a)
    PROVE  \E w \in Workspaces : \E docs \in Docs : Promise!Store(w, docs)
<1>1. worker[a].ws \in Workspaces /\ Committed[worker[a].ws] \in Docs
  <2>1. StageOK(a) /\ Committed \in [Workspaces -> Docs]
    BY CommittedType DEF IInv, StagesOK
  <2>2. QED
    BY <2>1 DEF StageOK, At, Commit, CommitForget
<1>2. PICK batch \in Batches : Store(worker[a].ws, batch)
  <2>1. [i \in Ids |-> Hidden] \in Batches
    BY DEF Batches
  <2>2. QED
    BY <2>1 DEF Commit, CommitForget
<1>3. Applied(batch, Committed[worker[a].ws]) \in Docs
  BY <1>1, AppliedType
<1>4. Calls' = Calls
  BY WriterOnItsWay
<1>5. acked' = acked
  BY DEF Commit, CommitForget
<1>6. Promise!Store(worker[a].ws, Applied(batch, Committed[worker[a].ws]))
  BY <1>2, <1>4, <1>5 DEF Promise!Store, Store, Committed, Calls
<1>7. QED
  BY <1>1, <1>3, <1>6

\* A write answered: the abstract store's Acknowledge.
LEMMA EndAcknowledges ==
    ASSUME IInv, NEW a \in Workers, Decline(a) \/ EndWrite(a)
    PROVE  Promise!Acknowledge
<1>1. WorkersOK /\ StageOK(a) /\ SeenOK(a) /\ StagesOK
  BY DEF IInv, TypeOK, StagesOK
<1>2. Writing(a) /\ worker[a].pc \in {"got", "unlock"}
  BY <1>1 DEF Decline, EndWrite, StageOK, At, Doing, Writing
<1>3. worker[a].seen = generation
  BY <1>1, <1>2 DEF SeenOK, Reading
<1>4. ASSUME NEW b \in Workers, At(b, "bump") PROVE FALSE
  <2>1. Writing(b)
    BY <1>1, <1>4 DEF StagesOK, StageOK, At
  <2>2. a = b
    BY <1>1, <1>2, <2>1, OneWriter
  <2>3. QED
    BY <1>2, <1>4, <2>2 DEF At
<1>5. Len(log) = generation + 1 /\ generation \in Nat
  BY <1>4, CountExact
<1>6. acked' = Len(log) - 1
  BY <1>3, <1>5 DEF Decline, EndWrite
<1>7. Calls' = Calls
  <2>1. Move(a, Idle) /\ CallOf(Idle) = None
    BY DEF Decline, EndWrite, CallOf, Idle
  <2>2. QED
    BY <1>1, <1>2, <2>1, WriterNoCall, CallsKept
<1>8. QED
  BY <1>6, <1>7 DEF Promise!Acknowledge, Decline, EndWrite, Calls

\* A write begun is not a call that reads.
LEMMA BeginWriteSilent ==
    ASSUME IInv, NEW a \in Workers, NEW w \in Workspaces, BeginWrite(a, w)
    PROVE  Calls' = Calls
<1>1. WorkersOK /\ StageOK(a)
  BY DEF IInv, TypeOK, StagesOK
<1>2. PICK state : Move(a, state) /\ state.op \in {"write", "forget"}
  <2>1. \E op \in {"write", "forget"} : \E step :
           Move(a, [Idle EXCEPT !.pc = step, !.op = op, !.ws = w, !.floor = acked])
    BY DEF BeginWrite, Begin
  <2>2. PICK op \in {"write", "forget"} : \E step :
           Move(a, [Idle EXCEPT !.pc = step, !.op = op, !.ws = w, !.floor = acked])
    BY <2>1
  <2>3. PICK step : Move(a, [Idle EXCEPT !.pc = step, !.op = op, !.ws = w, !.floor = acked])
    BY <2>2
  <2>4. [Idle EXCEPT !.pc = step, !.op = op, !.ws = w, !.floor = acked].op = op
    BY DEF Idle
  <2>5. QED
    BY <2>3, <2>4
<1>3. CallSeen(a) = None /\ CallOf(state) = None
  BY <1>1, <1>2 DEF BeginWrite, Begin, StageOK, CallSeen, CallOf
<1>4. QED
  BY <1>1, <1>2, <1>3, CallsKept

\* Every step of the cached store is one of the abstract store, or none.
LEMMA StepImplements ==
    ASSUME IInv, NEW a \in Workers, Read(a) \/ Write(a)
    PROVE  [Promise!Next]_(Promise!vars)
<1>1. CASE \E w \in Workspaces : \E op \in {"live", "search"} : BeginRead(a, op, w)
  BY <1>1, BeginReadAsks DEF Promise!Next
<1>2. CASE \/ LoadGeneration(a) \/ LookupHit(a) \/ LookupMiss(a) \/ Scan(a)
           \/ CheckGeneration(a) \/ Insert(a) \/ SearchMiss(a) \/ AcquireBuild(a)
           \/ RecheckMiss(a) \/ TakePrevious(a)
  <2>1. Calls' = Calls
    BY <1>2, ReaderOnItsWay
  <2>2. UNCHANGED <<log, acked>>
    BY <1>2 DEF LoadGeneration, LookupHit, LookupMiss, Scan, CheckGeneration, Insert, SearchMiss, AcquireBuild, RecheckMiss, TakePrevious
  <2>3. QED
    BY <2>1, <2>2 DEF Promise!vars, Calls
<1>3. CASE AnswerLive(a) \/ SearchHit(a) \/ PushIndex(a)
  BY <1>3, AnswerAnswers DEF Promise!Next
<1>4. CASE Return(a)
  BY <1>4, ReturnLeaves DEF Promise!Next
<1>5. CASE \E w \in Workspaces : BeginWrite(a, w)
  <2>1. Calls' = Calls
    BY <1>5, BeginWriteSilent
  <2>2. UNCHANGED <<log, acked>>
    BY <1>5 DEF BeginWrite, Begin
  <2>3. QED
    BY <2>1, <2>2 DEF Promise!vars, Calls
<1>6. CASE (\E batch \in Batches : Commit(a, batch)) \/ CommitForget(a)
  BY <1>6, CommitStores DEF Promise!Next
<1>7. CASE ForgetNothing(a) \/ Bump(a) \/ PatchLive(a) \/ DropLive(a) \/ DropTerms(a) \/ ReadAgain(a)
  <2>1. Calls' = Calls
    BY <1>7, WriterOnItsWay
  <2>2. UNCHANGED <<log, acked>>
    BY <1>7 DEF ForgetNothing, Bump, PatchLive, DropLive, DropTerms, ReadAgain
  <2>3. QED
    BY <2>1, <2>2 DEF Promise!vars, Calls
<1>8. CASE Decline(a) \/ EndWrite(a)
  BY <1>8, EndAcknowledges DEF Promise!Next
<1>9. QED
  BY <1>1, <1>2, <1>3, <1>4, <1>5, <1>6, <1>7, <1>8 DEF Read, Write

(***************************************************************************)
(* The caches, the commit that comes before its bump, the patches, the two *)
(* locks and the double look at the index show a client nothing but a      *)
(* store of committed databases: an answer is one of them, committed since *)
(* the last write acknowledged when the question was put.                  *)
(***************************************************************************)
THEOREM Refinement == Spec => ImplementsPackStore
<1>1. Init => Promise!Init
  <2> SUFFICES ASSUME Init PROVE Promise!Init
    OBVIOUS
  <2>1. \A a \in Workers : CallSeen(a) = None
    BY DEF Init, CallSeen, Idle
  <2>2. QED
    BY <2>1 DEF Init, Promise!Init
<1>2. IInv /\ [Next]_vars => [Promise!Next]_(Promise!vars)
  <2>1. ASSUME UNCHANGED vars PROVE UNCHANGED Promise!vars
    BY <2>1 DEF vars, Promise!vars, CallSeen, At
  <2>2. QED
    BY <2>1, StepImplements DEF Next
<1>3. QED
  BY <1>1, <1>2, Invariance, PTL DEF Spec, ImplementsPackStore, Promise!Spec
=============================================================================
