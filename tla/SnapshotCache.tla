--------------------------- MODULE SnapshotCache ---------------------------
(***************************************************************************)
(* The record store of packsetd: an LMDB environment holding every         *)
(* record, a generation counter bumped after each commit, and two caches   *)
(* over it, each one entry per workspace.  `live` is the parsed live set   *)
(* of a workspace; `terms` is the BM25 index built over one such set.      *)
(*                                                                         *)
(* Nothing holds one lock across a whole operation but a write, which      *)
(* holds the service's `writes` mutex.  A read loads the generation,       *)
(* looks in the cache, scans LMDB, compares the generation again, and      *)
(* inserts, and any step of any other worker may come between two of       *)
(* those.  One action here is one such step.                               *)
(*                                                                         *)
(* A record is abstracted to what these steps tell apart: the text it is   *)
(* indexed by, or Hidden when no reader may see it (never written,         *)
(* tombstoned, or outside its validity window).                            *)
(***************************************************************************)
EXTENDS Naturals, FiniteSets, Sequences

CONSTANTS
    Workspaces,   \* workspace names
    Ids,          \* record ids; as numbers where the order of keys matters
    Texts,        \* what a visible record may say
    Hidden,       \* the text of a record no reader may see
    Workers,      \* threads that serve requests
    Cap,          \* PACKSET_WORKSPACE_CACHE, 0 for no cap
    MaxWrites,    \* bound: how many commits a behaviour has
    None          \* absent cache entry, free lock, unset field

ASSUME ConstantsAssumption ==
    /\ Hidden \notin Texts
    /\ Cap \in Nat
    /\ MaxWrites \in Nat

VARIABLES
    log,          \* the committed databases, oldest first; the last is LMDB
    generation,   \* Store::generation
    live,         \* Store::live
    terms,        \* Store::terms
    writes,       \* who holds Service::writes
    terms_build,  \* who holds Store::terms_build
    worker,       \* what each thread is doing
    acked         \* history: the generation of the last answered write

vars == <<log, generation, live, terms, writes, terms_build, worker, acked>>

-----------------------------------------------------------------------------
Docs == [Ids -> Texts \cup {Hidden}]

\* The records one transaction writes.
Batches == UNION {[S -> Texts \cup {Hidden}] : S \in SUBSET Ids}

\* A parsed live set or the set an index was built over.  `arrival` is 0 for
\* a record a scan found, else the generation of the patch that appended it:
\* the position of a record follows from (arrival, id).
Snapshots == [generation : Nat, docs : Docs, arrival : [Ids -> Nat]]

Ops == {"live", "search", "recheck", "build", "write", "forget"}

Steps == {"idle", "load", "lookup", "scan", "check", "insert", "got", "wait",
          "push", "erase", "bump", "patch", "drop", "drop_terms", "unlock",
          "done"}

WorkerStates ==
    [pc    : Steps,
     op    : Ops \cup {None},
     ws    : Workspaces \cup {None},
     seen  : Nat,                      \* the generation loaded or returned
     snap  : Snapshots \cup {None},    \* the live set read
     index : Snapshots \cup {None},    \* the set the answered index covers
     batch : Batches \cup {None},      \* the records being written
     floor : Nat]                      \* history: acked when the call began

ASSUME NoneAssumption ==
    /\ None \notin Ops
    /\ None \notin Workers
    /\ None \notin Workspaces
    /\ None \notin Snapshots
    /\ None \notin Batches
    /\ None \notin [ws : Workspaces, since : Nat, docs : Docs \cup {None}]

Idle == [pc |-> "idle", op |-> None, ws |-> None, seen |-> 0, snap |-> None,
         index |-> None, batch |-> None, floor |-> 0]

Committed == log[Len(log)]

Applied(batch, docs) ==
    [i \in Ids |-> IF i \in DOMAIN batch THEN batch[i] ELSE docs[i]]

Visible(docs) == {i \in Ids : docs[i] # Hidden}

Cached(cache) == {w \in Workspaces : cache[w] # None}

\* How many workspaces have to leave a cache that holds n.
Overfull(n) == IF Cap = 0 \/ n <= Cap THEN 0 ELSE n - Cap

\* Mutant: the cap is tested before the entry built is counted.
EvictionsBeforeInsert(cache, keep) ==
    {out \in SUBSET (Cached(cache) \ {keep}) :
        Cardinality(out) = Overfull(Cardinality(Cached(cache)))}

\* One more workspace in a cache, and the colder ones that leave it for it.
\* Which of them is coldest is the use clock's business and left open here.
Evictions(cache, keep) ==
    LET names == Cached(cache) \cup {keep}
    IN  {out \in SUBSET (names \ {keep}) :
            Cardinality(out) = Overfull(Cardinality(names))}

With(cache, w, entry, out) ==
    [v \in Workspaces |-> IF v = w THEN entry
                          ELSE IF v \in out THEN None ELSE cache[v]]

Without(cache, out) == [v \in Workspaces |-> IF v \in out THEN None ELSE cache[v]]

\* Fold a written batch into a cached set: rewritten in place, removed, or
\* appended after everything the set already holds.
Folded(snap, batch, g) ==
    [generation |-> g,
     docs       |-> Applied(batch, snap.docs),
     arrival    |-> [i \in Ids |->
                        CASE Applied(batch, snap.docs)[i] = Hidden -> 0
                          [] snap.docs[i] = Hidden -> g
                          [] OTHER -> snap.arrival[i]]]

Restamped(snap, g) == [snap EXCEPT !.generation = g]

-----------------------------------------------------------------------------
Init ==
    /\ \E db \in [Workspaces -> Docs] : log = <<db>>
    /\ generation = 0
    /\ live = [w \in Workspaces |-> None]
    /\ terms = [w \in Workspaces |-> None]
    /\ writes = None
    /\ terms_build = None
    /\ worker = [a \in Workers |-> Idle]
    /\ acked = 0

At(a, step) == worker[a].pc = step

Move(a, state) == worker' = [worker EXCEPT ![a] = state]

Doing(a, ops) == worker[a].op \in ops

Begin(a, op, w, step) ==
    /\ At(a, "idle")
    /\ Move(a, [Idle EXCEPT !.pc = step, !.op = op, !.ws = w, !.floor = acked])
    /\ UNCHANGED <<log, generation, live, terms, terms_build, acked>>

\* Store::live, Store::searchable called without the writes mutex.
BeginRead(a, op, w) ==
    /\ op \in {"live", "search"}
    /\ Begin(a, op, w, "load")
    /\ UNCHANGED writes

\* Mutant: two writes at once.
WritesUnlocked == TRUE

WritesFree == writes = None

\* Every write takes the mutex first.  An upsert then reads the live set it
\* is decided on; a forget reads only keys.
BeginWrite(a, w) ==
    /\ WritesFree
    /\ Len(log) <= MaxWrites
    /\ writes' = a
    /\ \/ Begin(a, "write", w, "load")
       \/ Begin(a, "forget", w, "erase")

-----------------------------------------------------------------------------
(* live_versioned *)

LoadGeneration(a) ==
    /\ At(a, "load")
    /\ Move(a, [worker[a] EXCEPT !.pc = "lookup", !.seen = generation])
    /\ UNCHANGED <<log, generation, live, terms, writes, terms_build, acked>>

\* Mutant: any cached set will do.
IsCached(a) == live[worker[a].ws] # None

IsCurrent(a) ==
    LET entry == live[worker[a].ws]
    IN  entry # None /\ entry.generation = worker[a].seen

LookupHit(a) ==
    /\ At(a, "lookup")
    /\ IsCurrent(a)
    /\ Move(a, [worker[a] EXCEPT !.pc = "got", !.snap = live[worker[a].ws]])
    /\ UNCHANGED <<log, generation, live, terms, writes, terms_build, acked>>

LookupMiss(a) ==
    /\ At(a, "lookup")
    /\ ~IsCurrent(a)
    /\ Move(a, [worker[a] EXCEPT !.pc = "scan"])
    /\ UNCHANGED <<log, generation, live, terms, writes, terms_build, acked>>

\* One LMDB read transaction, in key order.
Scan(a) ==
    /\ At(a, "scan")
    /\ Move(a, [worker[a] EXCEPT
                    !.pc = "check",
                    !.snap = [generation |-> worker[a].seen,
                              docs       |-> Committed[worker[a].ws],
                              arrival    |-> [i \in Ids |-> 0]]])
    /\ UNCHANGED <<log, generation, live, terms, writes, terms_build, acked>>

\* Mutant: the scan is cached whatever happened while it ran.
AlwaysUnraced(a) == TRUE

Unraced(a) == generation = worker[a].seen

\* Cached only if no write was counted while the scan ran.
CheckGeneration(a) ==
    /\ At(a, "check")
    /\ Move(a, [worker[a] EXCEPT !.pc = IF Unraced(a) THEN "insert" ELSE "got"])
    /\ UNCHANGED <<log, generation, live, terms, writes, terms_build, acked>>

\* Under the live write lock.  A workspace evicted takes its index along.
Insert(a) ==
    /\ At(a, "insert")
    /\ \E out \in Evictions(live, worker[a].ws) :
          /\ live' = With(live, worker[a].ws, worker[a].snap, out)
          /\ terms' = Without(terms, out)
    /\ Move(a, [worker[a] EXCEPT !.pc = "got"])
    /\ UNCHANGED <<log, generation, writes, terms_build, acked>>

AnswerLive(a) ==
    /\ At(a, "got")
    /\ Doing(a, {"live"})
    /\ Move(a, [worker[a] EXCEPT !.pc = "done"])
    /\ UNCHANGED <<log, generation, live, terms, writes, terms_build, acked>>

-----------------------------------------------------------------------------
(* searchable *)

\* Mutant: the generations are not compared.
IndexSameSize(a) ==
    LET entry == terms[worker[a].ws]
    IN  /\ entry # None
        /\ Cardinality(Visible(entry.docs)) = Cardinality(Visible(worker[a].snap.docs))

\* The only test that an index belongs to a live set: the generation both
\* are labelled with, and how many records each holds.
IndexFits(a) ==
    LET entry == terms[worker[a].ws]
    IN  /\ entry # None
        /\ entry.generation = worker[a].snap.generation
        /\ Cardinality(Visible(entry.docs)) = Cardinality(Visible(worker[a].snap.docs))

SearchHit(a) ==
    /\ At(a, "got")
    /\ Doing(a, {"search", "recheck"})
    /\ IndexFits(a)
    /\ Move(a, [worker[a] EXCEPT !.pc = "done", !.index = terms[worker[a].ws]])
    /\ terms_build' = IF Doing(a, {"recheck"}) THEN None ELSE terms_build
    /\ UNCHANGED <<log, generation, live, terms, writes, acked>>

SearchMiss(a) ==
    /\ At(a, "got")
    /\ Doing(a, {"search"})
    /\ ~IndexFits(a)
    /\ Move(a, [worker[a] EXCEPT !.pc = "wait"])
    /\ UNCHANGED <<log, generation, live, terms, writes, terms_build, acked>>

AcquireBuild(a) ==
    /\ At(a, "wait")
    /\ terms_build = None
    /\ terms_build' = a
    /\ Move(a, [worker[a] EXCEPT !.pc = "load", !.op = "recheck"])
    /\ UNCHANGED <<log, generation, live, terms, writes, acked>>

RecheckMiss(a) ==
    /\ At(a, "got")
    /\ Doing(a, {"recheck"})
    /\ ~IndexFits(a)
    /\ Move(a, [worker[a] EXCEPT !.pc = "load", !.op = "build"])
    /\ UNCHANGED <<log, generation, live, terms, writes, terms_build, acked>>

\* The stale index is taken out of the cache and edited into the new one.
TakePrevious(a) ==
    /\ At(a, "got")
    /\ Doing(a, {"build"})
    /\ terms' = Without(terms, {worker[a].ws})
    /\ Move(a, [worker[a] EXCEPT !.pc = "push"])
    /\ UNCHANGED <<log, generation, live, writes, terms_build, acked>>

\* Patched or rebuilt, the index covers the set just read, position for
\* position, and is cached under the generation that set was read at.
PushIndex(a) ==
    /\ At(a, "push")
    /\ \E out \in Evictions(terms, worker[a].ws) :
          terms' = With(terms, worker[a].ws, worker[a].snap, out)
    /\ Move(a, [worker[a] EXCEPT !.pc = "done", !.index = worker[a].snap])
    /\ terms_build' = None
    /\ UNCHANGED <<log, generation, live, writes, acked>>

Return(a) ==
    /\ At(a, "done")
    /\ Move(a, Idle)
    /\ UNCHANGED <<log, generation, live, terms, writes, terms_build, acked>>

-----------------------------------------------------------------------------
(* upsert_many_at, patch_live, forget_workspace *)

Store(w, batch) ==
    log' = Append(log, [Committed EXCEPT ![w] = Applied(batch, Committed[w])])

\* A transaction makes at most one record visible that was not: the claim
\* added; the others it holds are rewrites of claims already visible.
Commit(a, batch) ==
    /\ At(a, "got")
    /\ Doing(a, {"write"})
    /\ DOMAIN batch # {}
    /\ Cardinality({i \in DOMAIN batch : /\ batch[i] # Hidden
                                         /\ Committed[worker[a].ws][i] = Hidden}) <= 1
    /\ Store(worker[a].ws, batch)
    /\ Move(a, [worker[a] EXCEPT !.pc = "bump", !.batch = batch])
    /\ UNCHANGED <<generation, live, terms, writes, terms_build, acked>>

\* The write is refused, the claim is already there, or the live cap holds:
\* nothing (more) is stored, and what was is answered.
Decline(a) ==
    /\ At(a, "got")
    /\ Doing(a, {"write"})
    /\ writes' = None
    /\ acked' = worker[a].seen
    /\ Move(a, Idle)
    /\ UNCHANGED <<log, generation, live, terms, terms_build>>

\* Every key but the tombstones' is deleted.
CommitForget(a) ==
    /\ At(a, "erase")
    /\ LET gone == [i \in Ids |-> Hidden]
       IN  /\ Store(worker[a].ws, gone)
           /\ Move(a, [worker[a] EXCEPT !.pc = "bump", !.batch = gone])
    /\ UNCHANGED <<generation, live, terms, writes, terms_build, acked>>

\* No key but tombstones: no transaction and no bump, the caches still drop.
ForgetNothing(a) ==
    /\ At(a, "erase")
    /\ Visible(Committed[worker[a].ws]) = {}
    /\ Move(a, [worker[a] EXCEPT !.pc = "drop", !.seen = generation])
    /\ UNCHANGED <<log, generation, live, terms, writes, terms_build, acked>>

\* After the commit, never before.
Bump(a) ==
    /\ At(a, "bump")
    /\ generation' = generation + 1
    /\ Move(a, [worker[a] EXCEPT
                    !.pc = IF Doing(a, {"forget"}) THEN "drop" ELSE "patch",
                    !.seen = generation + 1])
    /\ UNCHANGED <<log, live, terms, writes, terms_build, acked>>

\* Mutant: any older set is taken for the base of the write.
Behind(snap, g) == snap.generation < g

OneBehind(snap, g) == snap.generation + 1 = g

\* Every cached set exactly one write behind moves up; the written
\* workspace's takes the batch.
PatchLive(a) ==
    /\ At(a, "patch")
    /\ live' = [w \in Workspaces |->
                  IF live[w] = None \/ ~OneBehind(live[w], worker[a].seen)
                  THEN live[w]
                  ELSE IF w = worker[a].ws
                  THEN Folded(live[w], worker[a].batch, worker[a].seen)
                  ELSE Restamped(live[w], worker[a].seen)]
    /\ Move(a, [worker[a] EXCEPT !.pc = "unlock"])
    /\ UNCHANGED <<log, generation, terms, writes, terms_build, acked>>

DropLive(a) ==
    /\ At(a, "drop")
    /\ live' = Without(live, {worker[a].ws})
    /\ Move(a, [worker[a] EXCEPT !.pc = "drop_terms"])
    /\ UNCHANGED <<log, generation, terms, writes, terms_build, acked>>

DropTerms(a) ==
    /\ At(a, "drop_terms")
    /\ terms' = Without(terms, {worker[a].ws})
    /\ Move(a, [worker[a] EXCEPT !.pc = "unlock"])
    /\ UNCHANGED <<log, generation, live, writes, terms_build, acked>>

\* A write goes on under the same hold of the mutex: the live cap is
\* enforced on the set as it is after the upsert.
ReadAgain(a) ==
    /\ At(a, "unlock")
    /\ Doing(a, {"write"})
    /\ Len(log) <= MaxWrites
    /\ Move(a, [worker[a] EXCEPT !.pc = "load"])
    /\ UNCHANGED <<log, generation, live, terms, writes, terms_build, acked>>

EndWrite(a) ==
    /\ At(a, "unlock")
    /\ writes' = None
    /\ acked' = worker[a].seen
    /\ Move(a, Idle)
    /\ UNCHANGED <<log, generation, live, terms, terms_build>>

-----------------------------------------------------------------------------
Read(a) ==
    \/ \E w \in Workspaces : \E op \in {"live", "search"} : BeginRead(a, op, w)
    \/ LoadGeneration(a)
    \/ LookupHit(a)
    \/ LookupMiss(a)
    \/ Scan(a)
    \/ CheckGeneration(a)
    \/ Insert(a)
    \/ AnswerLive(a)
    \/ SearchHit(a)
    \/ SearchMiss(a)
    \/ AcquireBuild(a)
    \/ RecheckMiss(a)
    \/ TakePrevious(a)
    \/ PushIndex(a)
    \/ Return(a)

Write(a) ==
    \/ \E w \in Workspaces : BeginWrite(a, w)
    \/ \E batch \in Batches : Commit(a, batch)
    \/ Decline(a)
    \/ CommitForget(a)
    \/ ForgetNothing(a)
    \/ Bump(a)
    \/ PatchLive(a)
    \/ DropLive(a)
    \/ DropTerms(a)
    \/ ReadAgain(a)
    \/ EndWrite(a)

Next == \E a \in Workers : Read(a) \/ Write(a)

Spec == Init /\ [][Next]_vars

-----------------------------------------------------------------------------
LogOK == log \in Seq([Workspaces -> Docs]) /\ Len(log) > 0

CachesOK ==
    /\ live \in [Workspaces -> Snapshots \cup {None}]
    /\ terms \in [Workspaces -> Snapshots \cup {None}]

WorkersOK == worker \in [Workers -> WorkerStates]

TypeOK ==
    /\ LogOK
    /\ CachesOK
    /\ WorkersOK
    /\ generation \in Nat
    /\ acked \in Nat
    /\ writes \in Workers \cup {None}
    /\ terms_build \in Workers \cup {None}

\* No write between its commit and the end of its patch.
Settled ==
    \A a \in Workers : worker[a].pc \notin {"bump", "patch", "drop", "drop_terms"}

\* Where a snapshot's records could have come from: the commits from the
\* n-th on (the database at open is commit 0).
CommittedSince(docs, w, n) ==
    \E k \in (n + 1)..Len(log) : docs = log[k][w]

(***************************************************************************)
(* A read or a search answers with one committed state of the workspace,   *)
(* never a torn one, and never one older than the last write that was      *)
(* answered before the read began; the index it scores with is as fresh.   *)
(***************************************************************************)
ReadsAreFresh ==
    \A a \in Workers : At(a, "done") =>
        /\ CommittedSince(worker[a].snap.docs, worker[a].ws, worker[a].floor)
        /\ worker[a].index # None =>
             CommittedSince(worker[a].index.docs, worker[a].ws, worker[a].floor)

(***************************************************************************)
(* A write decides (same text, retired id, links, cap) on a live set that  *)
(* is exactly what LMDB holds when it commits: the writes mutex makes      *)
(* read-then-upsert one step although the read goes through the cache.     *)
(***************************************************************************)
WritersReadCommitted ==
    \A a \in Workers : At(a, "got") /\ Doing(a, {"write"}) =>
        worker[a].snap.docs = Committed[worker[a].ws]

(***************************************************************************)
(* Once no write is between its commit and its patch, an entry labelled    *)
(* with the current generation holds what LMDB holds: a patched snapshot   *)
(* says what a fresh scan says, and so does the index over it.             *)
(***************************************************************************)
CurrentEntriesAreCommitted ==
    Settled => \A w \in Workspaces : \A cache \in {live, terms} :
        cache[w] # None /\ (cache[w]).generation = generation =>
            (cache[w]).docs = Committed[w]

(***************************************************************************)
(* The memory bound: neither cache holds more workspaces than the cap,     *)
(* whatever order builds, evictions and forgets interleave in.             *)
(***************************************************************************)
CapHolds ==
    Cap > 0 => /\ Cardinality(Cached(live)) <= Cap
               /\ Cardinality(Cached(terms)) <= Cap

-----------------------------------------------------------------------------
(* The strengthening that makes these inductive. *)

Writing(a) == Doing(a, {"write", "forget"})

Reading == {"lookup", "scan", "check", "insert", "got"}

\* Which operation can be at which step, with what in hand, and who holds
\* the mutex.
StageOK(a) ==
    /\ Writing(a) <=> writes = a
    /\ At(a, "idle") <=> worker[a].op = None
    /\ ~At(a, "idle") => worker[a].ws \in Workspaces
    /\ worker[a].pc \in {"erase", "bump", "patch", "drop", "drop_terms", "unlock"}
         => Writing(a)
    /\ At(a, "patch") => worker[a].op = "write"
    /\ worker[a].pc \in {"bump", "patch"} => worker[a].batch # None
    /\ worker[a].pc \in {"wait", "push", "done"} => ~Writing(a)

StagesOK == \A a \in Workers : StageOK(a)

\* One bump per commit, and at most one commit ahead of its bump.
CountOK ==
    Len(log) = generation + (IF \E a \in Workers : At(a, "bump") THEN 2 ELSE 1)

\* A scan that saw the generation unmoved, and so every cached live set
\* labelled g, is the database after g commits, or after one more when it
\* ran between a commit and its bump.
Reflects(snap, w) ==
    /\ snap.generation <= generation
    /\ \/ snap.docs = log[snap.generation + 1][w]
       \/ /\ snap.generation + 2 <= Len(log)
          /\ snap.docs = log[snap.generation + 2][w]

LiveReflects ==
    \A w \in Workspaces : live[w] # None => Reflects(live[w], w)

\* An index may be built over a scan a write raced: later, never earlier.
TermsSince ==
    \A w \in Workspaces : terms[w] # None =>
        /\ (terms[w]).generation <= generation
        /\ CommittedSince((terms[w]).docs, w, (terms[w]).generation)

\* Which writes a worker knows of.
SeenOK(a) ==
    /\ worker[a].floor <= acked
    /\ worker[a].seen <= generation
    /\ worker[a].pc \in Reading \cup {"wait", "push", "done"}
         => worker[a].floor <= worker[a].seen
    /\ worker[a].pc \in {"patch", "drop", "drop_terms", "unlock"}
         => worker[a].seen = generation
    /\ worker[a].pc \in Reading /\ Writing(a) => worker[a].seen = generation

\* What a worker has read.
SnapOK(a) ==
    /\ worker[a].pc \in {"check", "insert", "got", "push", "done"} =>
         /\ worker[a].snap # None
         /\ worker[a].snap.generation = worker[a].seen
         /\ CommittedSince(worker[a].snap.docs, worker[a].ws, worker[a].seen)
    /\ At(a, "insert") => Reflects(worker[a].snap, worker[a].ws)
    /\ worker[a].index # None =>
         CommittedSince(worker[a].index.docs, worker[a].ws, worker[a].floor)

\* The last commit is the batch its writer is about to fold in.
BatchOK(a) ==
    worker[a].pc \in {"bump", "patch"} =>
        /\ Len(log) > 1
        /\ LET before == log[Len(log) - 1]
               w      == worker[a].ws
           IN  Committed = [before EXCEPT ![w] = Applied(worker[a].batch, before[w])]

(***************************************************************************)
(* A cached live set labelled g holds what LMDB held after g commits or    *)
(* one more, whatever scans, patches, evictions and forgets interleaved:   *)
(* with this, the freshness of reads and of what writers read is           *)
(* inductive.                                                              *)
(***************************************************************************)
IInv ==
    /\ TypeOK
    /\ StagesOK
    /\ CountOK
    /\ LiveReflects
    /\ TermsSince
    /\ acked <= generation
    /\ \A a \in Workers : SeenOK(a) /\ SnapOK(a) /\ BatchOK(a)

-----------------------------------------------------------------------------
(* What the store promises, with the caches hidden. *)

\* A call that only reads, as its client sees it.
CallSeen(a) ==
    IF worker[a].op \in {None, "write", "forget"} THEN None
    ELSE [ws    |-> worker[a].ws,
          since |-> worker[a].floor,
          docs  |-> IF At(a, "done") THEN worker[a].snap.docs ELSE None]

Promise == INSTANCE PackStore WITH
    Docs     <- Docs,
    Clients  <- Workers,
    versions <- log,
    answered <- acked,
    calls    <- [a \in Workers |-> CallSeen(a)]

(***************************************************************************)
(* The caches, the two-step commit and bump, and the locks together show   *)
(* clients nothing but a store of committed versions read one at a time.   *)
(***************************************************************************)
ImplementsPackStore == Promise!Spec

-----------------------------------------------------------------------------
=============================================================================
