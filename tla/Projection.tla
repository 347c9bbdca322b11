----------------------------- MODULE Projection -----------------------------
(***************************************************************************)
(* The search projection of packsetd: an index on disk, kept by a child    *)
(* process, that trails the pack.  A write queues its documents and        *)
(* returns; a flush thread it schedules, or the next search, takes the     *)
(* whole queue and applies it, one child per run of upserts or deletes.    *)
(* A search then asks the index, and uploads atoms to it itself when there *)
(* is no index, when a set was never uploaded, or when nothing was found.  *)
(*                                                                         *)
(* An atom is its workspace and its id; a document of the index is an id   *)
(* alone, with the workspace as a field.  What a record says is the number *)
(* of the write that said it, 0 for a write before the process started.    *)
(***************************************************************************)
EXTENDS Naturals, FiniteSets, SequencesExt

CONSTANTS
    Workspaces,
    Ids,
    InSet,       \* the ids whose atoms carry the one named set
    Queries,     \* the ids whose atoms hold the words of a search
    Flushers,    \* threads queue_projection may have spawned at a time
    Searches,    \* workers that search
    MaxWrites,   \* bound: how many writes a behaviour has
    Failures,    \* whether a child may fail
    None

ASSUME ProjectionAssumption ==
    /\ IsFiniteSet(Ids) /\ InSet \subseteq Ids
    /\ Queries \subseteq SUBSET Ids
    /\ Flushers \cap Searches = {}
    /\ Cardinality(Flushers) >= MaxWrites   \* a spawn never waits
    /\ MaxWrites \in Nat
    /\ Failures \in BOOLEAN
    /\ None \notin Flushers \cup Searches \cup 0..MaxWrites
    /\ None \notin [ws : Workspaces, at : 0..MaxWrites]
    /\ None \notin [Ids -> 0..MaxWrites \cup {None}]

VARIABLES
    pack,        \* the store: what each atom says, None when not live
    written,     \* the last write of each atom
    writes,      \* how many writes there have been
    writer,      \* the write in hand, which holds Service::writes
    pending,     \* Service::projection
    scheduled,   \* Service::flush_scheduled
    projecting,  \* who holds Service::projecting
    thread,      \* what each flush thread and each search is doing
    index,       \* the document of each id
    ready,       \* whether the index exists on disk
    backfilled,  \* whether the named set was uploaded by this process
    rebuilt,     \* the atoms the index was last rebuilt from
    tried,       \* history: the last write of each atom a child was run for
    disturbed    \* history: whether a search uploaded atoms, or a flush failed

vars == <<pack, written, writes, writer, pending, scheduled, projecting, thread,
          index, ready, backfilled, rebuilt, tried, disturbed>>

-----------------------------------------------------------------------------
Stamps == 0..MaxWrites

\* The atoms of one workspace, as the pack or a snapshot of it has them.
Corpora == [Ids -> Stamps \cup {None}]

Live(corpus) == {i \in Ids : corpus[i] # None}

Documents == [ws : Workspaces, at : Stamps]

\* A document to put, or an id to take out, for the write numbered `at`.
Ops == [kind : {"upsert", "delete"}, ws : Workspaces, id : Ids, at : 1..MaxWrites]

Threads == Flushers \cup Searches

Pcs == {"idle", "sleep", "flush", "take", "apply",
        "ensure", "replace", "reindex", "backfill", "ask", "rebuild", "again",
        "answered", "fallen_back"}

ThreadStates ==
    [pc : Pcs, ops : Seq(Ops), ws : Workspaces \cup {None},
     query : SUBSET Ids, scoped : BOOLEAN, corpus : Corpora,
     floor : [Ids -> Stamps],   \* history: the writes finished before it began
     hits : SUBSET Ids]

Empty == [i \in Ids |-> None]

Unused == [pc |-> "idle", ops |-> <<>>, ws |-> None, query |-> {},
           scoped |-> FALSE, corpus |-> Empty, floor |-> [i \in Ids |-> 0],
           hits |-> {}]

NoWrite == [pc |-> "idle", ops |-> <<>>]

Init ==
    /\ pack \in [Workspaces -> [Ids -> {0, None}]]
    /\ written = [w \in Workspaces |-> [i \in Ids |-> 0]] /\ writes = 0
    /\ writer = NoWrite
    /\ pending = <<>> /\ scheduled = FALSE /\ projecting = None
    /\ thread = [t \in Threads |-> Unused]
    \* never indexed, or level with the pack
    /\ \/ ready = FALSE /\ index = Empty
       \/ /\ ready = TRUE
          /\ index \in [Ids -> Documents \cup {None}]
          /\ \A i \in Ids :
                IF \A w \in Workspaces : pack[w][i] = None THEN index[i] = None
                ELSE \E w \in Workspaces : pack[w][i] = 0 /\ index[i] = [ws |-> w, at |-> 0]
    /\ backfilled = FALSE /\ rebuilt = None
    /\ tried = written
    /\ disturbed = FALSE

At(t, step) == thread[t].pc = step

GoTo(t, step) == thread' = [thread EXCEPT ![t].pc = step]

theIndex == <<index, ready>>
theWrite == <<pack, written, writes, writer>>
theQueue == <<pending, scheduled, projecting>>

-----------------------------------------------------------------------------
(* A write: the commit, queue_projection, the end of it. *)

\* What a write does to an atom: stores it, or takes it out of the live set.
\* One that leaves while its review is due is still is_due.
Change == {"stored", "left", "left_due"}

IsLiveOrDue(change) == change \in {"stored", "left_due"}

\* The ops of a write, in the order of its batch (project_atoms).
OpsFor(w, changes, n) ==
    LET ids == SetToSeq(DOMAIN changes)
    IN  [k \in DOMAIN ids |->
            [kind |-> IF IsLiveOrDue(changes[ids[k]]) THEN "upsert" ELSE "delete",
             ws |-> w, id |-> ids[k], at |-> n]]

Write(w, changes) ==
    LET n == writes + 1
    IN  /\ writer.pc = "idle"
        /\ n <= MaxWrites
        /\ writes' = n
        /\ DOMAIN changes # {}
        /\ \A i \in DOMAIN changes : changes[i] = "stored" \/ pack[w][i] # None
        /\ pack' = [pack EXCEPT ![w] = [i \in Ids |->
                        IF i \notin DOMAIN changes THEN pack[w][i]
                        ELSE IF changes[i] = "stored" THEN n ELSE None]]
        /\ written' = [written EXCEPT ![w] = [i \in Ids |->
                        IF i \in DOMAIN changes THEN n ELSE written[w][i]]]
        /\ writer' = [pc |-> "push", ops |-> OpsFor(w, changes, n)]
        /\ UNCHANGED <<theQueue, thread, theIndex, backfilled, rebuilt, tried, disturbed>>

Push ==
    /\ writer.pc = "push"
    /\ pending' = pending \o writer.ops
    /\ writer' = [writer EXCEPT !.pc = "schedule"]
    /\ UNCHANGED <<pack, written, writes, scheduled, projecting, thread, theIndex,
                   backfilled, rebuilt, tried, disturbed>>

\* One swap: the write that finds no flush scheduled spawns one.
Schedule ==
    /\ writer.pc = "schedule"
    /\ writer' = NoWrite
    /\ IF scheduled
       THEN UNCHANGED <<scheduled, thread>>
       ELSE /\ scheduled' = TRUE
            /\ \E t \in Flushers : At(t, "idle") /\ GoTo(t, "sleep")
    /\ UNCHANGED <<pack, written, writes, pending, projecting, theIndex, backfilled,
                   rebuilt, tried, disturbed>>

-----------------------------------------------------------------------------
(* flush_queued, by a flush thread or by a search. *)

\* Mutant: the flag is never put down.
WakeFlagged(t) ==
    /\ At(t, "sleep")
    /\ GoTo(t, "flush")
    /\ UNCHANGED <<theWrite, theQueue, theIndex, backfilled, rebuilt, tried, disturbed>>

\* However long it waited, at most PROJECTION_MAX_WAIT.
Wake(t) ==
    /\ At(t, "sleep")
    /\ scheduled' = FALSE
    /\ GoTo(t, "flush")
    /\ UNCHANGED <<theWrite, pending, projecting, theIndex, backfilled, rebuilt,
                   tried, disturbed>>

\* Mutant: the queue is taken without the index being held.
LockUnheld(t) ==
    /\ At(t, "flush")
    /\ projecting' = t
    /\ GoTo(t, "take")
    /\ UNCHANGED <<theWrite, pending, scheduled, theIndex, backfilled, rebuilt,
                   tried, disturbed>>

Lock(t) ==
    /\ At(t, "flush")
    /\ projecting = None
    /\ projecting' = t
    /\ GoTo(t, "take")
    /\ UNCHANGED <<theWrite, pending, scheduled, theIndex, backfilled, rebuilt,
                   tried, disturbed>>

TakeOps(t) ==
    /\ At(t, "take")
    /\ thread' = [thread EXCEPT ![t].pc = "apply", ![t].ops = pending]
    /\ pending' = <<>>
    /\ UNCHANGED <<theWrite, scheduled, projecting, theIndex, backfilled, rebuilt,
                   tried, disturbed>>

\* The ops one child is run for: the first ones, all of a kind.
FirstRun(ops) ==
    SubSeq(ops, 1, Max({k \in 1..Len(ops) : \A j \in 1..k : ops[j].kind = ops[1].kind}))

Document(op) == IF op.kind = "upsert" THEN [ws |-> op.ws, at |-> op.at] ELSE None

\* What the last op of each id leaves, and the write it was for.
Applied(docs, ops) ==
    [i \in Ids |->
        LET ks == {k \in 1..Len(ops) : ops[k].id = i}
        IN  IF ks = {} THEN docs[i] ELSE Document(ops[Max(ks)])]

Noted(marks, ops) ==
    [w \in Workspaces |-> [i \in Ids |->
        LET ks == {k \in 1..Len(ops) : ops[k].ws = w /\ ops[k].id = i}
        IN  IF ks = {} THEN marks[w][i] ELSE ops[Max(ks)].at]]

\* A child that failed: nothing is indexed, in an index there may now be.
Failed == index' = index /\ ready' \in {ready, TRUE}

\* One child, which creates the index if there is none and changes it in one
\* transaction.  A failure, perhaps after the index was created, is passed
\* over and its ops are gone.
Apply(t) ==
    LET ops == thread[t].ops
        run == FirstRun(ops)
    IN  /\ At(t, "apply")
        /\ ops # <<>>
        /\ \/ /\ index' = Applied(index, run)
              /\ ready' = TRUE
              /\ UNCHANGED disturbed
           \/ Failures /\ Failed /\ disturbed' = TRUE
        /\ tried' = Noted(tried, run)
        /\ thread' = [thread EXCEPT ![t].ops = SubSeq(ops, Len(run) + 1, Len(ops))]
        /\ UNCHANGED <<theWrite, theQueue, backfilled, rebuilt>>

Unlock(t) ==
    /\ At(t, "apply")
    /\ thread[t].ops = <<>>
    /\ projecting' = None
    /\ IF t \in Flushers THEN thread' = [thread EXCEPT ![t] = Unused]
                         ELSE GoTo(t, "ensure")
    /\ UNCHANGED <<theWrite, pending, scheduled, theIndex, backfilled, rebuilt,
                   tried, disturbed>>

-----------------------------------------------------------------------------
(* search_ranked, milli::search, ensure_atoms. *)

\* The atoms are read first; the queue is flushed after.
BeginSearch(s, w, query, scoped) ==
    /\ At(s, "idle")
    /\ thread' = [thread EXCEPT ![s] =
          [Unused EXCEPT !.pc = "flush", !.ws = w, !.query = query,
                         !.scoped = scoped, !.corpus = pack[w],
                         !.floor = [i \in Ids |->
                             IF writer.pc # "idle" /\ written[w][i] = writes
                             THEN 0 ELSE written[w][i]]]]
    /\ UNCHANGED <<theWrite, theQueue, theIndex, backfilled, rebuilt, tried, disturbed>>

\* What the index needs before it is asked, as it stands when looked at.
Ensure(s) ==
    /\ At(s, "ensure")
    /\ GoTo(s, CASE ~ready /\ thread[s].scoped -> "reindex"
                 [] ~ready /\ ~thread[s].scoped -> "replace"
                 [] ready /\ thread[s].scoped /\ ~backfilled -> "backfill"
                 [] OTHER -> "ask")
    /\ UNCHANGED <<theWrite, theQueue, theIndex, backfilled, rebuilt, tried, disturbed>>

\* The documents of some atoms of a search's corpus, over those there are.
With(s, ids, docs) ==
    [i \in Ids |-> IF i \in ids \cap Live(thread[s].corpus)
                   THEN [ws |-> thread[s].ws, at |-> thread[s].corpus[i]]
                   ELSE docs[i]]

Upload(s, docs, step) ==
    /\ index' = docs
    /\ ready' = TRUE
    /\ disturbed' = TRUE
    /\ GoTo(s, step)
    /\ UNCHANGED <<theWrite, theQueue, tried>>

\* Any child a search runs may fail; the search then does without the index.
FallBack(s) ==
    /\ Failures
    /\ thread[s].pc \in {"replace", "reindex", "backfill", "ask", "rebuild", "again"}
    /\ GoTo(s, "fallen_back")
    /\ Failed
    /\ backfilled' = (backfilled /\ ~At(s, "replace"))
    /\ UNCHANGED <<theWrite, theQueue, rebuilt, tried, disturbed>>

\* Everything else leaves the index, the other workspaces' atoms included.
Replace(s) ==
    /\ At(s, "replace")
    /\ Upload(s, With(s, Ids, Empty), "ask")
    /\ backfilled' = FALSE
    /\ UNCHANGED rebuilt

\* No atom to upload, no child and no index.
Reindex(s) ==
    /\ At(s, "reindex")
    /\ IF Live(thread[s].corpus) # {} THEN Upload(s, With(s, Ids, index), "ask")
       ELSE GoTo(s, "ask") /\ UNCHANGED <<theWrite, theQueue, theIndex, tried, disturbed>>
    /\ UNCHANGED <<backfilled, rebuilt>>

Backfill(s) ==
    /\ At(s, "backfill")
    /\ Upload(s, With(s, InSet, index), "ask")
    /\ backfilled' = TRUE
    /\ UNCHANGED rebuilt

\* What the search may find: live atoms of its corpus in scope.
InScope(s) ==
    Live(thread[s].corpus) \cap (IF thread[s].scoped THEN InSet ELSE Ids)

Indexed(s) == {i \in InScope(s) : index[i] # None /\ (index[i]).ws = thread[s].ws}

Current(s) == {i \in Indexed(s) : (index[i]).at = thread[s].corpus[i]}

\* A document that says something else than the atom may match or not.
Found(s) ==
    {hits \in SUBSET Indexed(s) : hits \cap Current(s) = Current(s) \cap thread[s].query}

Answer(s, hits) == thread' = [thread EXCEPT ![s].pc = "answered", ![s].hits = hits]

Ask(s) ==
    /\ At(s, "ask")
    /\ \E hits \in Found(s) :
          IF hits = {} /\ rebuilt # thread[s].corpus THEN GoTo(s, "rebuild")
          ELSE Answer(s, hits)
    /\ UNCHANGED <<theWrite, theQueue, theIndex, backfilled, rebuilt, tried, disturbed>>

\* Nothing found: the projection may be behind.
Rebuild(s) ==
    /\ At(s, "rebuild")
    /\ IF Live(thread[s].corpus) # {} THEN Upload(s, With(s, Ids, index), "again")
       ELSE GoTo(s, "again") /\ UNCHANGED <<theWrite, theQueue, theIndex, tried, disturbed>>
    /\ rebuilt' = thread[s].corpus
    /\ UNCHANGED backfilled

AskAgain(s) ==
    /\ At(s, "again")
    /\ \E hits \in Found(s) : Answer(s, hits)
    /\ UNCHANGED <<theWrite, theQueue, theIndex, backfilled, rebuilt, tried, disturbed>>

EndSearch(s) ==
    /\ thread[s].pc \in {"answered", "fallen_back"}
    /\ thread' = [thread EXCEPT ![s] = Unused]
    /\ UNCHANGED <<theWrite, theQueue, theIndex, backfilled, rebuilt, tried, disturbed>>

-----------------------------------------------------------------------------
Flush(t) == Lock(t) \/ TakeOps(t) \/ Apply(t) \/ Unlock(t)

Search(s) ==
    \/ Ensure(s)
    \/ Replace(s)
    \/ Reindex(s)
    \/ Backfill(s)
    \/ Ask(s)
    \/ Rebuild(s)
    \/ AskAgain(s)
    \/ FallBack(s)
    \/ EndSearch(s)

Changes == UNION {[S -> Change] : S \in SUBSET Ids}

Next ==
    \/ \E w \in Workspaces : \E changes \in Changes : Write(w, changes)
    \/ Push
    \/ Schedule
    \/ \E t \in Flushers : Wake(t)
    \/ \E t \in Threads : Flush(t)
    \/ \E s \in Searches :
          \/ \E w \in Workspaces, query \in Queries, scoped \in BOOLEAN :
                BeginSearch(s, w, query, scoped)
          \/ Search(s)

Spec == Init /\ [][Next]_vars

\* A write that began ends, a sleep and a child are over some time, and a
\* search goes on.  Nothing has to be written or searched for.
FairSpec ==
    /\ Spec
    /\ WF_vars(Push \/ Schedule)
    /\ \A t \in Flushers : WF_vars(Wake(t) \/ Flush(t))
    /\ \A s \in Searches : WF_vars(Flush(s) \/ Search(s))

-----------------------------------------------------------------------------
TypeOK ==
    /\ pack \in [Workspaces -> Corpora]
    /\ written \in [Workspaces -> [Ids -> Stamps]] /\ writes \in Stamps
    /\ writer \in [pc : {"idle", "push", "schedule"}, ops : Seq(Ops)]
    /\ pending \in Seq(Ops)
    /\ scheduled \in BOOLEAN /\ ready \in BOOLEAN /\ backfilled \in BOOLEAN
    /\ projecting \in Threads \cup {None}
    /\ thread \in [Threads -> ThreadStates]
    /\ index \in [Ids -> Documents \cup {None}]
    /\ rebuilt \in Corpora \cup {None}
    /\ tried \in [Workspaces -> [Ids -> Stamps]]
    /\ disturbed \in BOOLEAN

(***************************************************************************)
(* A queued write always has a flush on its way to it: the write that      *)
(* found one scheduled can rely on that one to take the queue later, as    *)
(* the flag is put down before the queue is taken.                         *)
(***************************************************************************)
FlushOnItsWay ==
    /\ pending # <<>> => \/ writer.pc = "schedule"
                         \/ \E t \in Flushers : thread[t].pc \in {"sleep", "flush", "take"}
    /\ scheduled => \E t \in Flushers : At(t, "sleep")

\* One thread has the index, and only it has ops in hand.
OneHolder ==
    \A t \in Threads :
        /\ projecting = t <=> thread[t].pc \in {"take", "apply"}
        /\ thread[t].ops # <<>> => At(t, "apply")

\* The ops of a write that has still to queue them.
Unpushed == IF writer.pc = "push" THEN writer.ops ELSE <<>>

InOrder(ops) == \A j, k \in 1..Len(ops) : j <= k => ops[j].at <= ops[k].at

Before(first, then) ==
    \A j \in 1..Len(first), k \in 1..Len(then) : first[j].at <= then[k].at

(***************************************************************************)
(* The ops stand in line in the order of their writes: those a flush has   *)
(* taken, those queued, those of the write in hand.                        *)
(***************************************************************************)
LineInOrder ==
    /\ InOrder(pending) /\ Before(pending, Unpushed)
    /\ \A t \in Threads : /\ InOrder(thread[t].ops)
                          /\ Before(thread[t].ops, pending)
                          /\ Before(thread[t].ops, Unpushed)
    /\ \A k \in 1..Len(Unpushed) : Unpushed[k].at = writes

\* The ops a flush has, or may take.
Taken == ToSet(pending) \cup UNION {ToSet(thread[t].ops) : t \in Threads}

InLine == Taken \cup ToSet(Unpushed)

For(op, w, i) == op.ws = w /\ op.id = i

(***************************************************************************)
(* The line is what the pack is ahead of the children: every op in it is   *)
(* for a write that is made and not overtaken, and the last write of an    *)
(* atom is in it until a child is run for it.                              *)
(***************************************************************************)
LineIsWhatIsLeft ==
    /\ \A op \in InLine :
          /\ tried[op.ws][op.id] <= op.at /\ op.at <= written[op.ws][op.id]
          /\ pack[op.ws][op.id] = op.at => op.kind = "upsert"
    /\ \A w \in Workspaces, i \in Ids :
          /\ tried[w][i] <= written[w][i] /\ written[w][i] <= writes
          /\ pack[w][i] \in {written[w][i], None}
          /\ tried[w][i] < written[w][i] =>
                \E op \in InLine : For(op, w, i) /\ op.at = written[w][i]

(***************************************************************************)
(* "The index sees every write so far before it is asked": a search past   *)
(* its flush has had a child run for every write that ended before it      *)
(* began, whoever took that write off the queue.                           *)
(***************************************************************************)
FlushedBeforeAsked ==
    \A s \in Searches : thread[s].pc \notin {"idle", "flush", "take", "apply"} =>
        \A i \in Ids : tried[thread[s].ws][i] >= thread[s].floor[i]

\* Until then its own flush has it to come, or already has it in hand.
FloorInLine ==
    \A s \in Searches, i \in Ids :
        LET Covered(op) == For(op, thread[s].ws, i) /\ op.at >= thread[s].floor[i]
        IN  ~At(s, "idle") =>
                /\ thread[s].ws \in Workspaces
                /\ \/ tried[thread[s].ws][i] >= thread[s].floor[i]
                   \/ thread[s].pc \in {"flush", "take"} /\ \E op \in Taken : Covered(op)
                   \/ At(s, "apply") /\ \E op \in ToSet(thread[s].ops) : Covered(op)

\* The ids of a workspace that no other has used.
Alone(w, i) == \A v \in Workspaces \ {w} : written[v][i] = 0 /\ pack[v][i] = None

\* What the children were run for is in the index.
LevelSoFar ==
    ~disturbed =>
        \A w \in Workspaces, i \in Ids :
            /\ Alone(w, i) /\ pack[w][i] # None
            /\ written[w][i] > 0 /\ tried[w][i] = written[w][i]
            => index[i] = [ws |-> w, at |-> pack[w][i]]

(***************************************************************************)
(* What holds of the queue at every point: a write queued has a flush on   *)
(* its way, the line is in order and holds what the pack is ahead, and no  *)
(* search asks the index past a write that came before it.  It is          *)
(* inductive.                                                              *)
(***************************************************************************)
Inv ==
    /\ TypeOK
    /\ FlushOnItsWay
    /\ OneHolder
    /\ LineInOrder
    /\ LineIsWhatIsLeft
    /\ FlushedBeforeAsked
    /\ FloorInLine
    /\ LevelSoFar

(***************************************************************************)
(* "Two flushes never apply out of order": whichever threads flush, and    *)
(* however a flush is cut into runs, no atom's older write is applied      *)
(* after a newer one.                                                      *)
(***************************************************************************)
AppliedInOrder ==
    [][\A w \in Workspaces, i \in Ids : tried'[w][i] >= tried[w][i]]_vars

Quiet ==
    /\ writer.pc = "idle" /\ pending = <<>>
    /\ \A t \in Threads : ~At(t, "apply")

(***************************************************************************)
(* The queue alone keeps the index level: unless a child of a flush failed *)
(* or a search uploaded atoms of its own, every live atom written since    *)
(* the start whose id no other workspace has used is in the index as the   *)
(* pack has it once the queue is empty.                                    *)
(***************************************************************************)
LevelWhenQuiet ==
    Quiet /\ ~disturbed =>
        \A w \in Workspaces, i \in Ids :
            Alone(w, i) /\ written[w][i] > 0 /\ pack[w][i] # None =>
                index[i] = [ws |-> w, at |-> pack[w][i]]

(***************************************************************************)
(* Every write has a child run for it in the end, if one that may fail:    *)
(* with no search to flush for it, by the thread it scheduled.             *)
(***************************************************************************)
EveryWriteTried ==
    \A w \in Workspaces, i \in Ids, n \in 1..MaxWrites :
        written[w][i] = n ~> tried[w][i] >= n

=============================================================================
