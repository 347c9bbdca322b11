# A verification development for packset

packset keeps a *pack*: small claims ("atoms") per workspace, in an LMDB
environment owned by one loopback daemon, `packsetd`, that every client reaches
over HTTP. This directory holds TLA+ modules of the daemon and its clients, the
TLC runs that check them on small instances, and proofs checked by TLAPS.
`PROJECT.json` lists components, runs, mutants, the map from definitions to
source lines, findings, hazards and theorems.

Source paths below are relative to `src/crates/packset-cli/src/bin/packsetd/`
unless they say otherwise; `core/` is `src/crates/packset-core/src/`, `client/`
is `src/crates/packset-client/src/`.

## 1. Inventory

| Component | Keeps | Operations | Hard because | Modules |
|---|---|---|---|---|
| Record store and its caches, `store.rs` | the LMDB database; a generation; `live`, `terms`, `counts` caches; the build and count mutexes; a use clock | open, scan, upsert, delete, forget, live, searchable, counts, as_of, release_idle | a read takes no lock over its whole length, and a writer commits, bumps and patches in steps | SnapshotCache, PackStore, StoreLocks, LiveIndex |
| Write service, `service.rs` | the `writes` mutex; shapes; swept days | add, update, grade, delete, sweep, consolidate, accept, fire, forget | long sequences of legal calls; a stop between two commits | AtomLife (over AtomRules), and the writes of SnapshotCache and Projection |
| Request admission, `wire.rs` | the accepted queue, the dear lane, a thread per worker | accept, shed, take, read, begin, run, end, reply | slots handed from a finished request to a parked one; clients that leave | DearLane |
| Search projection, `service.rs`, `milli.rs`, `packset-milli` | the queue, `projecting`, `flush_scheduled`; the index on disk | queue, flush, ensure, replace, reindex, backfill, search | threads and searches flush; children fail; searches upload too | Projection |
| Atom rules, `core/record.rs`, `core/atom.rs` | fields of a record | liveness, floor, replacement, review clock, links | rules that undo each other in a long enough sequence | AtomRules, AtomLife, LinkGraph |
| Proposals, `proposals.rs` | a file of proposals | propose, hold, accept, mark | a record is two writes; miners hold no lock; a stop between store and mark | ProposalLog, AtomLife |
| Shapes of live claims, `service.rs` | word sets by id | check for a duplicate, evict | a shape may outlive its text | AtomLife |
| Fire and cue holds, attachments, `service.rs` | capped, timed maps | fire, activate, attach, take | recorded before the write they are for, which may fail | Desk |
| Dense encoder, `embed.rs`, `packset-embed` | kept children, a pump, replies | encode, rerank, install | replies matched by position; a child replaced under a batch | EmbedPump |
| HTTP routing, `http.rs`, `run.rs` | an idle thread | route a request | four tables kept by hand in four crates | Surface, Desk |
| Authentication, `auth.rs` | a token | refuse | | Surface |
| Cards, `cards.rs` | text files and an archive | add, replace, remove under a cap | file system calls of two requests interleave, each may fail | Desk |
| Home, workspace names, file outline, `home.rs`, `workspace.rs`, `context.rs`, `glob.rs`, `core/home.rs`, `core/identity.rs` | the home and a link to it | resolve, migrate, name, list, match | a move while others start on it | Seats, Checkout |
| Lexical scoring, `core/bm25.rs`, `core/search.rs`, `core/recall.rs`, `core/decay.rs` | an index per live set | score, patch, recall | patched, never rebuilt | LiveIndex, Recall |
| Ballot fusion and diversification, `core/panel.rs` and the voters beside it | nothing | merge ranked lists | ties, truncation, missing ballots | Fusion |
| Islands and activation, `core/island.rs` | nothing | communities, labels, energy | rounds that may not converge | Islands |
| HTTP client, `client/lib.rs` | a budget of time | send with retry | a retry of what may have run | Surface, Desk, Seats |
| Command line and MCP reader, `src/crates/packset-cli/src/main.rs`, `packset-mcp` | nothing that lasts | ensure, stop, migrate-home; verbs, tools | many seats at once | Seats, Surface |
| Prose grading, extraction, benchmarks' protocols | nothing | | heuristics over text | none |

Each hazard is listed at its line in `PROJECT.json`, with the properties that
cover it or the reason none does.

## 2. The modules and the code

Every module's header says what it stands for and what it abstracts; the map in
`PROJECT.json` gives the lines of every definition. A step ends where another
thread can run, or where the process can stop.

**SnapshotCache, PackStore: what a read of the store answers.**

| Code | Actions |
|---|---|
| `live_versioned` (store.rs) | `LoadGeneration`, `LookupHit`/`LookupMiss`, `Scan`, `CheckGeneration`, `Insert` |
| `searchable` | `SearchHit`/`SearchMiss`, `AcquireBuild`, a second look, `RecheckMiss`, `TakePrevious`, `PushIndex` |
| `upsert_many_at`, `patch_live` | `Commit`, `Bump`, `PatchLive` |
| `forget_workspace` | `CommitForget`/`ForgetNothing`, `DropLive`, `DropTerms`, `Bump` |
| the service around them | `BeginWrite` takes `writes`; `Decline` answers a duplicate; `ReadAgain` is a second read and write under one hold; `EndWrite` |

A record is the text it is indexed by, or `Hidden` when no reader may see it.
`PackStore` is what a client may assume: a database per commit, in order, and
reads that answer with one committed since the last acknowledged write. It has
no cache; `ImplementsPackStore` is the refinement, with `versions <- log` and
`answered <- acked`.

**StoreLocks: which locks that takes.** Three maps under locks readers share, a
mutex each for who counts, who indexes and who writes. `Gets` says when a lock
is had, `KeptBy` who keeps a thread from one, with a waiting writer stopping new
readers. A cached set is here only the generation it was read at.

**LiveIndex: what a patch leaves behind.** The parsed records, the shown copies
with their links cut, the vectors and the word index, through upserts, fires,
evictions and forgets, against a scan and a build.

**DearLane: request admission.** `Accept` and `Shed` are the accept loop;
`Take`, `ReadRequest`, `Refuse`, `BeginRun`/`BeginPark`/`BeginFull`,
`DropAbandoned`/`StartRun`, `Run`, `NextParked`/`Release` are `work`,
`Lane::begin`, `reply_ran` and `Lane::end`. Each lane action is one step because
it runs under the lane's mutex. A client may leave at any time.

**Projection: the search index.** `Write`, `Push`, `Schedule` are a write under
`writes`; `Wake` a flush thread's sleep and the lowering of the flag; `Lock`,
`TakeOps`, `Apply` (one child per run of a kind), `Unlock` are `flush_queued`. A
search reads its atoms, flushes, decides what the index needs (`Ensure`), does
it, asks, may upload once more, or does without (`FallBack`). An atom says the
number of the write that said it; a document older or newer matches or not, at
the model's choice.

**AtomRules, AtomLife: a claim's life.** AtomRules has the pure rules of one
record; AtomLife the verbs over the records of one workspace. Every verb holds
`writes`, so its steps are what happens between two commits: a post and its live
cap, an accept and its mark. The process may stop between them; the store and
the proposals survive, the shapes do not. A text is a sequence of words; a due
date is none, ahead, due or overdue.

**LinkGraph**: the links between live claims, chosen by overlap at a post or an
update, made by a fire, left by a claim that closes. What the code sorts is here
the place of each peer, the number of those before it: overlap, then a hash of
the pair, then the id, so that no two have one.

**ProposalLog**: the file of proposals, a record in two writes, with miners
(no lock), holds and accepts (`writes`) at once and a stop of the process.

**EmbedPump**: callers, the pump, batches spread over kept children, deaths,
and the cross-encoder a search waits a moment for.

**Desk**: cards and their archive, the pin, attachment slots, the hour of a
fire, as several seats reach them with retries, failing reads and failing
writes. Only the pin, a fire and a forget take the write lock. A text is a
sequence of bytes, some of which (`Tails`) go on with a character: the cap of a
card counts characters (`Chars`), and what two open writes leave is laid over in
bytes (`Overlay`). `torn` has the cards two requests had open at once. An archive
has room for the sets of texts in `Roomy`; past that it refuses, and the request
is answered 413 with its text nowhere, as the code does. An attachment has a
number none before it has, so that one given can be told from the next of its
workspace. A tick in which nothing grows older is left out.

**Seats**: `ensure`, `stop` and `migrate-home` of several seats, the writers
they start, the lock in the home, the port, the token, and the home's two paths.

| Code | Actions |
|---|---|
| `run.rs`, `core/home.rs` resolve | `WriterResolves` |
| `Store::open`: `private_home`, `take_lock`, `create_dir_all` and the open | `WriterMakesHome`, `WriterLocks`, `WriterOpens` |
| `ensure_token`: the read, then the write | `WriterReadsToken`, `WriterTokens` |
| the listener | `WriterBinds` |
| `ensure`, `start` and its wait | `Ensure`, `Start`, `Poll`, `Sibling`, `Health`, `Deadline` |
| `stop` | `Stop`, `Signal`, `Free` |
| `migrate_home`: the port, the lock taken and let go, the rename, the link | `Migrate`, `Probe`, `Probed`, `Move`, `LinkOld` |

Each step of a start goes by the path anew, and a rename may come between any
two: a writer can lock one directory and open another.

**Surface**: from a line or a tool call through the client's calls to the route
that serves it; and how a request head and a chunked body are read.

**Checkout**: how a checkout is named, its rule files and skills listed, its
tree outlined, its names matched, loop by loop where there is a loop.

**Recall, Fusion, Islands**: what a search seats, how ballots become an answer,
and what the links come apart into. Scores are exact where the code has floats.

**Filter**: what a `retain`, a `filter` or a `partition` keeps of a list.
EmbedPump and Desk use it where the library's `SelectSeq` would do, because the
provers know nothing of that one.

`MCSnapshotCache`, `MCProjection`, `MCSeats`, `MCEmbedPump` and `MCDesk`
instantiate one module. `MCLaneAndLocks`, `MCClaims`, `MCDearLane` and `MCSearch`
each put machines side by side that share no variable: one moves while the
others are as they started, so each is explored whole and no product is built.

## 3. What the runs show

| Run | Instance | Shows |
|---|---|---|
| `snapshot_cache` | 1 workspace, 2 ids, 1 text, 2 workers, cap 1, 2 commits | `ReadsAreFresh`, `WritersReadCommitted`, `CurrentEntriesAreCommitted`; `IInv`, which the proofs rest on |
| `snapshot_store` | 2 workspaces, 1 id, 2 workers, cap 1, 1 commit | `CapHolds` with entries to evict; `ImplementsPackStore` |
| `lane_and_locks` | 3 connections, 2 workers of the 2 asked for, so one dear slot, a body that fills the byte cap, 3 descriptors; 2 threads, 2 names, cap 1, 1 commit | `Inv` of DearLane: slots neither lost nor doubled, parked only beside a full lane and within its bounds, one end for each, the given up never run. `LocksInv`: no circle of waiting, counts only of a scan that is current, caches at rest within the cap |
| `lane_and_line` | 3 connections, 2 workers, one dear slot, room for 1, 3 descriptors, fair; lines of up to 3 arguments, heads of up to 4 lines; names of 3 and patterns of 4 characters, 2 directories up | `EveryConnectionEnds` of DearLane; `SurfaceInv`, `CheckoutInv` |
| `projection` | 1 atom, 2 writes, 2 flush threads, 1 search, failing children, fair | `Inv`, `AppliedInOrder`, `LevelWhenQuiet`, `EveryWriteTried` |
| `encoder` | 1 question, 2 documents, 2 children, 2 searches, 1 death | `AnswersAreOwn`, `AllOrNothing`, `Inv`; `EveryCallerAnswered`, `NoSearchQueues` |
| `seats` | 2 seats, 2 writers, 3 directories, migrations, a home old, new, or old beside an empty new one | `Inv`: the memories have one writer, two share another home only after a migration overtook one, the token beside the memories is their writer's; `MemoriesAreFound`, `HerdComesUp` |
| `desk` | 2 seats, 15 requests of which 3 are made, 1 retry, 1 tick, caps of 1 and 2, texts of one- and two-byte characters, archives with room for 2 texts, failing reads and writes | `Inv`, `OverflowIsKept`, `HeldForTheHour`, `EveryAskEnds` |
| `claims` | 2 ids, 2 proposals, 3 calls, live cap 1; 4 linked claims of one set, at most 2 links; 2 threads over a file of up to 5 records, 1 stop | `Inv`, `FloorHolds`, `DuplicatesComeFromEdits`, `RetiredForever`, `NeglectIsEarned`, `LinksInv`, `LogInv` |
| `search` | 3 ids, 3 writes; 4 candidates, 3 ballots; 5 claims, 4 links; 4 places | `CopiesAreTrue`, `RecallInv`, `DominatorsLead`, `CondorcetLeads`, `NoBetterMerged`, `SearchInv` |
| `pin_is_set` | as `desk`, pins alone | expects a violation of `PinSetsTheSet` |
| `history_stays_readable` | 2 miners, a file of up to 5 records | expects a violation of `HistoryStaysReadable` |

Why the bounds are enough. The store's races need a reader and a writer at
different steps, or two builders; a label can be off by one commit, and by two
only with a second one. Two workspaces matter to eviction alone, which has its
own run. In the lane a request that runs, one that is parked and a third that
finds the byte cap reached, or is cheap, need three connections; a body that
fills the cap needs one size, and the room is what binds in `lane_and_line`.
Three descriptors never run out for three connections; with two, where the
accept loop has to wait for one, the liveness was checked once and holds. In
the projection one atom is enough, because ops of different atoms commute apart
from the shape of a partial index (2 workspaces and 2 ids were explored once: 5
million states, no error). A claim needs a second id to duplicate or replace, a
second proposal to wait twice, and three calls to post, change and post again;
the proofs of section 5 lift the bound on calls. A file of five records has two
that share a line and one after them. Two seats and two writers are what a lost
race needs, and three directories what a migration with a writer on either side
of it leaves: the memories, an empty new home, and an old one made again. Two
texts over each other tear a card: at a cap of two, two characters of two bytes
under two of one byte are three. Three requests at once fill an archive that has
room for two. Four candidates are the least for which a Condorcet winner, a cycle
below it and a tie fit one profile.

Every counter that is capped is a constant named `Max...` or a size, and is in
the guard of the action that counts. Symmetry is declared over sets whose
members are never compared, and in no run with a liveness property.

Deadlock is checked in `snapshot_cache`, `snapshot_store`, `lane_and_locks`
and `projection`. The others stop by their bounds: the calls,
asks, deaths or lines are used up.

The two violations are findings. `pin_is_set`: the client sends the set's name
under `name`, the route reads `set` and takes its absence for "", and the pin is
cleared with a 200. `history_stays_readable`: a record is appended by two writes
and a miner holds no lock, so two records share a line and neither parses.

## 4. Fairness

Safety runs assume none. Liveness assumes that threads run and that what has a
timeout ends:

* `DearLane!FairSpec`: weakly fair to the accept loop and to each worker. A
  read, a shed and a write have timeouts (`IO_TIMEOUT`, `SHED_WAIT`) and a
  handler returns. Clients owe nothing.
* `Projection!FairSpec`: weakly fair to the writer's two steps after its commit,
  to each flush thread and to each search; sleeps and children end. `projecting`
  may pass a waiting thread over: whoever has it takes the whole queue.
* `EmbedPump!Spec`: weakly fair to the pump, its thread and each search's
  bounded wait. The cross-encoder may hang for ever; nothing need die or wake.
* `Seats!Spec`: weakly fair to each writer's start and each seat's
  verb, which are programs with deadlines. `HerdComesUp` is excused once a
  writer is stopped, dies, loses its port to another program, or finds a
  migration in its way (section 6).
* `Desk!Spec`: strongly fair to each seat's step, that is, the write lock is
  given to a waiting thread in the end. The standard library's mutex does not
  promise that on paper; no request holds it over a wait for another.

No liveness of a search waiting for `terms_build` is claimed.

## 5. Proofs

TLAPS checks every theorem below for all values of the constants. The only
assumptions are those the modules name: `ConstantsAssumption` and
`NoneAssumption` of SnapshotCache, `LaneAssumption`, `ProjectionAssumption`,
`StoreLocksAssumption`, `ProposalLogAssumption`, `SeatsAssumption`,
`PumpAssumption`, `LinksAssumption`, `DeskAssumption`, `RoomyAssumption` and
`RequestAssumption` of Desk, and
`ConstantsAssumption` and `BodiesAssumption` of AtomLife. They say that what
stands for "none" is none of the things it stands in for, that bounds are
numbers, that no more workers run than were asked for, that there are threads
enough for every flush to be spawned, that a body has fields a route accepts,
that a process number is positive, that a third directory can be made, that a
text is a sequence of letters or bytes, that an archive with room for some texts
has room for fewer, that a request has what its operation reads, that
claims and topics are finitely many and that ties are in a strict order. TLC
evaluates each in a passing run.

Each argument is: the invariant a run checks is not inductive; a stronger one
is; it was checked with TLC first, then proved action by action.

**SnapshotCacheProofs** (`TypeCorrect`, `Invariance`, `Freshness`,
`WritersCurrent`, `CurrentExact`). A read's answer comes from a cache, so
something must be said of the caches while a write is half done. `IInv`:

1. *Stages*: which operation can be at which step, and that the one that writes
   holds the mutex; at most one worker is between its commit and its patch.
2. *Count*: commits and bumps go together, with at most one commit ahead.
3. *Labels*: a set labelled g is the database after g commits, or after g + 1
   when it was scanned between a commit and its bump. A fold on it gives the
   same in both cases, because writing a batch twice is writing it once.
4. *Indexes*: an index may be newer than its label, never older.
5. *Knowledge*: a worker has loaded a generation at least as new as the last
   write answered before it began, and the last commit is the batch its writer
   is about to fold in.

The same module, of the bound and the promise (`WithinCap`, `Refinement`). The cap: an insert evicts
the coldest beyond it, by the cardinality of what is left. The refinement maps
each step of the cached store to a step of `PackStore` or a stutter; that an
answer is one `PackStore` may give is `Freshness`.

**LaneAndLocksProofs**, of DearLane (`Invariance`). `Inv` is inductive as it stands. The work is
in counting: the slots taken are the workers that hold one, and the parked bytes
the sum over the parked, through every hand-over from a finished request to a
parked one.

The same module, of StoreLocks (`LocksHold`). `LocksIInv` says of each thread what it may
and must hold at its step, with one writer of a lock and no reader beside it;
that an entry of the counts was scanned at its generation or later; how many
commits are ahead of the generation; and that a map is over its cap only while
the thread that filled it evicts. Locks have ranks: writes, terms_build,
counts_build, live, terms, counts. A thread waits only above what it holds, so
in any circle the thread at the highest lock, a writer if there is one, is kept
by nobody.

**ProjectionProofs** (`Invariance`, `InOrderAlways`, `LevelAlways`). The ops of
an atom stand in one line, from the run a child has through the rest of the
flush to the queue, in the order of their writes, and are exactly what the pack
is ahead of the children by. `projecting` keeps a second flush from taking its
part before the first has applied its own. The latest write of a sequence is
handled through least elements of sets of numbers, not by induction.

**ClaimsProofs**, of AtomLife (`LifeHolds`, `FloorAlwaysHolds`, `NoOtherDuplicates`,
`RetiredStays`, `NeglectAlwaysEarned`; `LifeInv` in `LifeInvariance`). First the
rules of one record, as lemmas of AtomRules: provenance is ordered, what holds a
claim for a person keeps its floor, what a review, an update or an edit does to
each field. `Stands` and `Moves` then say what a write other than a client's
edit may do to a record, and two lemmas lift them to the whole store, so each
verb only shows its own moves. Duplicates are excluded because a live claim no
client wrote over keeps the words of its shape, and so is among the candidates
the post is compared with.

The same module, of ProposalLog (`LogInvariance`). `LogInv` is inductive. What is read of
a file is restated without its last record, so a step that ends a line, files a
record or leaves one half-written changes reads in one known way.

The same module, of LinkGraph (`LinksHold`, `LinksLeadSomewhere`). Peers are in
a strict order, by transitivity of fractions and the order of ties, so each has
a place of its own and a choice of those below a place is no larger than the
place. Of a relinking only what was chosen and what was cut is then needed. That
both ends agree rests on a new id being in no record: with an id posted again it
fails, so `LinksHold` supposes none is, as the run does. The bound of a peer that
takes the new claim rests on its sharing a topic with it, so that all its links
of that set were in view when it chose again. A fire is kept pair by pair.

**SeatsProofs** (`SeatsHold`, `MemoriesAlwaysFound`, `OneWriterWhereNobodyMoves`).
`SeatsIInv` knows two times. Before the move the old path is the directory with
the memories, the new one is empty if it is there at all, and no writer's home is
the new path. After it the new path is that directory, and the old one is free, a
link, or what a writer that came too late made there. A writer past `take_lock`
has the lock beside the memories, or is *behind*: its home is the old path, which
leads elsewhere for good, and it has the lock there (`HasLock`). One that has
opened a database has that of the memories, and then their lock, or is behind and
has what is at the old path. So two writers in one database are two that are
behind, at one directory; its lock is not both of theirs, and the other has the
lock beside the memories. A writer's token is beside the memories unless it is
behind. A third directory exists, or nothing could be made there. Where nobody
migrates, `Settled` adds that no seat is moving the home and that the old path is
never made anew, so nobody is behind.

**RecursionLemmas** has what the next two rest on. The library proves that a
recursive function is defined by an induction theorem the provers cannot
instantiate, so it is shown here by hand: the lengths up to which a function
with the recursion exists are a set of numbers that has zero and goes from each
to the next. From that, what `Among` keeps of a list: the elements that are in
the set, all of them, in their order.

**EmbedPumpProofs** (`PumpInvariant`, `SlotsAndLog`, `OwnAnswers`,
`NoPartialAnswers`). Nothing but position says whose a vector is. `PumpInv` says
beside kinds that a chunk has a slot just while it checks or asks, and no other
has it; that no failure was logged since an answer; that the texts of the chunks
are a plan (`PlanChunks`) of the group that is being sent; and that answers are
their callers' own. The group is what `Among` keeps of the batch. That a plan,
one chunk after the other, is the group again is arithmetic: the sizes differ by
at most one and add up. So what is put together in order has each caller's at its
place. One chunk that fails fails the group, so a group is answered whole.

**DeskProofs** (`DeskHolds`, `DeskIsKept`, `RefusedIsArchived`, `FiresHeld`).
`DeskInv` is of seven parts.

1. *Errands*: which place a request can be at with what operation, that one past
   the check of the cap has a text within it, and what an answer can say.
2. *Cards*: a card one request alone has open is empty until it writes, so what
   it leaves is one text; one that two had open at once is marked torn, and is no
   longer in bytes than the longest text within the cap. A card that is there and
   is open to writes has a request at it, and sealing it is that request's last
   step.
3. *Archives*: a request that has read an archive nobody spoiled has all of it,
   and is the only one that has. What has no room with fewer texts has none with
   more (`RoomyAssumption`).
4. *Pin*: the lock is with the one request that has emptied a pin file, and that
   file is empty until it writes it.
5. *Attachments*: numbers are apart, in the slots, among those given and between
   them. A number not in use always exists, by counting.
6. *Fires*: a key recorded within the hour stands in the map, as old as it is,
   with none behind it but keys recorded since. The keys are distinct, so there
   are no more behind it than were recorded since, and the eviction of the
   oldest past the cap stops before it.
7. *Answers* have their types.

The proof found one definition of the model that was wrong: attachments were
numbered by the requests made so far, and two attached with no request between
them had one number. They are now numbered afresh.

Model-checked only:

* everything under fairness (`EveryConnectionEnds`, `EveryWriteTried`,
  `EveryCallerAnswered`, `NoSearchQueues`, `HerdComesUp`, `EveryAskEnds`):
  liveness and ENABLED are outside the proof system;
* what a loop or a fold computes for every input (Fusion, Islands, Recall,
  LiveIndex, the loops of Checkout and Surface): induction over data is outside
  its reach.

## 6. Disagreements read in the code, without a run

Each was read in the source while modelling. None is a property of a run: the
models either follow the code, or leave the case out and say so.

*Store.* A patch appends a new record after the rest while a scan orders by key,
so a cached index can have the generation and length of a set and other
positions, against "a matched pair" (store.rs:1036, service.rs:1921). A reader
that scans between a commit and its bump sees the write and may then be answered
from the older cached set, against "went backwards" in a test (store.rs:2996). A
cached live set keeps a record whose window closes with time (store.rs:522), and
recall serves such a record while it is due. The use clock can keep a name no
cache has; a forget that races an insert leaves a parsed workspace the clock does
not name. `warm_queries` and the delayed release thread (http.rs:71) are
unmodelled; the latter may release what was just used.

*Projection.* A search that finds no index replaces one a flush just created
(milli.rs:569), and a search that rebuilds uploads the atoms it read before it
flushed, over newer documents, against "a search sees its own writes"
(service.rs:500). One index serves all workspaces with keys that do not name
them (milli.rs:207), against "the same id in another workspace is a different
atom" (service.rs:1071). The first flush creates an index that is then taken to
be complete, against "answering with a partial index" (milli.rs:5). A due claim
that leaves the live set is uploaded and not deleted (service.rs:1804, 1812). A
failed child leaves the index short, and a restart loses the queue.

*Claims and proposals.* A stop leaves a mark's line unended; the next record
makes it unreadable and the proposal is open again while the same write was held
anew, against "The same write again returns the open proposal". Open proposals
are not in the fence a miner asks, so a day mined twice is proposed twice. A
client may set `review` and `forgotten` by an update. A link can be one-sided
when an id is posted again. `link_peers` is to give "every candidate it would
have seen over the whole pack" (service.rs:1302), but gives those of one set: a
claim with links to another set, which an update or a fire makes, may have more
than LINK_MAX in all. `LinksInv` counts each set on its own.
`sort_atoms`' doc leaves retrievability out. `GET /v1/atoms?kind=..&as_of=..`
ignores the kind. Distinct workspaces with one slug share pin, cards and
proposals.

*Cards, pins and fires.* Two overflowing writes of a card at once lose an
archived text, a failed archive write empties the day, and an archive that cannot
be read is taken for an empty one (cards.rs:63) and written over. The archive has
a cap of its own, 1,000,000 characters (service.rs:1742); past it the request is
answered 413 and its text is in neither file, against "Archived first, so text
past the cap is not lost" (service.rs:1698). Two PUTs of one card can tear it, and
race over its mode. The cap counts characters and the writes are laid over in
bytes, so that a torn card can have more characters than the cap, against "prose
past the cap is an error" (cards.rs:3): `CardsWithinCap` says so of a card that
is not torn, and of a torn one only that it has no more bytes than some text
within the cap may have. A pin is read as "" while a put truncates
it. `write_set` refused with 413 leaves the earlier fields written. A fire is
recorded as held before a write that may fail.

*Encoder.* A batch of documents spares a slot for a question that waits
(embed.rs:517), but the one pump sends the question only when the batch is over.

*Home and commands.* A writer that resolved the old home can open it between
`migrate-home`'s rename and its link. The lock and the database are found by the
path one after the other (store.rs:320-331), so after a rename between them a
writer holds the lock beside the memories and opens a database in a home it makes
at the old path; a second writer then locks that home and opens the same
database, against "One writer per `memory.lmdb`" (store.rs:1678) and the comment
on the unsafe open that "the lock above is what enforces" (store.rs:324).
`OneWriterPerPack` states it; TLC refutes it in about thirty steps where a seat
migrates, and it is proved where none does. Two such writers can also both find
no token and write one each. The memories themselves keep one writer
(`MemoriesHaveOneWriter`). `migrate-home` asks whether the old home is held by
taking its lock (main.rs:694), and a writer that starts in that instant exits with
"store home is already open"; one that made its home just before the rename finds
nothing to lock and exits too. So a herd of starts can fail because of a migration
alone, and `HerdComesUp` is excused by one that was in the way. `ensure_token`
writes by path, after a move too. `stop` signals whoever holds the port. Comments say that the store opens
after the listener (main.rs:604), which is the other way round, and that a
writer flushes on a signal (main.rs:646), for which no handler is set. The
workspace of a verb falls back to `dir:<path>` in three different ways
(main.rs:497, client/lib.rs:376, packset-mcp's `seat`). The client
percent-encodes an id in a path that the route takes raw, expects 404 from a
delete that answers 400, and packset-mcp reports `up: false` on any error. An
export reads atoms and accessions by two calls. `is_cheap` does not decode the
query key, and calls cheap some routes that may scan.

*Names and matching.* An scp remote whose path starts or ends with a slash, a
`.git/` suffix and a relative remote do not land on one name, against
core/identity.rs's "all land on". `edits` counts positions though its doc says
it saturates at two. Prose hits have no id and collapse to one key.

*Ranking.* `front_due` drops a ranked hit that is also due beyond the due half.
A Condorcet winner need not lead under Kemeny beyond `EXACT_MAX`. Label
propagation can split a linked pair into two islands after its 20 rounds, and a
signature's colours come from the whole graph.

## 7. Not modelled, and why

* The bytes of HTTP, JSON and LMDB: pure I/O. How a head and a chunked body are
  read is in Surface.
* Time as a value: windows and due dates are positions relative to now.
* In the store: dated reads (a scan), counts over all workspaces, the release of
  idle memory.
* In the projection: prose cards, the caps on hits and on remembered sets, a
  dated search, a restart.
* In recall and fusion: what a scorer makes of a record, floating point, the
  pool of 64 peers; in islands, hubs.
* `read_attach_source`, `user_peer`, the order of listings, exports.
* Prose grading, extraction and the benchmarks' protocols: heuristics over text
  and fixtures, nothing concurrent and nothing kept.

## 8. What is left

1. A restart as an action of Projection, with what the index then lacks.
2. A bound on what a claim links to outside its set, which an update widens.
3. Theorems about the loops of Surface and Checkout, along the lines of
   RecursionLemmas.
