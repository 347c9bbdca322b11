----------------------------- MODULE StoreLocks -----------------------------
(***************************************************************************)
(* The locks of packsetd's record store (store.rs): the parsed live sets,  *)
(* the search indexes and the status counts, each a map under a lock of    *)
(* its own that readers share, a mutex each for who counts, who indexes    *)
(* and who writes, and the use clock, which says what leaves a cache that  *)
(* is full.  SnapshotCache says what the caches hold; here a cached live   *)
(* set or index is only the generation it was read at.  The counts over    *)
(* all workspaces, which never leave for others, are left out.             *)
(*                                                                         *)
(* A step ends where a lock is waited for.  The mutex of the use clock is  *)
(* the last of every chain and is let go in the step that takes it.        *)
(***************************************************************************)
EXTENDS Integers, FiniteSets

CONSTANTS
  Names,       \* workspace names
  Threads,     \* threads that serve requests
  Nobody,      \* no name
  CacheCap,    \* PACKSET_WORKSPACE_CACHE
  MaxCommits   \* bound: how many transactions a behaviour commits

ASSUME StoreLocksAssumption ==
  /\ Nobody \notin Names
  /\ CacheCap \in Nat \ {0} /\ MaxCommits \in Nat

VARIABLES
  commits,    \* how many transactions LMDB has committed
  stamp,      \* Store::generation
  parsed,     \* Store::live: workspace -> the generation of its parsed live set
  indexed,    \* Store::terms: workspace -> the generation of its index
  counts,     \* workspace -> the generation and the scan behind its counts
  used,       \* Store::cache_used: workspace -> its place in the order of use, or 0
  holds,      \* thread -> the locks it holds, each to read or to write
  thread      \* thread -> what it is doing

lockVars == <<commits, stamp, parsed, indexed, counts, used, holds, thread>>

-----------------------------------------------------------------------------
Absent  == -1
NoCount == [at |-> Absent, saw |-> Absent]
Resting == [pc |-> "idle", op |-> "none", key |-> Nobody, lap |-> 0, seen |-> 0, saw |-> 0,
            out |-> Nobody, dropped |-> {}, floor |-> 0]

CachedIn(cache) == {w \in Names : cache[w] # Absent}
Counted         == {w \in Names : counts[w] # NoCount}

(* What a thread at a step waits for.                                      *)
Wants(pc) ==
  CASE pc = "counts_cached"   -> <<"counts", "r">>
    [] pc = "counts_build"    -> <<"counts_build", "w">>
    [] pc = "counts_insert"   -> <<"counts", "w">>
    [] pc = "drop_live"       -> <<"live", "r">>
    [] pc = "drop_terms"      -> <<"terms", "r">>
    [] pc = "live_cached"     -> <<"live", "r">>
    [] pc = "live_insert"     -> <<"live", "w">>
    [] pc = "evict_terms_of"  -> <<"terms", "w">>
    [] pc = "evict_counts_of" -> <<"counts", "w">>
    [] pc = "terms_cached"    -> <<"terms", "r">>
    [] pc = "terms_build"     -> <<"terms_build", "w">>
    [] pc = "terms_take"      -> <<"terms", "w">>
    [] pc = "terms_insert"    -> <<"terms", "w">>
    [] pc = "write"           -> <<"writes", "w">>
    [] pc = "patch"           -> <<"live", "w">>
    [] pc = "forget_live"     -> <<"live", "w">>
    [] pc = "forget_terms"    -> <<"terms", "w">>
    [] pc = "forget_counts"   -> <<"counts", "w">>
    [] OTHER                  -> <<"none", "r">>

Conflict(p, q) == p[1] = q[1] /\ "w" \in {p[2], q[2]}

(* A lock is had when nobody holds it the other way; a thread that waits   *)
(* to write may not have begun to, so it keeps no reader out here.         *)
Gets(t) == \A u \in Threads : \A held \in holds[u] : ~Conflict(Wants(thread[t].pc), held)

Ready(t, pc) == thread[t].pc = pc /\ Gets(t)

Becomes(t, next)   == thread' = [thread EXCEPT ![t] = next]
Goto(t, pc)        == Becomes(t, [thread[t] EXCEPT !.pc = pc])
Ends(t)            == thread' = [thread EXCEPT ![t] = Resting]
Keeps(t)           == holds' = [holds EXCEPT ![t] = @ \cup {Wants(thread[t].pc)}]
LetsGo(t, locks)   == holds' = [holds EXCEPT ![t] = {h \in @ : h[1] \notin locks}]

(* The use clock: a note puts a name last, and names that leave close up.  *)
(* What it does not name is the coldest.                                   *)
Named == {w \in Names : used[w] # 0}

Noted(w) ==
  [v \in Names |-> IF v = w THEN Cardinality(Named \cup {w})
                  ELSE IF used[w] \in 1..used[v] THEN used[v] - 1 ELSE used[v]]

Unnamed(gone) ==
  [v \in Names |-> IF v \in gone THEN 0
                  ELSE Cardinality({used[u] : u \in Names \ gone} \cap (1..used[v]))]

Coldest(cached, keep) ==
  LET others == cached \ {keep}
  IN {w \in others : \A v \in others : used[w] <= used[v]}

-----------------------------------------------------------------------------
(* A request; a status and a read load the generation at once.             *)
FirstStep(op) ==
  CASE op = "status"             -> "counts_cached"
    [] op \in {"read", "search"} -> "live_cached"
    [] OTHER                     -> "write"

Asked(op, key) ==
  [Resting EXCEPT !.pc = FirstStep(op), !.op = op, !.key = key,
                  !.lap = IF op = "search" THEN 1 ELSE 0,
                  !.seen = IF op \in {"write", "forget"} THEN 0 ELSE stamp,
                  !.floor = IF op = "status" THEN stamp ELSE 0]

Ask(t) ==
  /\ thread[t].pc = "idle"
  /\ \E op \in {"status", "read", "search", "write", "forget"}, key \in Names :
       /\ op \in {"write", "forget"} => commits < MaxCommits
       /\ Becomes(t, Asked(op, key))
  /\ UNCHANGED <<commits, stamp, parsed, indexed, counts, used, holds>>

(* Store::counts, asked for by every status: cached, else counted by one   *)
(* thread at a time, under the generation loaded before the scan.          *)
CountsCached(t) ==
  LET me == thread[t]
      building == <<"counts_build", "w">> \in holds[t]
  IN /\ Ready(t, "counts_cached")
     /\ IF counts[me.key].at = me.seen
        THEN Becomes(t, [me EXCEPT !.pc = "counts_out", !.seen = 0, !.saw = counts[me.key].saw])
        ELSE Becomes(t, [me EXCEPT !.pc = IF building THEN "counts_seen" ELSE "counts_build", !.seen = 0])
     /\ UNCHANGED <<commits, stamp, parsed, indexed, counts, used, holds>>

CountsBuild(t) ==
  /\ Ready(t, "counts_build")
  /\ Keeps(t) /\ Becomes(t, [thread[t] EXCEPT !.pc = "counts_cached", !.seen = stamp])
  /\ UNCHANGED <<commits, stamp, parsed, indexed, counts, used>>

CountsSeen(t) ==
  /\ Ready(t, "counts_seen")
  /\ Becomes(t, [thread[t] EXCEPT !.pc = "counts_scan", !.seen = stamp])
  /\ UNCHANGED <<commits, stamp, parsed, indexed, counts, used, holds>>

CountsScan(t) ==
  /\ Ready(t, "counts_scan")
  /\ Becomes(t, [thread[t] EXCEPT !.pc = "counts_insert", !.saw = commits])
  /\ UNCHANGED <<commits, stamp, parsed, indexed, counts, used, holds>>

CountsInsert(t) ==
  LET me == thread[t]
  IN /\ Ready(t, "counts_insert")
     /\ counts' = [counts EXCEPT ![me.key] = [at |-> me.seen, saw |-> me.saw]]
     /\ used' = Noted(me.key)
     /\ Keeps(t) /\ Becomes(t, [me EXCEPT !.pc = "evict_counts", !.seen = 0])
     /\ UNCHANGED <<commits, stamp, parsed, indexed>>

\* Mutant: the counts are still locked while the use clock is cleared.
EvictCountsHolding(t) ==
  LET me == thread[t]
      colder == Coldest(Counted, me.key)
  IN /\ Ready(t, "evict_counts")
     /\ IF Cardinality(Counted) > CacheCap /\ colder # {}
        THEN \E w \in colder :
               /\ counts' = [counts EXCEPT ![w] = NoCount]
               /\ Becomes(t, [me EXCEPT !.dropped = me.dropped \cup {w}])
               /\ holds' = holds
        ELSE /\ counts' = counts /\ holds' = holds
             /\ Goto(t, IF me.dropped = {} THEN "counts_out" ELSE "drop_live")
     /\ UNCHANGED <<commits, stamp, parsed, indexed, used>>

EvictCounts(t) ==
  LET me == thread[t]
      colder == Coldest(Counted, me.key)
  IN /\ Ready(t, "evict_counts")
     /\ IF Cardinality(Counted) > CacheCap /\ colder # {}
        THEN \E w \in colder :
               /\ counts' = [counts EXCEPT ![w] = NoCount]
               /\ Becomes(t, [me EXCEPT !.dropped = me.dropped \cup {w}])
               /\ holds' = holds
        ELSE /\ counts' = counts /\ LetsGo(t, {"counts"})
             /\ Goto(t, IF me.dropped = {} THEN "counts_out" ELSE "drop_live")
     /\ UNCHANGED <<commits, stamp, parsed, indexed, used>>

(* drop_count_only: a name neither parsed nor indexed leaves the clock.    *)
DropLiveLock(t) ==
  /\ Ready(t, "drop_live")
  /\ Keeps(t) /\ Goto(t, "drop_terms")
  /\ UNCHANGED <<commits, stamp, parsed, indexed, counts, used>>

DropCountOnly(t) ==
  /\ Ready(t, "drop_terms")
  /\ used' = Unnamed(thread[t].dropped \ (CachedIn(parsed) \cup CachedIn(indexed)))
  /\ LetsGo(t, {"live"}) /\ Goto(t, "counts_out")
  /\ UNCHANGED <<commits, stamp, parsed, indexed, counts>>

CountsOut(t) ==
  /\ Ready(t, "counts_out")
  /\ LetsGo(t, {"counts", "counts_build"}) /\ Ends(t)
  /\ UNCHANGED <<commits, stamp, parsed, indexed, counts, used>>

-----------------------------------------------------------------------------
(* Store::live_versioned, for a read (once) and for a search (up to three  *)
(* times, by lap), which goes on with the live set.                        *)
Onward(t) ==
  CASE thread[t].op = "read" -> Ends(t)
    [] thread[t].lap = 3     -> Goto(t, "terms_take")
    [] OTHER                 -> Goto(t, "terms_cached")

LiveLoad(t) ==
  /\ Ready(t, "live_load")
  /\ Becomes(t, [thread[t] EXCEPT !.pc = "live_cached", !.seen = stamp])
  /\ UNCHANGED <<commits, stamp, parsed, indexed, counts, used, holds>>

LiveCached(t) ==
  LET me == thread[t]
  IN /\ Ready(t, "live_cached")
     /\ IF parsed[me.key] = me.seen
        THEN used' = Noted(me.key) /\ Onward(t)
        ELSE used' = used /\ Goto(t, "live_check")
     /\ UNCHANGED <<commits, stamp, parsed, indexed, counts, holds>>

(* The scan, and whether anything was committed meanwhile.                 *)
LiveCheck(t) ==
  /\ Ready(t, "live_check")
  /\ IF stamp = thread[t].seen THEN Goto(t, "live_insert") ELSE Onward(t)
  /\ UNCHANGED <<commits, stamp, parsed, indexed, counts, used, holds>>

LiveInsert(t) ==
  LET me == thread[t]
  IN /\ Ready(t, "live_insert")
     /\ parsed' = [parsed EXCEPT ![me.key] = me.seen]
     /\ used' = Noted(me.key)
     /\ Keeps(t) /\ Goto(t, "evict_cached")
     /\ UNCHANGED <<commits, stamp, indexed, counts>>

EvictCached(t) ==
  LET colder == Coldest(CachedIn(parsed), thread[t].key)
  IN /\ Ready(t, "evict_cached")
     /\ IF Cardinality(CachedIn(parsed)) > CacheCap /\ colder # {}
        THEN \E w \in colder :
               /\ parsed' = [parsed EXCEPT ![w] = Absent]
               /\ Becomes(t, [thread[t] EXCEPT !.pc = "evict_terms_of", !.out = w])
               /\ holds' = holds
        ELSE parsed' = parsed /\ LetsGo(t, {"live"}) /\ Onward(t)
     /\ UNCHANGED <<commits, stamp, indexed, counts, used>>

EvictTermsOf(t) ==
  /\ Ready(t, "evict_terms_of")
  /\ indexed' = [indexed EXCEPT ![thread[t].out] = Absent]
  /\ Goto(t, "evict_counts_of")
  /\ UNCHANGED <<commits, stamp, parsed, counts, used, holds>>

EvictCountsOf(t) ==
  /\ Ready(t, "evict_counts_of")
  /\ counts' = [counts EXCEPT ![thread[t].out] = NoCount]
  /\ used' = Unnamed({thread[t].out})
  /\ Becomes(t, [thread[t] EXCEPT !.pc = "evict_cached", !.out = Nobody])
  /\ UNCHANGED <<commits, stamp, parsed, indexed, holds>>

-----------------------------------------------------------------------------
(* Store::searchable: looks, waits for its turn to build, looks again, and *)
(* builds from the set it had, which it takes out.                         *)
TermsCached(t) ==
  LET me == thread[t]
  IN /\ Ready(t, "terms_cached")
     /\ IF indexed[me.key] = me.seen THEN Ends(t) /\ LetsGo(t, {"terms_build"})
        ELSE /\ holds' = holds
             /\ Becomes(t, [me EXCEPT !.pc = IF me.lap = 1 THEN "terms_build" ELSE "live_load", !.lap = 3, !.seen = 0])
     /\ UNCHANGED <<commits, stamp, parsed, indexed, counts, used>>

TermsBuild(t) ==
  /\ Ready(t, "terms_build")
  /\ Keeps(t) /\ Becomes(t, [thread[t] EXCEPT !.pc = "live_cached", !.lap = 2, !.seen = stamp])
  /\ UNCHANGED <<commits, stamp, parsed, indexed, counts, used>>

TermsTake(t) ==
  /\ Ready(t, "terms_take")
  /\ indexed' = [indexed EXCEPT ![thread[t].key] = Absent]
  /\ Goto(t, "terms_insert")
  /\ UNCHANGED <<commits, stamp, parsed, counts, used, holds>>

TermsInsert(t) ==
  /\ Ready(t, "terms_insert")
  /\ indexed' = [indexed EXCEPT ![thread[t].key] = thread[t].seen]
  /\ Keeps(t) /\ Becomes(t, [thread[t] EXCEPT !.pc = "evict_terms", !.seen = 0])
  /\ UNCHANGED <<commits, stamp, parsed, counts, used>>

EvictTerms(t) ==
  LET colder == Coldest(CachedIn(indexed), thread[t].key)
  IN /\ Ready(t, "evict_terms")
     /\ IF Cardinality(CachedIn(indexed)) > CacheCap /\ colder # {}
        THEN \E w \in colder : indexed' = [indexed EXCEPT ![w] = Absent] /\ UNCHANGED <<holds, thread>>
        ELSE indexed' = indexed /\ LetsGo(t, {"terms", "terms_build"}) /\ Ends(t)
     /\ UNCHANGED <<commits, stamp, parsed, counts, used>>

-----------------------------------------------------------------------------
(* A write, one thread at a time: the commit, then the generation, then    *)
(* the live sets that were one behind; or a workspace forgotten, which     *)
(* commits only when there was something to forget.                        *)
TakeWrites(t) ==
  /\ Ready(t, "write")
  /\ Keeps(t) /\ Goto(t, "commit")
  /\ UNCHANGED <<commits, stamp, parsed, indexed, counts, used>>

CommitWrite(t) ==
  /\ Ready(t, "commit")
  /\ \/ commits' = commits + 1 /\ Goto(t, "bump")
     \/ thread[t].op = "forget" /\ commits' = commits /\ Goto(t, "forget_live")
  /\ UNCHANGED <<stamp, parsed, indexed, counts, used, holds>>

BumpStamp(t) ==
  /\ Ready(t, "bump")
  /\ stamp' = stamp + 1
  /\ IF thread[t].op = "write" THEN Becomes(t, [thread[t] EXCEPT !.pc = "patch", !.seen = stamp + 1]) ELSE Goto(t, "forget_live")
  /\ UNCHANGED <<commits, parsed, indexed, counts, used, holds>>

Patch(t) ==
  LET me == thread[t]
      behind == {w \in Names : parsed[w] + 1 = me.seen /\ parsed[w] # Absent}
  IN /\ Ready(t, "patch")
     /\ parsed' = [w \in Names |-> IF w \in behind THEN me.seen ELSE parsed[w]]
     /\ used' = IF me.key \in behind THEN Noted(me.key) ELSE used
     /\ LetsGo(t, {"writes"}) /\ Ends(t)
     /\ UNCHANGED <<commits, stamp, indexed, counts>>

ForgetLive(t) ==
  /\ Ready(t, "forget_live")
  /\ parsed' = [parsed EXCEPT ![thread[t].key] = Absent]
  /\ Goto(t, "forget_terms")
  /\ UNCHANGED <<commits, stamp, indexed, counts, used, holds>>

ForgetTerms(t) ==
  /\ Ready(t, "forget_terms")
  /\ indexed' = [indexed EXCEPT ![thread[t].key] = Absent]
  /\ Goto(t, "forget_counts")
  /\ UNCHANGED <<commits, stamp, parsed, counts, used, holds>>

ForgetCounts(t) ==
  /\ Ready(t, "forget_counts")
  /\ counts' = [counts EXCEPT ![thread[t].key] = NoCount]
  /\ Goto(t, "forget_used")
  /\ UNCHANGED <<commits, stamp, parsed, indexed, used, holds>>

ForgetUsed(t) ==
  /\ Ready(t, "forget_used")
  /\ used' = Unnamed({thread[t].key})
  /\ LetsGo(t, {"writes"}) /\ Ends(t)
  /\ UNCHANGED <<commits, stamp, parsed, indexed, counts>>

-----------------------------------------------------------------------------
LocksInit ==
  /\ commits = 0 /\ stamp = 0
  /\ parsed = [w \in Names |-> Absent] /\ indexed = [w \in Names |-> Absent]
  /\ counts = [w \in Names |-> NoCount]
  /\ used = [w \in Names |-> 0]
  /\ holds = [t \in Threads |-> {}]
  /\ thread = [t \in Threads |-> Resting]

LocksNext == \E t \in Threads :
  \/ Ask(t)
  \/ CountsCached(t) \/ CountsBuild(t) \/ CountsSeen(t) \/ CountsScan(t) \/ CountsInsert(t)
  \/ EvictCounts(t) \/ DropLiveLock(t) \/ DropCountOnly(t) \/ CountsOut(t)
  \/ LiveLoad(t) \/ LiveCached(t) \/ LiveCheck(t) \/ LiveInsert(t)
  \/ EvictCached(t) \/ EvictTermsOf(t) \/ EvictCountsOf(t)
  \/ TermsCached(t) \/ TermsBuild(t) \/ TermsTake(t) \/ TermsInsert(t) \/ EvictTerms(t)
  \/ TakeWrites(t) \/ CommitWrite(t) \/ BumpStamp(t) \/ Patch(t)
  \/ ForgetLive(t) \/ ForgetTerms(t) \/ ForgetCounts(t) \/ ForgetUsed(t)

LocksSpec == LocksInit /\ [][LocksNext]_lockVars

-----------------------------------------------------------------------------
(* Who keeps a thread from its lock: whoever holds it the other way, and,  *)
(* for a reader, whoever waits to write it and came first.                 *)
KeptBy(t) ==
  LET wanted == Wants(thread[t].pc)
  IN {u \in Threads : \E held \in holds[u] : Conflict(wanted, held)}
     \cup {u \in Threads \ {t} : wanted[2] = "r" /\ Wants(thread[u].pc) = <<wanted[1], "w">> /\ ~Gets(u)}

(* No set of threads waits for one another, each holding what the next     *)
(* wants (the locks are taken live, terms, counts; store.rs,               *)
(* drop_count_only: "The counts lock is not held").                        *)
NoCircle ==
  \A circle \in (SUBSET Threads) \ {{}} : \E t \in circle : KeptBy(t) \cap circle = {}

(* A status counts every write answered before it was asked, whoever       *)
(* counted it and whatever landed while they did (store.rs, counts:        *)
(* "recomputed when a write moved it").                                    *)
CountsAreFresh ==
  \A t \in Threads : thread[t].pc = "counts_out" => thread[t].saw >= thread[t].floor

(* The counts kept of workspaces leave with their parsed sets, so a cache  *)
(* at rest is within the cap in each of its three maps.                    *)
AtRest == \A t \in Threads : thread[t].pc = "idle"
CachesHoldTheirCap ==
  AtRest => \A kept \in {CachedIn(parsed), CachedIn(indexed), Counted} : Cardinality(kept) <= CacheCap

LocksInv ==
  /\ NoCircle
  /\ CountsAreFresh
  /\ CachesHoldTheirCap
=============================================================================
