----------------------------- MODULE LiveIndex -----------------------------
(***************************************************************************)
(* The copies of one workspace a search reads (store.rs): the parsed       *)
(* records, the shown copies with their links cut to what is live, the     *)
(* vectors lifted out of them, and the word index with its statistics      *)
(* (bm25.rs).  None is built again for a write: each is patched, and each  *)
(* has to come to what a scan of the database would give.                  *)
(*                                                                         *)
(* Who may run beside whom, and what is cached under which generation, is  *)
(* SnapshotCache's; here one call runs at a time, and no window opens or   *)
(* closes with time.  A text is the words it holds, each as often as it    *)
(* holds them.                                                             *)
(***************************************************************************)
EXTENDS Integers, FiniteSets, SequencesExt

CONSTANTS
  Ids,       \* in the order of the database's keys
  Words,
  Texts,     \* sequences of words
  Vectors,
  LinkSets,  \* the links a client's record may carry
  MaxWrites, \* bound: the writes there are
  None

ASSUME LiveIndexAssumption ==
  /\ Ids \subseteq Nat /\ LinkSets \subseteq SUBSET Ids
  /\ Texts \subseteq Seq(Words) /\ None \notin Vectors /\ MaxWrites \in Nat

VARIABLES
  disk,   \* id -> its record, or None
  snap,   \* the snapshot in the cache, or None
  terms,  \* the index in the cache, or None
  found,  \* the answer of the last search: word -> the ids given for it
  writes

indexVars == <<disk, snap, terms, found, writes>>

-----------------------------------------------------------------------------
(* A record: shown while it is live or due; a tombstone never is.          *)
Records ==
  [id : Ids, text : Texts, links : SUBSET Ids, state : {"shown", "closed", "tombstone"},
   vector : Vectors \cup {None}]

Shown(rec) == rec.state = "shown"

Present(recs) == {recs[k].id : k \in DOMAIN recs}
At(recs, i)   == CHOOSE k \in DOMAIN recs : recs[k].id = i

Cut(rec, live) == [rec EXCEPT !.links = @ \cap live]
CutLinks(rec, live) == rec.links \ live

(* A record without its vector, and the vector.                            *)
Lean(rec) == [rec EXCEPT !.vector = None]

(* What a scan gives, in the order of the keys.                            *)
Scan ==
  LET ids == SetToSortSeq({i \in Ids : disk[i] # None /\ Shown(disk[i])}, <)
  IN [k \in DOMAIN ids |-> disk[ids[k]]]

ShownFrom(stored) == [k \in DOMAIN stored |-> Cut(stored[k], Present(stored))]
Dangling(stored)  == UNION {CutLinks(stored[k], Present(stored)) : k \in DOMAIN stored}
LeanOf(recs)      == [k \in DOMAIN recs |-> Lean(recs[k])]

Built ==
  LET stored == LeanOf(Scan)
  IN [stored   |-> stored,
      shown    |-> ShownFrom(stored),
      dangling |-> Dangling(stored),
      vectors  |-> [i \in Ids |-> IF i \in Present(stored) THEN disk[i].vector ELSE None]]

-----------------------------------------------------------------------------
(* One write folded into the snapshot.                                     *)

StoredWith(stored, rec) ==
  CASE Shown(rec) /\ rec.id \in Present(stored) -> [stored EXCEPT ![At(stored, rec.id)] = Lean(rec)]
    [] Shown(rec) /\ rec.id \notin Present(stored) -> Append(stored, Lean(rec))
    [] ~Shown(rec) -> SelectSeq(stored, LAMBDA r : r.id # rec.id)

(* The shown copies and the dangling names, one written record at a time;  *)
(* `moved` collects who arrived where a link waited, or left.              *)
ShownWith(sofar, rec, live) ==
  LET i  == rec.id
      in == i \in Present(sofar.shown)
  IN IF i \in live
     THEN [shown    |-> IF in THEN [sofar.shown EXCEPT ![At(sofar.shown, i)] = Cut(Lean(rec), live)]
                        ELSE Append(sofar.shown, Cut(Lean(rec), live)),
           dangling |-> (sofar.dangling \cup CutLinks(rec, live)) \ (IF in THEN {} ELSE {i}),
           moved    |-> sofar.moved \cup (IF ~in /\ i \in sofar.dangling \cup CutLinks(rec, live)
                                          THEN {i} ELSE {})]
     ELSE [shown    |-> SelectSeq(sofar.shown, LAMBDA r : r.id # i),
           dangling |-> sofar.dangling \cup {i},
           moved    |-> sofar.moved \cup {i}]

\* Mutant: only what left is looked for in the links of the others.
NamersLeft(stored, moved) ==
  {k \in DOMAIN stored : stored[k].links \cap (moved \ Present(stored)) # {}}

(* The records that name an id that moved are cut again.                   *)
Namers(stored, moved) == {k \in DOMAIN stored : stored[k].links \cap moved # {}}

Recut(sofar, stored) ==
  LET live  == Present(stored)
      again == Namers(stored, sofar.moved)
      Of(i) == CHOOSE k \in DOMAIN stored : stored[k].id = i
  IN [shown    |-> [k \in DOMAIN sofar.shown |->
                      IF Of(sofar.shown[k].id) \in again
                      THEN Cut(stored[Of(sofar.shown[k].id)], live) ELSE sofar.shown[k]],
      dangling |-> sofar.dangling \cup UNION {CutLinks(stored[k], live) : k \in again}]

Patched(old, written) ==
  LET stored == FoldLeft(StoredWith, old.stored, written)
      live   == Present(stored)
      folded == FoldLeft(LAMBDA sofar, rec : ShownWith(sofar, rec, live),
                         [shown |-> old.shown, dangling |-> old.dangling, moved |-> {}], written)
      recut  == Recut(folded, stored)
  IN [stored   |-> stored,
      shown    |-> recut.shown,
      dangling |-> recut.dangling,
      vectors  |-> FoldLeft(LAMBDA vs, rec :
                              [vs EXCEPT ![rec.id] = IF Shown(rec) THEN rec.vector ELSE None],
                            old.vectors, written)]

-----------------------------------------------------------------------------
(* The index: where each word is and how often, and the counts the scores  *)
(* read.                                                                   *)

Frequency(text, w) == Cardinality({k \in DOMAIN text : text[k] = w})

Empty ==
  [postings |-> [w \in Words |-> {}], lengths |-> <<>>, total |-> 0,
   occurrences |-> [w \in Words |-> 0]]

Push(index, text) ==
  LET ordinal == Len(index.lengths) + 1
  IN [postings    |-> [w \in Words |->
                         IF Frequency(text, w) = 0 THEN index.postings[w]
                         ELSE index.postings[w] \cup {<<ordinal, Frequency(text, w)>>}],
      lengths     |-> Append(index.lengths, Len(text)),
      total       |-> index.total + Len(text),
      occurrences |-> [w \in Words |-> index.occurrences[w] + Frequency(text, w)]]

BuildIndex(texts) == FoldLeft(Push, Empty, texts)

Saturating(n) == IF n < 0 THEN 0 ELSE n

Replace(index, ordinal, old, new) ==
  [postings    |-> [w \in Words |->
                      {p \in index.postings[w] : ~(p[1] = ordinal /\ Frequency(old, w) > 0)}
                        \cup (IF Frequency(new, w) = 0 THEN {} ELSE {<<ordinal, Frequency(new, w)>>})],
   lengths     |-> [index.lengths EXCEPT ![ordinal] = Len(new)],
   total       |-> Saturating(index.total - index.lengths[ordinal]) + Len(new),
   occurrences |-> [w \in Words |->
                      Saturating(index.occurrences[w] - Frequency(old, w)) + Frequency(new, w)]]

(* The index kept from the last search, over the set shown now: usable     *)
(* where the records it was built over are still the first, in order.  The *)
(* text is its hash.                                                       *)
Extends(print, shown) ==
  /\ Len(print) <= Len(shown)
  /\ \A k \in DOMAIN print : print[k].id = shown[k].id

Reindexed(old, shown) ==
  LET TextAt(k) == shown[k].text
      replaced == FoldLeft(LAMBDA index, k :
                             IF old.print[k].text = TextAt(k) THEN index
                             ELSE Replace(index, k, old.print[k].text, TextAt(k)),
                           old.index, [k \in DOMAIN old.print |-> k])
  IN FoldLeft(LAMBDA index, k : Push(index, TextAt(k)), replaced,
              [k \in 1..(Len(shown) - Len(old.print)) |-> Len(old.print) + k])

Fingerprint(shown) == [k \in DOMAIN shown |-> [id |-> shown[k].id, text |-> shown[k].text]]

Indexed(shown) ==
  [current |-> TRUE,
   print   |-> Fingerprint(shown),
   index   |-> IF terms # None /\ Extends(terms.print, shown) THEN Reindexed(terms, shown)
               ELSE BuildIndex([k \in DOMAIN shown |-> shown[k].text])]

(* What a word adds to a document's score is a function of how often and   *)
(* in how long a text it occurs, against the index's counts, and is here   *)
(* those numbers: for a document of the index, and for a card beside it.   *)
TermScore(index, w, count, length) ==
  [count |-> count, length |-> length, holding |-> Cardinality(index.postings[w]),
   documents |-> Len(index.lengths), total |-> index.total, all |-> index.occurrences[w]]

ScoreIndexed(index, w, ordinal) ==
  {TermScore(index, w, p[2], index.lengths[ordinal]) : p \in {q \in index.postings[w] : q[1] = ordinal}}

ScoreForeign(index, w, text) ==
  IF index.lengths = <<>> \/ Frequency(text, w) = 0 THEN {}
  ELSE {TermScore(index, w, Frequency(text, w), Len(text))}

(* Every document that holds the word, by its ordinal's record.            *)
Score(index, shown, w) == {shown[p[1]].id : p \in {q \in index.postings[w] : q[1] \in DOMAIN shown}}

-----------------------------------------------------------------------------
(* A write says its vector, clears it, or leaves it to what is stored.     *)
Payloads ==
  [id : Ids, text : Texts, links : LinkSets, state : {"shown", "closed", "tombstone"},
   vector : Vectors \cup {None, "unsaid"}]

KeepStored(p) ==
  IF p.vector # "unsaid" THEN p
  ELSE [p EXCEPT !.vector = IF disk[p.id] = None THEN None ELSE disk[p.id].vector]

UpsertMany(payloads) ==
  LET written == [k \in DOMAIN payloads |-> KeepStored(payloads[k])]
  IN /\ writes < MaxWrites
     /\ writes' = writes + 1
     /\ disk' = FoldLeft(LAMBDA d, rec : [d EXCEPT ![rec.id] = rec], disk, written)
     /\ snap' = IF snap = None THEN None ELSE Patched(snap, written)
     /\ terms' = IF terms = None THEN None ELSE [terms EXCEPT !.current = FALSE]
     /\ UNCHANGED found

Upsert(p) == p.id \notin p.links /\ UpsertMany(<<p>>)

(* Two claims that fire: both rewritten as the cache has them, which is    *)
(* without the vector, each naming the other.                              *)
Fire(i, j) ==
  /\ snap # None /\ {i, j} \subseteq Present(snap.shown) /\ i < j
  /\ LET Rewritten(a, b) == [snap.shown[At(snap.shown, a)] EXCEPT !.links = @ \cup {b},
                                                                  !.vector = "unsaid"]
     IN UpsertMany(<<Rewritten(i, j), Rewritten(j, i)>>)

(* searchable, and the search over what it gives.                          *)
Searchable ==
  LET now == IF snap = None THEN Built ELSE snap
      set == IF terms # None /\ terms.current /\ Len(terms.print) = Len(now.shown) THEN terms
             ELSE Indexed(now.shown)
  IN /\ snap' = now
     /\ terms' = set
     /\ found' = [w \in Words |-> Score(set.index, now.shown, w)]
     /\ UNCHANGED <<disk, writes>>

(* The snapshot leaves the cache for another workspace's, with its index.  *)
Evict == snap # None /\ snap' = None /\ terms' = None /\ UNCHANGED <<disk, found, writes>>

ForgetWorkspace ==
  /\ writes < MaxWrites
  /\ writes' = writes + 1
  /\ disk' = [i \in Ids |-> IF disk[i] # None /\ disk[i].state = "tombstone" THEN disk[i] ELSE None]
  /\ snap' = None /\ terms' = None
  /\ UNCHANGED found

IndexInit ==
  /\ disk = [i \in Ids |-> None]
  /\ snap = None /\ terms = None
  /\ found = [w \in Words |-> {}]
  /\ writes = 0

IndexNext ==
  \/ \E p \in Payloads : Upsert(p)
  \/ \E i, j \in Ids : Fire(i, j)
  \/ Searchable
  \/ Evict
  \/ ForgetWorkspace

-----------------------------------------------------------------------------
IndexTypeOK ==
  /\ \A i \in Ids : disk[i] # None => disk[i] \in Records /\ disk[i].id = i
  /\ snap # None => Cardinality(Present(snap.shown)) = Len(snap.shown)

(* A snapshot is what a scan would give, whatever writes were folded into  *)
(* it, in what order: the same records, each with the links to the others  *)
(* shown and the vector the database has, and every link that was cut is   *)
(* remembered for the day its target arrives (patch_shown: "Equal to       *)
(* shown_from(stored)"; patch_live: "the result equals a fresh scan").     *)
SnapshotIsAScan ==
  snap # None =>
    /\ ToSet(snap.stored) = ToSet(Built.stored)
    /\ ToSet(snap.shown) = ToSet(Built.shown)
    /\ Built.dangling \subseteq snap.dangling
    /\ snap.vectors = Built.vectors

(* An index that is taken for current is the one a build over the set      *)
(* shown would give, counts and all, though it was patched through         *)
(* rewrites, departures and arrivals; and a search finds the shown claims  *)
(* whose text holds the word, each by its own ordinal.                     *)
IndexIsABuild ==
  terms # None /\ terms.current /\ snap # None =>
    /\ terms.index = BuildIndex([k \in DOMAIN snap.shown |-> snap.shown[k].text])
    /\ \A w \in Words :
         found[w] = {i \in Ids : disk[i] # None /\ Shown(disk[i]) /\ Frequency(disk[i].text, w) > 0}

(* A card beside the index is scored the way its documents are (bm25.rs,   *)
(* score_foreign_weighted_by: "so a card ranked beside atoms is scored the *)
(* way they are"): a claim's text, scored as a card's, weighs what the     *)
(* postings say, however the index was patched.                            *)
CardsScoreAsClaims ==
  terms # None /\ terms.current /\ snap # None =>
    \A k \in DOMAIN snap.shown, w \in Words :
      ScoreForeign(terms.index, w, snap.shown[k].text) = ScoreIndexed(terms.index, w, k)

CopiesAreTrue == SnapshotIsAScan /\ IndexIsABuild /\ CardsScoreAsClaims

=============================================================================
