------------------------------ MODULE AtomLife ------------------------------
(***************************************************************************)
(* The records of one workspace under the verbs of the write service       *)
(* (service.rs) and the proposals beside them (proposals.rs): posting,     *)
(* updating, grading, firing, deleting, forgetting, consolidating, the     *)
(* sweep for neglect, the live cap, and accepting a proposal.              *)
(*                                                                         *)
(* Every verb runs under the `writes` mutex, so a step is what happens     *)
(* between two commits: a post is one commit and its live cap another, and *)
(* an accept appends its mark after both.  The process may stop between    *)
(* them.  The store and the proposal file survive a stop; the shapes do    *)
(* not.  Which records are read is SnapshotCache's subject: here a verb    *)
(* reads what is committed.  Links are LinkGraph's.                        *)
(***************************************************************************)
EXTENDS AtomRules, FiniteSetsExt

CONSTANTS
  Ids,           \* the record ids of the workspace
  Posts,         \* the bodies clients post: functions from field names
  Edits,         \* the fields updates set: functions from field names
  Proposals,     \* proposal ids
  Mined,         \* the texts a miner proposes
  LiveCap,       \* most live claims kept; zero is no cap
  Holds,         \* what PACKSET_HOLD_AGENT_WRITES may be
  MaxCalls       \* bound: calls that start

(* Missed reviews before an unused claim is forgotten.                     *)
NeglectLimit == 3

Reviews == [reps : Nat, recalls : Nat, used : Nat, neglected : Nat]

Provenances == [origin : 0..2, basis : 0..1]

ASSUME ConstantsAssumption ==
  /\ LiveCap \in Nat
  /\ Holds \subseteq BOOLEAN
  /\ MaxCalls \in Nat
  /\ Absent \notin Ids \cup Proposals \cup Provenances \cup Origins \cup {"neglect"}
  /\ Absent \notin Reviews

VARIABLES
  hold,       \* whether this service holds agent writes
  store,      \* id -> its record, or Absent
  shapes,     \* the shapes kept, by id
  shaped,     \* whether the live set was shaped once in this process
  swept,      \* whether the sweep of the day is done
  proposals,  \* id -> the last line of the proposal, or Absent
  call,       \* the rest of the verb that holds `writes`
  answer,     \* what the post or accept that began last said is stored
  calls,      \* calls started
  past        \* per id, what happened to it; only properties read it

vars == <<hold, store, shapes, shaped, swept, proposals, call, answer, calls, past>>

memory == <<shapes, shaped, swept, call, answer>>

Idle == [step |-> "idle", proposal |-> Absent, id |-> Absent]

Stored   == {i \in Ids : store[i] # Absent}
ShownIds == {i \in Stored : Shown(store[i])}
LiveIds  == {i \in Stored : IsLive(store[i])}

(* A record, a field at a time: what a body leaves out is blank.           *)
Blank ==
  [id |-> Absent, text |-> <<>>, kind |-> "lesson", set |-> Absent,
   subject |-> Absent, entities |-> Absent, content |-> Absent,
   origin |-> Absent, basis |-> Absent, hook |-> FALSE, pinned |-> FALSE,
   supersedes |-> {}, floor |-> Absent, warnings |-> {}, tombstone |-> FALSE,
   forgotten |-> Absent, closed |-> FALSE, due |-> "none", review |-> Absent]

Over(a, fields) == [f \in DOMAIN a |-> IF f \in DOMAIN fields THEN fields[f] ELSE a[f]]

(* The kinds of value the code reads in the fields it decides by; one of   *)
(* another kind is taken for a missing one.                                *)
FieldsOK(a) ==
  /\ a.text \in Seq(STRING)
  /\ a.supersedes \subseteq Ids
  /\ a.origin \in Origins \cup {Absent}
  /\ a.floor \in Provenances \cup {Absent}
  /\ a.due \in {"none", "ahead", "due", "overdue"}
  /\ a.review \in Reviews \cup {Absent}
  /\ a.tombstone \in BOOLEAN /\ a.closed \in BOOLEAN
  /\ a.hook \in BOOLEAN /\ a.pinned \in BOOLEAN

(* What is posted, edited or mined: fields of those kinds, and a claim     *)
(* with words.                                                             *)
ASSUME BodiesAssumption ==
  /\ \A body \in Posts \cup Edits : FieldsOK(Over(Blank, body))
  /\ Mined \subseteq Seq(STRING) \ {<<>>}

-----------------------------------------------------------------------------
(* History.  lowest: the lowest provenance since the record was made or    *)
(* last accepted.  recalled: whether it ever was, since its text was       *)
(* posted or its review given by a client.  edited: whether a client wrote *)
(* over it under its id.                                                   *)

NoPast == [lowest |-> [origin |-> 2, basis |-> 1],
           recalled |-> FALSE, edited |-> FALSE]

Sank(p, a) == [p EXCEPT !.lowest = Lower(@, Provenance(a))]

-----------------------------------------------------------------------------
(* Shapes.  A write drops the shapes of records no longer shown, and       *)
(* shapes the whole live set the first time this process writes.           *)

NoShapes == <<>>

Unshaped(kept, gone) == [i \in DOMAIN kept \ gone |-> kept[i]]

Reconciled == Unshaped(shapes, DOMAIN shapes \ ShownIds)

(* The shape under an id is the one first made of it.                      *)
KeptShape(kept, a) == IF a.id \in DOMAIN kept THEN kept[a.id] ELSE ShapeOf(a)

ShapedOnce ==
  IF shaped THEN Reconciled
  ELSE [i \in ShownIds |-> KeptShape(Reconciled, store[i])]

WithShape(kept, a) ==
  [i \in DOMAIN kept \cup {a.id} |-> IF i = a.id THEN KeptShape(kept, a) ELSE kept[i]]

(* The peers of the same set the new claim could replace or repeat, found  *)
(* by the postings of the kept shapes.  A peer that shares six tenths of   *)
(* the tokens is on one of the shortest lists, so every one of those is    *)
(* among them; walking a list finds others too, which the rules turn down. *)
Candidates(a, kept) ==
  LET shape == ShapeOf(a)
  IN {i \in ShownIds :
        /\ store[i].set = a.set
        /\ \/ i \in a.supersedes
           \/ /\ i \in DOMAIN kept
              /\ \/ kept[i].tokens \cap shape.tokens # {}
                 \/ kept[i].entities \cap shape.entities # {}}

-----------------------------------------------------------------------------
(* The sweep.  A claim left due for more than twice its interval lapses;   *)
(* the third miss of a forgettable one that was never recalled and is not  *)
(* used forgets it.                                                        *)

Misses(a) == IF a.review = Absent THEN 0 ELSE a.review.neglected

Forgotten(a, why) == [a EXCEPT !.tombstone = TRUE, !.forgotten = why]

(* Mutant: one sign of neglect is enough.                                  *)
NeglectedByOne(a) ==
  /\ \/ Misses(a) + 1 >= NeglectLimit
     \/ Recalls(a) = 0
     \/ a.review = Absent \/ a.review.used = 0
  /\ a.kind \in ForgettableKinds
  /\ ~a.pinned

Neglected(a) ==
  /\ Misses(a) + 1 >= NeglectLimit
  /\ Recalls(a) = 0
  /\ a.review = Absent \/ a.review.used = 0
  /\ a.kind \in ForgettableKinds
  /\ ~a.pinned

(* Mutant: the due date is read without the tombstone.                     *)
LapsesDue(a) == a.due = "overdue" /\ a.kind \notin UnreviewedKinds

Lapses(a) == Shown(a) /\ a.due = "overdue" /\ a.kind \notin UnreviewedKinds

Swept(a) ==
  IF ~Lapses(a) THEN a
  ELSE IF Neglected(a) THEN Forgotten(a, "neglect")
  ELSE [ScheduleReview(a, "lapsed") EXCEPT !.review.neglected = Misses(a) + 1]

Sweep ==
  /\ call = Idle
  /\ store' = [i \in Ids |-> IF i \in Stored THEN Swept(store[i]) ELSE Absent]
  /\ shapes' = Unshaped(shapes, {i \in ShownIds : store'[i].tombstone})
  /\ swept' = TRUE
  /\ UNCHANGED <<hold, shaped, proposals, call, answer, calls, past>>

-----------------------------------------------------------------------------
(* A post.                                                                 *)

(* The record a body becomes: checked, named, and without a floor.         *)
Prepared(body, id) ==
  [Validated(Over(Blank, body)) EXCEPT !.id = id, !.floor = Absent, !.tombstone = FALSE]

Retired(id) == store[id] # Absent /\ store[id].tombstone

(* The open proposal that is this write again.                             *)
SameHold(p, a) ==
  /\ p # Absent
  /\ p.status = "open"
  /\ p.body # Absent
  /\ p.body.text = a.text
  /\ p.body.origin = a.origin
  /\ p.body.hook = a.hook
  /\ p.body.kind = a.kind

Filed(text, body, flagged) ==
  [status |-> "open", text |-> text, body |-> body, atom |-> Absent, flagged |-> flagged]

(* A claim that must wait for an accept is filed, once.                    *)
Hold(a) ==
  /\ IF \E q \in Proposals : SameHold(proposals[q], a)
     THEN UNCHANGED proposals
     ELSE \E q \in Proposals :
            /\ proposals[q] = Absent
            /\ proposals' = [proposals EXCEPT ![q] = Filed(a.text, a, FALSE)]
  /\ answer' = Absent
  /\ UNCHANGED <<store, shapes, shaped, call, past>>

(* The live record already says it.  An accept raises its origin; a plain  *)
(* post is answered with it.                                               *)
Repeat(a, existing, kept, accepted, proposal) ==
  LET raised == [store[existing] EXCEPT !.origin = a.origin, !.hook = FALSE,
                                        !.warnings = @ \cup a.warnings]
  IN /\ store' = IF accepted THEN [store EXCEPT ![existing] = raised] ELSE store
     /\ past' = IF accepted
                THEN [past EXCEPT ![existing].lowest = Provenance(raised)]
                ELSE past
     /\ shapes' = kept
     /\ shaped' = TRUE
     /\ answer' = [id |-> existing, text |-> a.text]
     /\ call' = IF accepted
                THEN [step |-> "mark", proposal |-> proposal, id |-> existing]
                ELSE Idle
     /\ UNCHANGED proposals

(* The new claim as it is stored: its provenance held to that of what it   *)
(* writes over, naming what it replaces, on the review clock.              *)
Dated(a, over, closed, accepted) ==
  LET held  == IF over # Absent /\ ~accepted THEN HoldProvenance(over, a) ELSE a
      named == [held EXCEPT !.supersedes = @ \cup closed]
  IN IF IsLive(a) /\ a.kind \notin UnreviewedKinds /\ a.due = "none"
     THEN ScheduleReview(named, "initial")
     ELSE named

(* A new claim, or a new text under an old id.  The claims it replaces are *)
(* closed in the same commit, each put after it.                           *)
StoreNew(a, kept, cands, accepted, proposal) ==
  LET over   == store[a.id]
      closed == {i \in cands : /\ IsLive(a)
                               /\ ReplacesShaped(a, ShapeOf(a), store[i], KeptShape(kept, store[i]))}
      stored == [store EXCEPT ![a.id] = Dated(a, over, closed, accepted)]
  IN /\ store' = [i \in Ids |->
                    IF i \in closed THEN [store[i] EXCEPT !.closed = TRUE] ELSE stored[i]]
     /\ shapes' = Unshaped(WithShape(kept, a), closed)
     /\ shaped' = TRUE
     /\ answer' = [id |-> a.id, text |-> a.text]
     /\ call' = [step |-> "cap", proposal |-> proposal, id |-> a.id]
     /\ past' = [past EXCEPT ![a.id] =
                   IF over = Absent \/ accepted
                   THEN [NoPast EXCEPT !.lowest = Provenance(store'[a.id]), !.edited = over # Absent]
                   ELSE Sank([NoPast EXCEPT !.lowest = past[a.id].lowest, !.edited = TRUE], store'[a.id])]
     /\ UNCHANGED proposals

AddPrepared(a, accepted, proposal) ==
  LET kept  == ShapedOnce
      cands == Candidates(a, kept)
      same  == {i \in cands : SameClaim(store[i], a)}
  IN /\ ~Retired(a.id)
     /\ IF NeedsAccept(a.origin, a.hook, hold)
        THEN Hold(a)
        ELSE IF same # {}
             THEN \E i \in same : Repeat(a, i, kept, accepted, proposal)
             ELSE StoreNew(a, kept, cands, accepted, proposal)

(* A call of a client while no other verb holds the mutex.                 *)
Called ==
  /\ call = Idle
  /\ calls < MaxCalls
  /\ calls' = calls + 1

(* POST /v1/atoms.  The sweep of the day goes first, under a hold of       *)
(* `writes` of its own; Sweep stands for it.                               *)
Post(body, id) ==
  /\ Called
  /\ swept
  /\ Valid(Over(Blank, body))
  /\ AddPrepared(Prepared(body, id), FALSE, Absent)
  /\ UNCHANGED <<hold, swept>>

(* The write that crossed the cap forgets the least retrievable of what it *)
(* may.  Which those are is arithmetic left out: any of them.              *)
Expendable == {i \in ShownIds : store[i].kind \in ForgettableKinds /\ ~store[i].pinned}

Excess ==
  LET shown == Cardinality(ShownIds)
  IN IF LiveCap = 0 \/ shown <= LiveCap THEN 0 ELSE shown - LiveCap

EnforceCap ==
  /\ call.step = "cap"
  /\ \E gone \in SUBSET Expendable :
       /\ Cardinality(gone) = Min({Excess, Cardinality(Expendable)})
       /\ store' = [i \in Ids |->
                      IF i \in gone THEN Forgotten(store[i], "the live cap") ELSE store[i]]
       /\ shapes' = Unshaped(shapes, gone)
  /\ call' = IF call.proposal = Absent THEN Idle ELSE [call EXCEPT !.step = "mark"]
  /\ UNCHANGED <<hold, shaped, swept, proposals, answer, calls, past>>

-----------------------------------------------------------------------------
(* Proposals.                                                              *)

(* A miner files a claim the live set does not already say.  It does not   *)
(* wait for the mutex.                                                     *)
Propose(text) ==
  /\ calls < MaxCalls
  /\ \A i \in ShownIds : store[i].text # text
  /\ \E q \in Proposals, flagged \in BOOLEAN :
       /\ proposals[q] = Absent
       /\ proposals' = [proposals EXCEPT ![q] = Filed(text, Absent, flagged)]
  /\ calls' = calls + 1
  /\ UNCHANGED <<hold, store, memory, past>>

(* The atom an open proposal becomes: the one that waited, or a derived    *)
(* lesson.  Accept is the rise to the person's origin.                     *)
Accepted(p, id) ==
  LET base == IF p.body = Absent THEN Over(Blank, [text |-> p.text]) ELSE p.body
      risen == Prepared([base EXCEPT !.origin = "user-declared", !.hook = FALSE], id)
  IN IF p.flagged THEN [risen EXCEPT !.warnings = @ \cup {"extractAccept"}] ELSE risen

(* An open proposal is stored, and marked once that is done.  A mined      *)
(* claim has a new id each time it is stored.                              *)
Accept(q, id) ==
  LET p == proposals[q]
  IN /\ Called
     /\ p # Absent
     /\ p.status = "open"
     /\ IF p.body = Absent THEN store[id] = Absent ELSE id = p.body.id
     /\ AddPrepared(Accepted(p, id), TRUE, q)
     /\ UNCHANGED <<hold, swept>>

(* Accepting what was accepted answers with the atom it became and writes  *)
(* nothing, while that atom is there.                                      *)
AcceptAgain(q) ==
  LET p == proposals[q]
  IN /\ Called
     /\ p # Absent
     /\ p.status = "accepted"
     /\ store[p.atom] # Absent
     /\ answer' = [id |-> p.atom, text |-> store[p.atom].text]
     /\ UNCHANGED <<hold, store, shapes, shaped, swept, proposals, call, past>>

MarkAccepted ==
  /\ call.step = "mark"
  /\ proposals' = [proposals EXCEPT ![call.proposal].status = "accepted",
                                    ![call.proposal].atom = call.id]
  /\ call' = Idle
  /\ UNCHANGED <<hold, store, shapes, shaped, swept, answer, calls, past>>

-----------------------------------------------------------------------------
(* The other verbs.  Each needs the record to be shown.                    *)

(* The fields land on the stored record under its id; the kept shape of    *)
(* the record stays.                                                       *)
Updated(stored, fields) ==
  HoldProvenance(stored,
    Validated([Over(stored, fields) EXCEPT !.id = stored.id, !.tombstone = FALSE]))

Update(id, fields) ==
  /\ Called
  /\ id \in ShownIds
  /\ Valid(Over(store[id], fields))
  /\ store' = [store EXCEPT ![id] = Updated(@, fields)]
  /\ past' = [past EXCEPT ![id] =
                 [Sank(past[id], store'[id]) EXCEPT
                    !.edited = TRUE,
                    !.recalled = @ /\ "review" \notin DOMAIN fields]]
  /\ answer' = Absent
  /\ UNCHANGED <<hold, shapes, shaped, swept, proposals, call>>

(* A review moves the clock by an update of its own, and a recall promotes *)
(* the claim.                                                              *)
Graded(a, grade) ==
  LET next == ScheduleReview(a, grade)
      fields == [due |-> next.due, review |-> next.review]
  IN IF grade = "recalled"
     THEN Updated(a, [due |-> next.due, review |-> next.review, entities |-> PromotedEntities(a)])
     ELSE Updated(a, fields)

Grade(id, grade) ==
  /\ Called
  /\ id \in ShownIds
  /\ store' = [store EXCEPT ![id] = Graded(@, grade)]
  /\ past' = [past EXCEPT ![id].recalled = @ \/ grade = "recalled"]
  /\ answer' = Absent
  /\ UNCHANGED <<hold, shapes, shaped, swept, proposals, call>>

(* A fire that is not held counts one use of each claim that has a review. *)
Fire(ids) ==
  /\ Called
  /\ ids # {}
  /\ store' = [i \in Ids |->
                 IF i \in ids \cap ShownIds /\ store[i].review # Absent
                 THEN [store[i] EXCEPT !.review.used = @ + 1]
                 ELSE store[i]]
  /\ answer' = Absent
  /\ UNCHANGED <<hold, shapes, shaped, swept, proposals, call, past>>

Delete(id) ==
  /\ Called
  /\ id \in ShownIds
  /\ store' = [store EXCEPT ![id].tombstone = TRUE]
  /\ shapes' = Unshaped(shapes, {id})
  /\ answer' = Absent
  /\ UNCHANGED <<hold, shaped, swept, proposals, call, past>>

(* The keys go; the tombstones stay, and their ids stay retired.           *)
Forget ==
  /\ Called
  /\ store' = [i \in Ids |-> IF Retired(i) THEN store[i] ELSE Absent]
  /\ shapes' = NoShapes
  /\ shaped' = FALSE
  /\ swept' = FALSE
  /\ past' = [i \in Ids |-> IF Retired(i) THEN past[i] ELSE NoPast]
  /\ answer' = Absent
  /\ UNCHANGED <<hold, proposals, call>>

(* Claims that share the first words or a declared entity are compared.    *)
Near(a, b) ==
  \/ Len(a.text) >= HeadMin /\ SharedHead(a.text, b.text) >= HeadMin
  \/ /\ a.entities # Absent
     /\ b.entities # Absent
     /\ a.entities \cap b.entities # {}

(* Over what is held, in the order it was written: a live claim that       *)
(* replaces an earlier one still open closes it.  A writer may send the    *)
(* time of a claim, so any order is one they were written in.              *)
Closers(j, order) ==
  {i \in LiveIds : /\ order[j] < order[i]
                   /\ Near(store[i], store[j])
                   /\ Replaces(store[i], store[j])}

Outlived(order) == {j \in LiveIds : Closers(j, order) # {}}

(* The first of them closes it, and names it.                              *)
Closer(j, order) ==
  CHOOSE i \in Closers(j, order) : \A k \in Closers(j, order) : order[i] <= order[k]

Survived(i, order) == {j \in Outlived(order) : Closer(j, order) = i}

Consolidate(order) ==
  LET closed  == Outlived(order)
      Shut(i) == IF i \in closed THEN [store[i] EXCEPT !.closed = TRUE] ELSE store[i]
  IN /\ Called
     /\ closed # {}
     /\ store' = [i \in Ids |->
                    IF Survived(i, order) = {} THEN Shut(i)
                    ELSE [Shut(i) EXCEPT !.supersedes = @ \cup Survived(i, order),
                                         !.entities = PromotedEntities(store[i])]]
     /\ answer' = Absent
     /\ UNCHANGED <<hold, shapes, shaped, swept, proposals, call, past>>

-----------------------------------------------------------------------------
(* The clock, a stop of the process, and a crowded shape map.              *)

(* Bound: the clock stops for a claim missed as often as the limit, which  *)
(* only a recalled, used or pinned one is.                                 *)
Age(id) ==
  /\ id \in Stored
  /\ ~store[id].tombstone
  /\ store[id].due \in {"ahead", "due"}
  /\ Misses(store[id]) < NeglectLimit
  /\ store' = [store EXCEPT ![id].due = IF @ = "ahead" THEN "due" ELSE "overdue"]
  /\ UNCHANGED <<hold, proposals, memory, calls, past>>

NewDay ==
  /\ swept
  /\ swept' = FALSE
  /\ UNCHANGED <<hold, store, shapes, shaped, proposals, call, answer, calls, past>>

Crash ==
  /\ call' = Idle
  /\ shapes' = NoShapes
  /\ shaped' = FALSE
  /\ swept' = FALSE
  /\ answer' = Absent
  /\ UNCHANGED <<hold, store, proposals, calls, past>>

(* Mutant: the workspace is still taken for shaped.                        *)
EvictShapesOnly ==
  /\ call = Idle
  /\ shaped
  /\ shapes' = NoShapes
  /\ UNCHANGED <<hold, store, shaped, swept, proposals, call, answer, calls, past>>

(* Another workspace's write drops this one's shapes to keep to the cap.   *)
EvictShapes ==
  /\ call = Idle
  /\ shaped
  /\ shapes' = NoShapes
  /\ shaped' = FALSE
  /\ UNCHANGED <<hold, store, swept, proposals, call, answer, calls, past>>

-----------------------------------------------------------------------------
Init ==
  /\ hold \in Holds
  /\ store = [i \in Ids |-> Absent]
  /\ shapes = NoShapes
  /\ shaped = FALSE
  /\ swept = FALSE
  /\ proposals = [q \in Proposals |-> Absent]
  /\ call = Idle
  /\ answer = Absent
  /\ calls = 0
  /\ past = [i \in Ids |-> NoPast]

Orders == {o \in [Ids -> 1..Cardinality(Ids)] : \A i, j \in Ids : i # j => o[i] # o[j]}

Next ==
  \/ \E body \in Posts, id \in Ids : Post(body, id)
  \/ EnforceCap
  \/ \E text \in Mined : Propose(text)
  \/ \E q \in Proposals, id \in Ids : Accept(q, id)
  \/ \E q \in Proposals : AcceptAgain(q)
  \/ MarkAccepted
  \/ \E id \in Ids, fields \in Edits : Update(id, fields)
  \/ \E id \in Ids, grade \in {"recalled", "lapsed"} : Grade(id, grade)
  \/ \E ids \in SUBSET Ids : Fire(ids)
  \/ \E id \in Ids : Delete(id)
  \/ Forget
  \/ \E order \in Orders : Consolidate(order)
  \/ Sweep
  \/ \E id \in Ids : Age(id)
  \/ NewDay
  \/ Crash
  \/ EvictShapes

Spec == Init /\ [][Next]_vars

-----------------------------------------------------------------------------
(* Properties.                                                             *)

RecordOK(a) ==
  /\ DOMAIN a = DOMAIN Blank
  /\ FieldsOK(a)
  /\ a.id \in Ids
  /\ a.text # <<>>
  /\ a.origin \in Origins

TypeOK ==
  /\ DOMAIN store = Ids
  /\ \A i \in Ids : store[i] # Absent => RecordOK(store[i]) /\ store[i].id = i
  /\ DOMAIN shapes \subseteq Ids
  /\ \A i \in DOMAIN shapes : shapes[i].gate \subseteq shapes[i].entities
  /\ hold \in BOOLEAN /\ shaped \in BOOLEAN /\ swept \in BOOLEAN
  /\ \A q \in Proposals :
       proposals[q] # Absent => proposals[q].status \in {"open", "accepted"}
  /\ call.step \in {"idle", "cap", "mark"}
  /\ answer # Absent => answer.id \in Ids
  /\ calls \in 0..MaxCalls
  /\ \A i \in Ids : past[i].lowest \in Provenances

(* What was withdrawn stays withdrawn, as it was, through every later post,*)
(* accept, update, sweep, cap and forget of its workspace, and through a   *)
(* stop: the check for a retired id and what a forget leaves behind.       *)
RetiredForever ==
  [][\A i \in Ids : Retired(i) => store'[i] = store[i]]_vars

(* A record's floor is never above what it has stood on since it was made  *)
(* or a person accepted it, however its origin was raised since.           *)
FloorHolds ==
  \A i \in Stored :
    LET floor == Floor(store[i])
    IN /\ floor.origin <= past[i].lowest.origin
       /\ floor.basis <= past[i].lowest.basis

(* No step forgets for neglect a claim that a review has recalled,         *)
(* whatever lapses came between.                                           *)
NeglectIsEarned ==
  [][\A i \in Stored :
       /\ store[i].forgotten # "neglect"
       /\ Retired(i)' /\ store'[i].forgotten = "neglect"
       => ~past[i].recalled]_vars

(* Two live records say one claim only after a client wrote over one of    *)
(* them: a retry, an accept after a stop, a restart, an eviction of the    *)
(* shapes or a post in another set never stores a claim twice.             *)
DuplicatesComeFromEdits ==
  \A i, j \in LiveIds :
    i # j /\ SameClaim(store[i], store[j]) => past[i].edited \/ past[j].edited

(* A held write is live only once a person accepted it, or after an update.*)
NothingHeldIsLive ==
  hold =>
    \A i \in LiveIds :
      store[i].hook \/ store[i].origin = "agent-derived" => past[i].edited

(* One write waits as one proposal, however often it is posted.            *)
OneOpenPerHold ==
  \A q, r \in Proposals :
    q # r /\ proposals[q] # Absent /\ proposals[q].body # Absent
      /\ proposals[q].status = "open"
    => ~SameHold(proposals[r], proposals[q].body)

(* What holds of the records and the proposals at every point: no claim is *)
(* live that waits for a person, and none waits twice.                     *)
Inv ==
  /\ TypeOK
  /\ NothingHeldIsLive
  /\ OneOpenPerHold

=============================================================================
