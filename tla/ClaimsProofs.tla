---------------------------- MODULE ClaimsProofs ----------------------------
(***************************************************************************)
(* The claims and their proposals, for any ids, bodies, edits and cap, and *)
(* every set of claims and threads and number of writes and stops. Of      *)
(* AtomLife: what is retired stays as it was, a floor is never above what  *)
(* its record has stood on, nothing recalled is forgotten for neglect, a   *)
(* held write is live only once accepted, and no claim is stored twice. Of *)
(* ProposalLog: LogInv is inductive, and so always holds. Of LinkGraph:    *)
(* links between live claims are in both records and within the bound.     *)
(***************************************************************************)
EXTENDS AtomLife, ProposalLog, LinkGraph, RecursionLemmas, FiniteSetTheorems, TLAPS

(***************************************************************************)
(* AtomLife. The rules of one record come first: what each returns, field  *)
(* by field. Then each action, and what it does to each conjunct of        *)
(* LifeInv.                                                                *)
(***************************************************************************)

Fields == {"id", "text", "kind", "set", "subject", "entities", "content",
           "origin", "basis", "hook", "pinned", "supersedes", "floor", "warnings",
           "tombstone", "forgotten", "closed", "due", "review"}

-----------------------------------------------------------------------------
(* The rules of one record.                                                *)

LEMMA BlankFields ==
  /\ DOMAIN Blank = Fields
  /\ Blank.text = <<>> /\ Blank.supersedes = {} /\ Blank.origin = Absent
  /\ Blank.floor = Absent /\ Blank.due = "none" /\ Blank.review = Absent
  /\ Blank.tombstone = FALSE /\ Blank.closed = FALSE
  /\ Blank.hook = FALSE /\ Blank.pinned = FALSE
  BY DEF Blank, Fields

LEMMA ProvenanceType ==
  ASSUME NEW a
  PROVE  /\ Provenance(a) \in Provenances
         /\ Provenance(a) = [origin |-> OriginRank(a.origin), basis |-> BasisRank(a.basis)]
<1>1. OriginRank(a.origin) \in 0..2
  BY DEF OriginRank
<1>2. BasisRank(a.basis) \in 0..1
  BY DEF BasisRank
<1> QED
  BY <1>1, <1>2 DEF Provenance, Provenances

(* One provenance is at most another.                                      *)
AtMost(p, q) == p.origin <= q.origin /\ p.basis <= q.basis

LEMMA LowerIsLower ==
  ASSUME NEW p \in Provenances, NEW q \in Provenances
  PROVE  /\ Lower(p, q) \in Provenances
         /\ AtMost(Lower(p, q), p) /\ AtMost(Lower(p, q), q)
         /\ \A r \in Provenances : AtMost(r, p) /\ AtMost(r, q) => AtMost(r, Lower(p, q))
  BY DEF Lower, Provenances, AtMost

LEMMA AtMostOrder ==
  ASSUME NEW p \in Provenances, NEW q \in Provenances, NEW r \in Provenances
  PROVE  AtMost(p, p) /\ (AtMost(p, q) /\ AtMost(q, r) => AtMost(p, r))
  BY DEF Provenances, AtMost

LEMMA FloorType ==
  ASSUME NEW a, a.floor \in Provenances \cup {Absent}
  PROVE  Floor(a) \in Provenances /\ AtMost(Floor(a), Provenance(a))
  BY ProvenanceType, LowerIsLower, AtMostOrder DEF Floor

(* What is the same in a record and in what a write that is not an edit    *)
(* makes of it.                                                            *)
SameBody(a, b) ==
  /\ b.id = a.id /\ b.text = a.text /\ b.kind = a.kind /\ b.set = a.set
  /\ b.subject = a.subject /\ b.origin = a.origin /\ b.basis = a.basis
  /\ b.hook = a.hook /\ b.tombstone = a.tombstone /\ b.closed = a.closed

LEMMA HoldProvenanceIs ==
  ASSUME NEW s, NEW a, DOMAIN a = Fields, s.floor \in Provenances \cup {Absent},
         Absent \notin Provenances
  PROVE  LET h == HoldProvenance(s, a)
         IN /\ DOMAIN h = Fields
            /\ SameBody(a, h)
            /\ h.pinned = a.pinned /\ h.supersedes = a.supersedes
            /\ h.due = a.due /\ h.review = a.review /\ h.forgotten = a.forgotten
            /\ h.entities = a.entities
            /\ h.floor \in Provenances \cup {Absent}
            /\ AtMost(Floor(h), Floor(s))
            /\ AtMost(Floor(h), Provenance(h))
<1> DEFINE h == HoldProvenance(s, a)
           next == Provenance(a)
           rises == (IF next.origin > Provenance(s).origin THEN {"origin raised"} ELSE {})
                    \cup (IF next.basis > Provenance(s).basis THEN {"basis raised"} ELSE {})
           floor == IF s.floor # Absent \/ next # Provenance(s)
                    THEN Lower(Floor(s), next) ELSE Absent
<1>1. h = [a EXCEPT !.warnings = @ \cup rises, !.floor = floor]
  BY DEF HoldProvenance
<1>2. /\ DOMAIN h = Fields
      /\ h.floor = floor
      /\ \A f \in Fields \ {"warnings", "floor"} : h[f] = a[f]
  BY <1>1 DEF Fields
<1>3. SameBody(a, h) /\ h.pinned = a.pinned /\ h.supersedes = a.supersedes
      /\ h.due = a.due /\ h.review = a.review /\ h.forgotten = a.forgotten
      /\ h.entities = a.entities
  BY <1>2 DEF SameBody, Fields
<1>4. Provenance(h) = next
  BY <1>3 DEF SameBody, Provenance
<1>5. next \in Provenances /\ Provenance(s) \in Provenances /\ Floor(s) \in Provenances
      /\ AtMost(Floor(s), Provenance(s))
  BY ProvenanceType, FloorType
<1>6. floor \in Provenances \cup {Absent}
  BY <1>5, LowerIsLower
<1>7. CASE s.floor # Absent \/ next # Provenance(s)
  <2>1. floor = Lower(Floor(s), next)
    BY <1>7
  <2>2. floor \in Provenances /\ AtMost(floor, Floor(s)) /\ AtMost(floor, next)
    BY <2>1, <1>5, LowerIsLower
  <2>3. Floor(h) = Lower(floor, next)
    BY <2>2, <1>2, <1>4 DEF Floor
  <2>4. Floor(h) \in Provenances /\ AtMost(Floor(h), floor) /\ AtMost(Floor(h), next)
    BY <2>2, <2>3, <1>5, LowerIsLower
  <2> HIDE DEF h, next, rises, floor
  <2>5. AtMost(Floor(h), Floor(s))
    BY <2>2, <2>4, <1>5, AtMostOrder
  <2> QED
    BY <2>4, <2>5, <1>2, <1>3, <1>4, <1>6 DEF h
<1>8. CASE ~(s.floor # Absent \/ next # Provenance(s))
  <2>1. Floor(h) = next /\ Floor(s) = next
    BY <1>8, <1>2, <1>4 DEF Floor
  <2>2. AtMost(next, next)
    BY <1>5, AtMostOrder
  <2> HIDE DEF h, next, rises, floor
  <2> QED
    BY <2>1, <2>2, <1>2, <1>3, <1>4, <1>6 DEF h
<1> QED
  BY <1>7, <1>8

LEMMA ScheduleReviewIs ==
  ASSUME NEW a, DOMAIN a = Fields, a.review \in Reviews \cup {Absent},
         NEW grade \in {"lapsed", "recalled", "initial"},
         Absent \notin Reviews
  PROVE  LET s == ScheduleReview(a, grade)
         IN /\ DOMAIN s = Fields
            /\ SameBody(a, s)
            /\ s.pinned = a.pinned /\ s.supersedes = a.supersedes
            /\ s.floor = a.floor /\ s.forgotten = a.forgotten
            /\ s.due = "ahead" /\ s.review \in Reviews
            /\ Recalls(s) >= Recalls(a) /\ (grade = "recalled" => Recalls(s) > 0)
<1> DEFINE s == ScheduleReview(a, grade)
           previous == IF a.review = Absent THEN NoReview ELSE a.review
<1>1. previous \in Reviews /\ previous.recalls = Recalls(a) /\ Recalls(a) \in Nat
  BY DEF NoReview, Reviews, Recalls
<1>2. /\ Reviewed(a.review, grade) \in Reviews
      /\ Reviewed(a.review, grade).recalls >= Recalls(a)
      /\ grade = "recalled" => Reviewed(a.review, grade).recalls > 0
  <2> HIDE DEF previous
  <2>1. CASE grade = "lapsed"
    <3>1. Reviewed(a.review, grade) = [NoReview EXCEPT !.recalls = previous.recalls]
      BY <2>1 DEF Reviewed, previous
    <3>2. Reviewed(a.review, grade)
            = [reps |-> 0, recalls |-> previous.recalls, used |-> 0, neglected |-> 0]
      BY <3>1 DEF NoReview
    <3> QED
      BY <1>1, <2>1, <3>2 DEF Reviews
  <2>2. CASE grade = "recalled"
    <3>1. Reviewed(a.review, grade)
            = [NoReview EXCEPT !.reps = previous.reps + 1, !.recalls = previous.recalls + 1]
      BY <2>2 DEF Reviewed, previous
    <3>2. Reviewed(a.review, grade)
            = [reps |-> previous.reps + 1, recalls |-> previous.recalls + 1,
               used |-> 0, neglected |-> 0]
      BY <3>1 DEF NoReview
    <3>3. previous.reps \in Nat /\ previous.recalls \in Nat
      BY <1>1 DEF Reviews
    <3> QED
      BY <1>1, <2>2, <3>2, <3>3 DEF Reviews
  <2>3. CASE grade = "initial"
    <3>1. Reviewed(a.review, grade) = previous
      BY <2>3 DEF Reviewed, previous
    <3> QED
      BY <1>1, <2>3, <3>1
  <2> QED
    BY <2>1, <2>2, <2>3
<1>3. /\ DOMAIN s = Fields
      /\ s.review = Reviewed(a.review, grade) /\ s.due = "ahead"
      /\ \A f \in Fields \ {"review", "due"} : s[f] = a[f]
  BY DEF ScheduleReview, Fields
<1>4. Recalls(s) = Reviewed(a.review, grade).recalls
  BY <1>2, <1>3 DEF Recalls
<1>5. SameBody(a, s)
  BY <1>3 DEF SameBody, Fields
<1>6. s.pinned = a.pinned /\ s.supersedes = a.supersedes /\ s.floor = a.floor
      /\ s.forgotten = a.forgotten
  BY <1>3 DEF Fields
<1> QED
  BY <1>2, <1>3, <1>4, <1>5, <1>6

LEMMA OverIs ==
  ASSUME NEW a, DOMAIN a = Fields, NEW fields
  PROVE  /\ DOMAIN Over(a, fields) = Fields
         /\ \A f \in Fields : Over(a, fields)[f] = IF f \in DOMAIN fields THEN fields[f] ELSE a[f]
  BY DEF Over

(* What is written over a record one field at a time has the kinds of      *)
(* values the two have.                                                    *)
LEMMA OverFieldsOK ==
  ASSUME NEW a, DOMAIN a = Fields, FieldsOK(a),
         NEW fields, FieldsOK(Over(Blank, fields))
  PROVE  FieldsOK(Over(a, fields))
<1> DEFINE b == Over(Blank, fields)
           o == Over(a, fields)
<1>1. \A f \in Fields : o[f] = IF f \in DOMAIN fields THEN fields[f] ELSE a[f]
  BY OverIs
<1>2. \A f \in Fields : b[f] = IF f \in DOMAIN fields THEN fields[f] ELSE Blank[f]
  BY OverIs, BlankFields
<1>3. \A f \in Fields : o[f] = b[f] \/ o[f] = a[f]
  BY <1>1, <1>2
<1>4. FieldsOK(b)
  OBVIOUS
<1> HIDE DEF o, b
<1>5. /\ o.text \in {b.text, a.text} /\ o.supersedes \in {b.supersedes, a.supersedes}
      /\ o.origin \in {b.origin, a.origin} /\ o.floor \in {b.floor, a.floor}
      /\ o.due \in {b.due, a.due} /\ o.review \in {b.review, a.review}
  BY <1>3 DEF Fields
<1>6. /\ o.tombstone \in {b.tombstone, a.tombstone} /\ o.closed \in {b.closed, a.closed}
      /\ o.hook \in {b.hook, a.hook} /\ o.pinned \in {b.pinned, a.pinned}
  BY <1>3 DEF Fields
<1>7. /\ o.text \in Seq(STRING) /\ o.supersedes \subseteq Ids
      /\ o.origin \in Origins \cup {Absent} /\ o.floor \in Provenances \cup {Absent}
      /\ o.due \in {"none", "ahead", "due", "overdue"} /\ o.review \in Reviews \cup {Absent}
  BY <1>4, <1>5 DEF FieldsOK
<1>8. o.tombstone \in BOOLEAN /\ o.closed \in BOOLEAN /\ o.hook \in BOOLEAN /\ o.pinned \in BOOLEAN
  BY <1>4, <1>6 DEF FieldsOK
<1>9. FieldsOK(o)
  BY <1>7, <1>8 DEF FieldsOK
<1> QED
  BY <1>9 DEF o

(* A checked record: every field but the labels as it was, with an origin. *)
LEMMA ValidatedIs ==
  ASSUME NEW a, DOMAIN a = Fields, a.origin \in Origins \cup {Absent}
  PROVE  LET v == Validated(a)
         IN /\ DOMAIN v = Fields
            /\ v.origin \in Origins /\ (a.origin # Absent => v.origin = a.origin)
            /\ \A f \in Fields \ {"origin", "warnings"} : v[f] = a[f]
  BY DEF Validated, Fields, Origins

(* The record of a body, as it is before it is stored.                     *)
IsPrepared(a, id) ==
  /\ RecordOK(a) /\ a.id = id
  /\ a.floor = Absent /\ a.tombstone = FALSE

LEMMA PreparedIs ==
  ASSUME NEW body, FieldsOK(Over(Blank, body)), Over(Blank, body).text # <<>>,
         NEW id \in Ids
  PROVE  LET a == Prepared(body, id)
         IN /\ IsPrepared(a, id)
            /\ \A f \in Fields \ {"origin", "warnings", "id", "floor", "tombstone"} :
                 a[f] = Over(Blank, body)[f]
            /\ Over(Blank, body).origin # Absent => a.origin = Over(Blank, body).origin
<1> DEFINE b == Over(Blank, body)
           v == Validated(b)
           a == Prepared(body, id)
<1>1. DOMAIN b = Fields
  BY OverIs, BlankFields
<1>2. FieldsOK(b) /\ b.text # <<>>
  OBVIOUS
<1> HIDE DEF b
<1>3. b.origin \in Origins \cup {Absent}
  BY <1>2 DEF FieldsOK
<1>4. /\ DOMAIN v = Fields
      /\ v.origin \in Origins /\ (b.origin # Absent => v.origin = b.origin)
      /\ \A f \in Fields \ {"origin", "warnings"} : v[f] = b[f]
  BY <1>1, <1>3, ValidatedIs
<1>5. a = [v EXCEPT !.id = id, !.floor = Absent, !.tombstone = FALSE]
  BY DEF Prepared, b
<1> HIDE DEF v, a
<1>6. /\ DOMAIN a = Fields
      /\ a.id = id /\ a.floor = Absent /\ a.tombstone = FALSE
      /\ \A f \in Fields \ {"id", "floor", "tombstone"} : a[f] = v[f]
  BY <1>4, <1>5 DEF Fields
<1>7. \A f \in Fields \ {"origin", "warnings", "id", "floor", "tombstone"} : a[f] = b[f]
  BY <1>4, <1>6
<1>8. a.origin = v.origin
  BY <1>6 DEF Fields
<1>9. /\ a.text = b.text /\ a.supersedes = b.supersedes /\ a.due = b.due
      /\ a.review = b.review /\ a.closed = b.closed /\ a.hook = b.hook /\ a.pinned = b.pinned
  BY <1>7 DEF Fields
<1>10. FieldsOK(a)
  BY <1>2, <1>4, <1>6, <1>8, <1>9 DEF FieldsOK
<1>11. RecordOK(a)
  BY <1>2, <1>4, <1>6, <1>8, <1>9, <1>10, BlankFields DEF RecordOK
<1> QED
  BY <1>4, <1>6, <1>7, <1>8, <1>11 DEF IsPrepared, a, b

(* A whole record written over a blank one is itself.                      *)
LEMMA OverWhole ==
  ASSUME NEW b, DOMAIN b = Fields, FieldsOK(b)
  PROVE  /\ DOMAIN Over(Blank, b) = Fields /\ FieldsOK(Over(Blank, b))
         /\ \A f \in Fields : Over(Blank, b)[f] = b[f]
<1> DEFINE o == Over(Blank, b)
<1>1. DOMAIN o = Fields /\ \A f \in Fields : o[f] = b[f]
  BY OverIs, BlankFields
<1> HIDE DEF o
<1>2. /\ o.text = b.text /\ o.supersedes = b.supersedes /\ o.origin = b.origin
      /\ o.floor = b.floor /\ o.due = b.due /\ o.review = b.review
      /\ o.tombstone = b.tombstone /\ o.closed = b.closed /\ o.hook = b.hook
      /\ o.pinned = b.pinned
  BY <1>1 DEF Fields
<1>3. FieldsOK(o)
  BY <1>2 DEF FieldsOK
<1> QED
  BY <1>1, <1>3 DEF o

LEMMA RecordFields ==
  ASSUME NEW a, RecordOK(a)
  PROVE  /\ DOMAIN a = Fields /\ FieldsOK(a)
         /\ a.floor \in Provenances \cup {Absent} /\ a.review \in Reviews \cup {Absent}
         /\ a.origin \in Origins /\ a.id \in Ids /\ a.text # <<>> /\ a.text \in Seq(STRING)
         /\ a.supersedes \subseteq Ids /\ a.tombstone \in BOOLEAN
  BY BlankFields DEF RecordOK, FieldsOK

LEMMA AbsentIs ==
  /\ Absent \notin Provenances /\ Absent \notin Reviews /\ Absent \notin Origins
  /\ Absent \notin Ids /\ Absent \notin Proposals /\ Absent # "neglect"
  BY ConstantsAssumption DEF ConstantsAssumption

(* A record with other values in some fields is one, when those values are *)
(* of their kinds.                                                         *)
LEMMA RecordFrom ==
  ASSUME NEW a, RecordOK(a), NEW b, DOMAIN b = Fields,
         b.id = a.id, b.text = a.text,
         b.supersedes \subseteq Ids, b.origin \in Origins,
         b.floor \in Provenances \cup {Absent},
         b.due \in {"none", "ahead", "due", "overdue"},
         b.review \in Reviews \cup {Absent},
         b.tombstone \in BOOLEAN, b.closed \in BOOLEAN, b.hook \in BOOLEAN, b.pinned \in BOOLEAN
  PROVE  RecordOK(b)
  BY RecordFields, BlankFields DEF RecordOK, FieldsOK

LEMMA UpdatedIs ==
  ASSUME NEW s, RecordOK(s), NEW fields, FieldsOK(Over(Blank, fields)),
         Over(s, fields).text # <<>>
  PROVE  LET u == Updated(s, fields)
             o == Over(s, fields)
         IN /\ RecordOK(u) /\ u.id = s.id /\ u.tombstone = FALSE
            /\ u.text = o.text /\ u.kind = o.kind /\ u.set = o.set /\ u.subject = o.subject
            /\ u.hook = o.hook /\ u.closed = o.closed /\ u.review = o.review
            /\ u.forgotten = o.forgotten
            /\ "origin" \notin DOMAIN fields => u.origin = s.origin
            /\ AtMost(Floor(u), Floor(s)) /\ AtMost(Floor(u), Provenance(u))
<1> DEFINE o == Over(s, fields)
           m == [o EXCEPT !.id = s.id, !.tombstone = FALSE]
           v == Validated(m)
           u == Updated(s, fields)
<1>1. DOMAIN s = Fields /\ FieldsOK(s) /\ s.floor \in Provenances \cup {Absent}
      /\ s.id \in Ids /\ s.origin \in Origins
  BY RecordFields
<1>2. DOMAIN o = Fields /\ FieldsOK(o)
      /\ ("origin" \notin DOMAIN fields => o.origin = s.origin)
  BY <1>1, OverIs, OverFieldsOK DEF Fields
<1>3. o.text # <<>>
  OBVIOUS
<1> HIDE DEF o
<1>4. /\ DOMAIN m = Fields /\ m.id = s.id /\ m.tombstone = FALSE
      /\ \A f \in Fields \ {"id", "tombstone"} : m[f] = o[f]
  BY <1>2 DEF Fields
<1> HIDE DEF m
<1>5. m.origin = o.origin /\ o.origin \in Origins \cup {Absent}
  BY <1>2, <1>4 DEF Fields, FieldsOK
<1>6. /\ DOMAIN v = Fields
      /\ v.origin \in Origins /\ (m.origin # Absent => v.origin = m.origin)
      /\ \A f \in Fields \ {"origin", "warnings"} : v[f] = m[f]
  BY <1>4, <1>5, ValidatedIs
<1>7. u = HoldProvenance(s, v)
  BY DEF Updated, v, m, o
<1> HIDE DEF v
<1>8. /\ DOMAIN u = Fields
      /\ SameBody(v, u)
      /\ u.pinned = v.pinned /\ u.supersedes = v.supersedes
      /\ u.due = v.due /\ u.review = v.review /\ u.forgotten = v.forgotten
      /\ u.floor \in Provenances \cup {Absent}
      /\ AtMost(Floor(u), Floor(s))
      /\ AtMost(Floor(u), Provenance(u))
  BY <1>1, <1>6, <1>7, AbsentIs, HoldProvenanceIs
<1> HIDE DEF u
<1>9. /\ v.id = s.id /\ v.tombstone = FALSE /\ v.text = o.text /\ v.kind = o.kind
      /\ v.set = o.set /\ v.subject = o.subject /\ v.hook = o.hook /\ v.closed = o.closed
      /\ v.review = o.review /\ v.forgotten = o.forgotten /\ v.pinned = o.pinned
      /\ v.supersedes = o.supersedes /\ v.due = o.due
  BY <1>4, <1>6 DEF Fields
<1>10. "origin" \notin DOMAIN fields => u.origin = s.origin
  BY <1>1, <1>2, <1>5, <1>6, <1>8, AbsentIs DEF SameBody
<1>11. /\ u.id = s.id /\ u.tombstone = FALSE /\ u.text = o.text /\ u.kind = o.kind
       /\ u.set = o.set /\ u.subject = o.subject /\ u.hook = o.hook /\ u.closed = o.closed
       /\ u.review = o.review /\ u.forgotten = o.forgotten /\ u.pinned = o.pinned
       /\ u.supersedes = o.supersedes /\ u.due = o.due /\ u.origin = v.origin
  BY <1>8, <1>9 DEF SameBody
<1>12. FieldsOK(u)
  BY <1>2, <1>6, <1>8, <1>11 DEF FieldsOK
<1>13. RecordOK(u)
  BY <1>1, <1>3, <1>6, <1>8, <1>11, <1>12, BlankFields DEF RecordOK
<1> QED
  BY <1>8, <1>10, <1>11, <1>13 DEF u, o

-----------------------------------------------------------------------------
(* What every write but an edit does to a record.  Waits: it is one a hold *)
(* keeps for a person.                                                     *)

Waits(a) == a.hook \/ a.origin = "agent-derived"

Continues(a, b) ==
  /\ RecordOK(b)
  /\ b.id = a.id /\ b.text = a.text /\ b.kind = a.kind /\ b.set = a.set
  /\ b.subject = a.subject
  /\ Waits(b) => Waits(a)
  /\ IsLive(b) => IsLive(a)
  /\ Recalls(b) >= Recalls(a)
  /\ a.tombstone => b = a
  /\ a.forgotten # "neglect" /\ b.forgotten = "neglect" => Recalls(a) = 0

(* The same, and it stands on no more than before.                         *)
Stands(a, b) == Continues(a, b) /\ AtMost(Floor(b), Floor(a))

LEMMA RecallsType ==
  ASSUME NEW a, RecordOK(a)
  PROVE  Recalls(a) \in Nat
  BY RecordFields DEF Recalls, Reviews

LEMMA StandsItself ==
  ASSUME NEW a, RecordOK(a)
  PROVE  Stands(a, a)
<1>1. Floor(a) \in Provenances
  BY RecordFields, FloorType
<1>2. AtMost(Floor(a), Floor(a))
  BY <1>1, AtMostOrder
<1>3. Recalls(a) >= Recalls(a)
  BY RecallsType
<1> QED
  BY <1>2, <1>3 DEF Stands, Continues

(* A record in which only the fields a standing is not read from change.   *)
LEMMA StandsWith ==
  ASSUME NEW a, RecordOK(a), ~a.tombstone,
         NEW b, RecordOK(b),
         b.id = a.id, b.text = a.text, b.kind = a.kind, b.set = a.set,
         b.subject = a.subject, b.origin = a.origin, b.basis = a.basis,
         b.hook = a.hook, b.floor = a.floor,
         IsLive(b) => IsLive(a),
         Recalls(b) >= Recalls(a),
         a.forgotten # "neglect" /\ b.forgotten = "neglect" => Recalls(a) = 0
  PROVE  Stands(a, b)
<1>1. Floor(a) \in Provenances
  BY RecordFields, FloorType
<1>2. Floor(b) = Floor(a)
  BY DEF Floor, Provenance
<1>3. AtMost(Floor(b), Floor(a))
  BY <1>1, <1>2, AtMostOrder
<1> QED
  BY <1>3 DEF Stands, Continues, Waits

(* A claim closed by another, or given another due date.                   *)
LEMMA ClosedStands ==
  ASSUME NEW a, RecordOK(a), ~a.tombstone
  PROVE  Stands(a, [a EXCEPT !.closed = TRUE])
<1> DEFINE b == [a EXCEPT !.closed = TRUE]
<1>1. DOMAIN a = Fields
  BY RecordFields
<1>2. DOMAIN b = Fields /\ b.closed = TRUE /\ \A f \in Fields \ {"closed"} : b[f] = a[f]
  BY <1>1 DEF Fields
<1> HIDE DEF b
<1>3. /\ b.id = a.id /\ b.text = a.text /\ b.kind = a.kind /\ b.set = a.set
      /\ b.subject = a.subject /\ b.origin = a.origin /\ b.basis = a.basis
      /\ b.hook = a.hook /\ b.floor = a.floor /\ b.review = a.review
      /\ b.forgotten = a.forgotten /\ b.supersedes = a.supersedes /\ b.due = a.due
      /\ b.tombstone = a.tombstone /\ b.pinned = a.pinned
  BY <1>2 DEF Fields
<1>4. RecordOK(b)
  BY <1>2, <1>3, RecordFields, RecordFrom DEF FieldsOK
<1>5. ~IsLive(b)
  BY <1>2 DEF IsLive
<1>6. Recalls(b) >= Recalls(a)
  BY <1>3, RecallsType DEF Recalls
<1>7. Stands(a, b)
  BY <1>3, <1>4, <1>5, <1>6, StandsWith
<1> QED
  BY <1>7 DEF b

LEMMA AgedStands ==
  ASSUME NEW a, RecordOK(a), ~a.tombstone, NEW due \in {"none", "ahead", "due", "overdue"}
  PROVE  Stands(a, [a EXCEPT !.due = due])
<1> DEFINE b == [a EXCEPT !.due = due]
<1>1. DOMAIN a = Fields
  BY RecordFields
<1>2. DOMAIN b = Fields /\ b.due = due /\ \A f \in Fields \ {"due"} : b[f] = a[f]
  BY <1>1 DEF Fields
<1> HIDE DEF b
<1>3. /\ b.id = a.id /\ b.text = a.text /\ b.kind = a.kind /\ b.set = a.set
      /\ b.subject = a.subject /\ b.origin = a.origin /\ b.basis = a.basis
      /\ b.hook = a.hook /\ b.floor = a.floor /\ b.review = a.review
      /\ b.forgotten = a.forgotten /\ b.supersedes = a.supersedes
      /\ b.tombstone = a.tombstone /\ b.pinned = a.pinned /\ b.closed = a.closed
  BY <1>2 DEF Fields
<1>4. RecordOK(b)
  BY <1>2, <1>3, RecordFields, RecordFrom DEF FieldsOK
<1>5. IsLive(b) => IsLive(a)
  BY <1>3 DEF IsLive
<1>6. Recalls(b) >= Recalls(a)
  BY <1>3, RecallsType DEF Recalls
<1>7. Stands(a, b)
  BY <1>3, <1>4, <1>5, <1>6, StandsWith
<1> QED
  BY <1>7 DEF b

(* A use counted in its review.                                            *)
LEMMA UsedStands ==
  ASSUME NEW a, RecordOK(a), ~a.tombstone, a.review # Absent
  PROVE  Stands(a, [a EXCEPT !.review.used = @ + 1])
<1> DEFINE r == [a.review EXCEPT !.used = @ + 1]
           b == [a EXCEPT !.review = r]
<1>1. DOMAIN a = Fields /\ a.review \in Reviews
  BY RecordFields
<1>2. r \in Reviews /\ r.recalls = a.review.recalls
  BY <1>1 DEF Reviews
<1>3. DOMAIN b = Fields /\ b.review = r /\ \A f \in Fields \ {"review"} : b[f] = a[f]
  BY <1>1 DEF Fields
<1>4. [a EXCEPT !.review.used = @ + 1] = b
  OBVIOUS
<1> HIDE DEF b, r
<1>5. /\ b.id = a.id /\ b.text = a.text /\ b.kind = a.kind /\ b.set = a.set
      /\ b.subject = a.subject /\ b.origin = a.origin /\ b.basis = a.basis
      /\ b.hook = a.hook /\ b.floor = a.floor /\ b.due = a.due
      /\ b.forgotten = a.forgotten /\ b.supersedes = a.supersedes
      /\ b.tombstone = a.tombstone /\ b.pinned = a.pinned /\ b.closed = a.closed
  BY <1>3 DEF Fields
<1>6. RecordOK(b)
  BY <1>2, <1>3, <1>5, RecordFields, RecordFrom DEF FieldsOK
<1>7. IsLive(b) => IsLive(a)
  BY <1>5 DEF IsLive
<1>8. Recalls(b) >= Recalls(a)
  BY <1>1, <1>2, <1>3, RecallsType, AbsentIs DEF Recalls
<1>9. Stands(a, b)
  BY <1>5, <1>6, <1>7, <1>8, StandsWith
<1> QED
  BY <1>4, <1>9

(* A withdrawn claim, for whatever reason but neglect.                     *)
LEMMA WithdrawnStands ==
  ASSUME NEW a, RecordOK(a), ~a.tombstone
  PROVE  /\ Stands(a, [a EXCEPT !.tombstone = TRUE])
         /\ \A why : (why = "neglect" => Recalls(a) = 0) => Stands(a, Forgotten(a, why))
         /\ \A why : Forgotten(a, why).tombstone
<1>1. DOMAIN a = Fields
  BY RecordFields
<1>2. ASSUME NEW b, DOMAIN b = Fields, b.tombstone = TRUE,
             \A f \in Fields \ {"tombstone", "forgotten"} : b[f] = a[f],
             a.forgotten # "neglect" /\ b.forgotten = "neglect" => Recalls(a) = 0
      PROVE  Stands(a, b)
  <2>1. /\ b.id = a.id /\ b.text = a.text /\ b.kind = a.kind /\ b.set = a.set
        /\ b.subject = a.subject /\ b.origin = a.origin /\ b.basis = a.basis
        /\ b.hook = a.hook /\ b.floor = a.floor /\ b.review = a.review /\ b.due = a.due
        /\ b.supersedes = a.supersedes /\ b.pinned = a.pinned /\ b.closed = a.closed
    BY <1>2 DEF Fields
  <2>2. RecordOK(b)
    BY <1>2, <2>1, RecordFields, RecordFrom DEF FieldsOK
  <2>3. ~IsLive(b)
    BY <1>2 DEF IsLive
  <2>4. Recalls(b) >= Recalls(a)
    BY <2>1, RecallsType DEF Recalls
  <2> QED
    BY <1>2, <2>1, <2>2, <2>3, <2>4, StandsWith
<1>3. Stands(a, [a EXCEPT !.tombstone = TRUE])
  <2> DEFINE b == [a EXCEPT !.tombstone = TRUE]
  <2>1. DOMAIN b = Fields /\ b.tombstone = TRUE /\ b.forgotten = a.forgotten
        /\ \A f \in Fields \ {"tombstone", "forgotten"} : b[f] = a[f]
    BY <1>1 DEF Fields
  <2> HIDE DEF b
  <2>2. Stands(a, b)
    BY <1>2, <2>1
  <2> QED
    BY <2>2 DEF b
<1>4. ASSUME NEW why
      PROVE  /\ (why = "neglect" => Recalls(a) = 0) => Stands(a, Forgotten(a, why))
             /\ Forgotten(a, why).tombstone
  <2> DEFINE b == Forgotten(a, why)
  <2>1. DOMAIN b = Fields /\ b.tombstone = TRUE /\ b.forgotten = why
        /\ \A f \in Fields \ {"tombstone", "forgotten"} : b[f] = a[f]
    BY <1>1 DEF Forgotten, Fields
  <2> HIDE DEF b
  <2>2. (why = "neglect" => Recalls(a) = 0) => Stands(a, b)
    BY <1>2, <2>1
  <2> QED
    BY <2>1, <2>2 DEF b
<1> QED
  BY <1>3, <1>4

(* What the sweep makes of a record.                                       *)
LEMMA SweptStands ==
  ASSUME NEW a, RecordOK(a)
  PROVE  Stands(a, Swept(a))
<1>1. CASE ~Lapses(a)
  BY <1>1, StandsItself DEF Swept
<1>2. CASE Lapses(a) /\ Neglected(a)
  <2>1. ~a.tombstone /\ Recalls(a) = 0
    BY <1>2 DEF Lapses, Shown, Neglected
  <2>2. Swept(a) = Forgotten(a, "neglect")
    BY <1>2 DEF Swept
  <2> QED
    BY <2>1, <2>2, WithdrawnStands
<1>3. CASE Lapses(a) /\ ~Neglected(a)
  <2> DEFINE s == ScheduleReview(a, "lapsed")
             b == [s EXCEPT !.review.neglected = Misses(a) + 1]
  <2>1. ~a.tombstone /\ DOMAIN a = Fields /\ a.review \in Reviews \cup {Absent}
    BY <1>3, RecordFields DEF Lapses, Shown
  <2>2. /\ DOMAIN s = Fields
        /\ SameBody(a, s)
        /\ s.pinned = a.pinned /\ s.supersedes = a.supersedes
        /\ s.floor = a.floor /\ s.forgotten = a.forgotten
        /\ s.due = "ahead" /\ s.review \in Reviews
        /\ Recalls(s) >= Recalls(a)
    BY <2>1, AbsentIs, ScheduleReviewIs
  <2>3. Misses(a) + 1 \in Nat
    BY <2>1 DEF Misses, Reviews
  <2>4. Swept(a) = b
    BY <1>3 DEF Swept
  <2> HIDE DEF s
  <2> DEFINE r == [s.review EXCEPT !.neglected = Misses(a) + 1]
  <2>5. r \in Reviews /\ r.recalls = s.review.recalls
    BY <2>2, <2>3 DEF Reviews
  <2>6. b = [s EXCEPT !.review = r]
    OBVIOUS
  <2>7. DOMAIN b = Fields /\ b.review = r /\ \A f \in Fields \ {"review"} : b[f] = s[f]
    BY <2>2, <2>6 DEF Fields
  <2> HIDE DEF b, r
  <2>8. /\ b.id = a.id /\ b.text = a.text /\ b.kind = a.kind /\ b.set = a.set
        /\ b.subject = a.subject /\ b.origin = a.origin /\ b.basis = a.basis
        /\ b.hook = a.hook /\ b.floor = a.floor /\ b.due = "ahead"
        /\ b.forgotten = a.forgotten /\ b.supersedes = a.supersedes
        /\ b.tombstone = a.tombstone /\ b.pinned = a.pinned /\ b.closed = a.closed
    BY <2>2, <2>7 DEF Fields, SameBody
  <2>9. RecordOK(b)
    BY <2>5, <2>7, <2>8, RecordFields, RecordFrom DEF FieldsOK
  <2>10. IsLive(b) => IsLive(a)
    BY <2>8 DEF IsLive
  <2>11. Recalls(b) = Recalls(s)
    BY <2>2, <2>5, <2>7, AbsentIs DEF Recalls
  <2>12. Stands(a, b)
    BY <2>1, <2>2, <2>8, <2>9, <2>10, <2>11, StandsWith
  <2> QED
    BY <2>4, <2>12
<1> QED
  BY <1>1, <1>2, <1>3

(* A graded claim: only its due date, its review and, once recalled, its   *)
(* entities are written.                                                   *)
LEMMA GradedStands ==
  ASSUME NEW a, RecordOK(a), ~a.tombstone, NEW grade \in {"recalled", "lapsed"}
  PROVE  /\ Stands(a, Graded(a, grade))
         /\ grade = "recalled" => Recalls(Graded(a, grade)) > 0
<1> DEFINE next == ScheduleReview(a, grade)
           g == Graded(a, grade)
<1>1. DOMAIN a = Fields /\ a.review \in Reviews \cup {Absent} /\ FieldsOK(a)
      /\ grade \in {"lapsed", "recalled", "initial"}
  BY RecordFields
<1>2. /\ next.due = "ahead" /\ next.review \in Reviews
      /\ Recalls(next) >= Recalls(a) /\ (grade = "recalled" => Recalls(next) > 0)
  BY <1>1, AbsentIs, ScheduleReviewIs
<1> HIDE DEF next
<1>3. ASSUME NEW fields, DOMAIN fields \subseteq {"due", "review", "entities"},
             {"due", "review"} \subseteq DOMAIN fields,
             fields.due = "ahead", fields.review = next.review,
             g = Updated(a, fields)
      PROVE  Stands(a, g) /\ (grade = "recalled" => Recalls(g) > 0)
  <2> DEFINE o == Over(a, fields)
             w == Over(Blank, fields)
  <2>1. /\ DOMAIN o = Fields
        /\ o.review = next.review
        /\ \A f \in Fields \ {"due", "review", "entities"} : o[f] = a[f]
    BY <1>1, <1>3, OverIs DEF Fields
  <2>2. /\ DOMAIN w = Fields
        /\ w.due = "ahead" /\ w.review = next.review
        /\ \A f \in Fields \ {"due", "review", "entities"} : w[f] = Blank[f]
    BY <1>3, OverIs, BlankFields DEF Fields
  <2> HIDE DEF o, w
  <2>3. /\ w.text = <<>> /\ w.supersedes = {} /\ w.origin = Absent /\ w.floor = Absent
        /\ w.tombstone = FALSE /\ w.closed = FALSE /\ w.hook = FALSE /\ w.pinned = FALSE
    BY <2>2, BlankFields DEF Fields
  <2>4. FieldsOK(w)
    <3>1. <<>> \in Seq(STRING)
      OBVIOUS
    <3> QED
      BY <1>2, <2>2, <2>3, <3>1 DEF FieldsOK
  <2>5. /\ o.text = a.text /\ o.kind = a.kind /\ o.set = a.set /\ o.subject = a.subject
        /\ o.hook = a.hook /\ o.closed = a.closed /\ o.forgotten = a.forgotten
    BY <2>1 DEF Fields
  <2>6. o.text # <<>>
    BY <2>5, RecordFields
  <2>7. /\ RecordOK(g) /\ g.id = a.id /\ g.tombstone = FALSE
        /\ g.text = o.text /\ g.kind = o.kind /\ g.set = o.set /\ g.subject = o.subject
        /\ g.hook = o.hook /\ g.closed = o.closed /\ g.review = o.review
        /\ g.forgotten = o.forgotten
        /\ ("origin" \notin DOMAIN fields => g.origin = a.origin)
        /\ AtMost(Floor(g), Floor(a))
    <3>1. FieldsOK(Over(Blank, fields)) /\ Over(a, fields).text # <<>>
      BY <2>4, <2>6 DEF o, w
    <3> DEFINE u == Updated(a, fields)
               p == Over(a, fields)
    <3>2. /\ RecordOK(u) /\ u.id = a.id /\ u.tombstone = FALSE
          /\ u.text = p.text /\ u.kind = p.kind /\ u.set = p.set /\ u.subject = p.subject
          /\ u.hook = p.hook /\ u.closed = p.closed /\ u.review = p.review
          /\ u.forgotten = p.forgotten
          /\ ("origin" \notin DOMAIN fields => u.origin = a.origin)
          /\ AtMost(Floor(u), Floor(a))
      BY <3>1, UpdatedIs
    <3>3. g = u /\ o = p
      BY <1>3 DEF o
    <3> HIDE DEF g, u, p
    <3> QED
      BY <3>2, <3>3
  <2> HIDE DEF g
  <2>8. g.origin = a.origin
    BY <1>3, <2>7
  <2>9. Recalls(g) >= Recalls(a) /\ (grade = "recalled" => Recalls(g) > 0)
    BY <1>2, <2>1, <2>7, AbsentIs DEF Recalls
  <2>10. IsLive(g) => IsLive(a)
    BY <2>5, <2>7 DEF IsLive
  <2>11. Continues(a, g)
    BY <2>5, <2>7, <2>8, <2>9, <2>10 DEF Continues, Waits
  <2> QED
    BY <2>7, <2>9, <2>11 DEF Stands
<1>4. CASE grade = "recalled"
  <2> DEFINE fields == [due |-> next.due, review |-> next.review, entities |-> PromotedEntities(a)]
  <2>1. g = Updated(a, fields)
    BY <1>4 DEF Graded, next
  <2>2. /\ DOMAIN fields \subseteq {"due", "review", "entities"}
        /\ {"due", "review"} \subseteq DOMAIN fields
        /\ fields.due = "ahead" /\ fields.review = next.review
    BY <1>2
  <2> HIDE DEF fields
  <2> QED
    BY <1>3, <2>1, <2>2
<1>5. CASE grade = "lapsed"
  <2> DEFINE fields == [due |-> next.due, review |-> next.review]
  <2>1. g = Updated(a, fields)
    BY <1>5 DEF Graded, next
  <2>2. /\ DOMAIN fields \subseteq {"due", "review", "entities"}
        /\ {"due", "review"} \subseteq DOMAIN fields
        /\ fields.due = "ahead" /\ fields.review = next.review
    BY <1>2
  <2> HIDE DEF fields
  <2> QED
    BY <1>3, <2>1, <2>2
<1> QED
  BY <1>4, <1>5

(* A claim that survived others names them.                                *)
LEMMA NamedStands ==
  ASSUME NEW a, RecordOK(a), ~a.tombstone, NEW shut \in {a, [a EXCEPT !.closed = TRUE]},
         NEW named \in SUBSET Ids, NEW entities
  PROVE  Stands(a, [shut EXCEPT !.supersedes = @ \cup named, !.entities = entities])
<1> DEFINE b == [shut EXCEPT !.supersedes = @ \cup named, !.entities = entities]
<1>1. Stands(a, shut) /\ RecordOK(shut) /\ shut.tombstone = a.tombstone
      /\ shut.origin = a.origin /\ shut.basis = a.basis /\ shut.hook = a.hook
      /\ shut.floor = a.floor /\ shut.review = a.review /\ shut.forgotten = a.forgotten
  <2>1. Stands(a, shut)
    BY ClosedStands, StandsItself
  <2>2. DOMAIN a = Fields
    BY RecordFields
  <2>3. shut.tombstone = a.tombstone
      /\ shut.origin = a.origin /\ shut.basis = a.basis /\ shut.hook = a.hook
      /\ shut.floor = a.floor /\ shut.review = a.review /\ shut.forgotten = a.forgotten
    BY <2>2 DEF Fields
  <2> QED
    BY <2>1, <2>3 DEF Stands, Continues
<1>2. DOMAIN shut = Fields /\ shut.supersedes \subseteq Ids
  BY <1>1, RecordFields
<1>3. DOMAIN b = Fields /\ b.supersedes = shut.supersedes \cup named
      /\ \A f \in Fields \ {"supersedes", "entities"} : b[f] = shut[f]
  BY <1>2 DEF Fields
<1> HIDE DEF b
<1>4. /\ b.id = shut.id /\ b.text = shut.text /\ b.kind = shut.kind /\ b.set = shut.set
      /\ b.subject = shut.subject /\ b.origin = shut.origin /\ b.basis = shut.basis
      /\ b.hook = shut.hook /\ b.floor = shut.floor /\ b.review = shut.review
      /\ b.due = shut.due /\ b.forgotten = shut.forgotten
      /\ b.tombstone = shut.tombstone /\ b.pinned = shut.pinned /\ b.closed = shut.closed
  BY <1>3 DEF Fields
<1>5. RecordOK(b)
  BY <1>1, <1>2, <1>3, <1>4, RecordFields, RecordFrom DEF FieldsOK
<1>6. IsLive(b) => IsLive(a)
  BY <1>1, <1>4 DEF IsLive, Stands, Continues
<1>7. Recalls(b) >= Recalls(a)
  BY <1>1, <1>4, RecallsType DEF Recalls
<1>8. Stands(a, b)
  BY <1>1, <1>4, <1>5, <1>6, <1>7, StandsWith DEF Stands, Continues
<1> QED
  BY <1>8 DEF b

(* A claim an accept found stored already: a person stands behind it.      *)
LEMMA RaisedIs ==
  ASSUME NEW a, RecordOK(a), ~a.tombstone, NEW more
  PROVE  LET b == [a EXCEPT !.origin = "user-declared", !.hook = FALSE,
                            !.warnings = @ \cup more]
         IN Continues(a, b) /\ ~Waits(b) /\ AtMost(Floor(b), Provenance(b))
<1> DEFINE b == [a EXCEPT !.origin = "user-declared", !.hook = FALSE,
                          !.warnings = @ \cup more]
<1>1. DOMAIN a = Fields
  BY RecordFields
<1>2. DOMAIN b = Fields /\ b.origin = "user-declared" /\ b.hook = FALSE
      /\ \A f \in Fields \ {"origin", "hook", "warnings"} : b[f] = a[f]
  BY <1>1 DEF Fields
<1> HIDE DEF b
<1>3. /\ b.id = a.id /\ b.text = a.text /\ b.kind = a.kind /\ b.set = a.set
      /\ b.subject = a.subject /\ b.floor = a.floor /\ b.review = a.review
      /\ b.forgotten = a.forgotten /\ b.supersedes = a.supersedes /\ b.due = a.due
      /\ b.tombstone = a.tombstone /\ b.pinned = a.pinned /\ b.closed = a.closed
  BY <1>2 DEF Fields
<1>4. RecordOK(b)
  BY <1>2, <1>3, RecordFields, RecordFrom DEF FieldsOK, Origins
<1>5. ~Waits(b)
  BY <1>2 DEF Waits
<1>6. (IsLive(b) => IsLive(a)) /\ Recalls(b) >= Recalls(a)
  BY <1>3, RecallsType DEF IsLive, Recalls
<1>7. Continues(a, b)
  BY <1>3, <1>4, <1>5, <1>6 DEF Continues
<1>8. AtMost(Floor(b), Provenance(b))
  BY <1>4, RecordFields, FloorType
<1> QED
  BY <1>5, <1>7, <1>8 DEF b

-----------------------------------------------------------------------------
(* The new claims.                                                         *)

(* A proposal as it is kept: a claim with words, and the whole record of a *)
(* write that was held.                                                    *)
ProposalOK(p) ==
  /\ DOMAIN p = {"status", "text", "body", "atom", "flagged"}
  /\ p.status \in {"open", "accepted"}
  /\ p.text \in Seq(STRING) \ {<<>>}
  /\ p.body # Absent => RecordOK(p.body)
  /\ p.status = "accepted" => p.atom \in Ids

LEMMA AcceptedIs ==
  ASSUME NEW p, ProposalOK(p), NEW id \in Ids
  PROVE  LET a == Accepted(p, id)
         IN IsPrepared(a, id) /\ a.hook = FALSE /\ a.origin = "user-declared"
<1> DEFINE base == IF p.body = Absent THEN Over(Blank, [text |-> p.text]) ELSE p.body
           body == [base EXCEPT !.origin = "user-declared", !.hook = FALSE]
           risen == Prepared(body, id)
           a == Accepted(p, id)
<1>1. DOMAIN base = Fields /\ FieldsOK(base) /\ base.text # <<>>
  <2>1. CASE p.body = Absent
    <3> DEFINE text == [text |-> p.text]
    <3>1. /\ DOMAIN base = Fields /\ base.text = p.text
          /\ \A f \in Fields \ {"text"} : base[f] = Blank[f]
      BY <2>1, OverIs, BlankFields DEF Fields
    <3> HIDE DEF base
    <3>2. /\ base.supersedes = {} /\ base.origin = Absent /\ base.floor = Absent
          /\ base.due = "none" /\ base.review = Absent
          /\ base.tombstone = FALSE /\ base.closed = FALSE
          /\ base.hook = FALSE /\ base.pinned = FALSE
      BY <3>1, BlankFields DEF Fields
    <3>3. FieldsOK(base)
      BY <3>1, <3>2 DEF FieldsOK, ProposalOK
    <3> QED
      BY <3>1, <3>3 DEF ProposalOK
  <2>2. CASE p.body # Absent
    BY <2>2, RecordFields DEF ProposalOK
  <2> QED
    BY <2>1, <2>2
<1> HIDE DEF base
<1>2. /\ DOMAIN body = Fields /\ body.origin = "user-declared" /\ body.hook = FALSE
      /\ \A f \in Fields \ {"origin", "hook"} : body[f] = base[f]
  BY <1>1 DEF Fields
<1> HIDE DEF body
<1>3. /\ body.text = base.text /\ body.supersedes = base.supersedes
      /\ body.floor = base.floor /\ body.due = base.due /\ body.review = base.review
      /\ body.tombstone = base.tombstone /\ body.closed = base.closed
      /\ body.pinned = base.pinned
  BY <1>2 DEF Fields
<1>4. FieldsOK(body) /\ body.text # <<>>
  BY <1>1, <1>2, <1>3 DEF FieldsOK, Origins
<1>5. /\ FieldsOK(Over(Blank, body)) /\ \A f \in Fields : Over(Blank, body)[f] = body[f]
  BY <1>2, <1>4, OverWhole
<1>6. /\ Over(Blank, body).text = body.text /\ Over(Blank, body).hook = FALSE
      /\ Over(Blank, body).origin = "user-declared"
  BY <1>2, <1>5 DEF Fields
<1>7. "user-declared" # Absent
  BY AbsentIs DEF Origins
<1>8. IsPrepared(risen, id) /\ risen.hook = FALSE /\ risen.origin = "user-declared"
  <2>1. /\ IsPrepared(risen, id)
        /\ \A f \in Fields \ {"origin", "warnings", "id", "floor", "tombstone"} :
             risen[f] = Over(Blank, body)[f]
        /\ risen.origin = "user-declared"
    BY <1>4, <1>5, <1>6, <1>7, PreparedIs
  <2> HIDE DEF risen
  <2>2. risen.hook = Over(Blank, body).hook
    BY <2>1 DEF Fields
  <2> QED
    BY <1>6, <2>1, <2>2
<1>9. a = IF p.flagged THEN [risen EXCEPT !.warnings = @ \cup {"extractAccept"}] ELSE risen
  BY DEF Accepted, risen, body, base
<1> HIDE DEF risen, a
<1>10. DOMAIN a = Fields /\ \A f \in Fields \ {"warnings"} : a[f] = risen[f]
  BY <1>8, <1>9, RecordFields DEF IsPrepared, Fields
<1>11. /\ a.id = risen.id /\ a.text = risen.text /\ a.supersedes = risen.supersedes
       /\ a.origin = risen.origin /\ a.floor = risen.floor /\ a.due = risen.due
       /\ a.review = risen.review /\ a.tombstone = risen.tombstone
       /\ a.closed = risen.closed /\ a.hook = risen.hook /\ a.pinned = risen.pinned
  BY <1>10 DEF Fields
<1>12. RecordOK(a)
  BY <1>8, <1>10, <1>11, RecordFields, RecordFrom DEF IsPrepared, FieldsOK
<1> QED
  BY <1>8, <1>11, <1>12 DEF IsPrepared, a

(* The claim as it is stored says what was asked, and stands on no more    *)
(* than itself, nor than what it writes over when no person accepted it.   *)
LEMMA DatedIs ==
  ASSUME NEW a, NEW id \in Ids, IsPrepared(a, id),
         NEW over, over # Absent => RecordOK(over),
         NEW closed \in SUBSET Ids, NEW accepted \in BOOLEAN
  PROVE  LET d == Dated(a, over, closed, accepted)
         IN /\ RecordOK(d) /\ d.id = id
            /\ SameBody(a, d)
            /\ AtMost(Floor(d), Provenance(d))
            /\ over # Absent /\ ~accepted => AtMost(Floor(d), Floor(over))
<1> DEFINE held  == IF over # Absent /\ ~accepted THEN HoldProvenance(over, a) ELSE a
           named == [held EXCEPT !.supersedes = @ \cup closed]
           d == Dated(a, over, closed, accepted)
<1>1. RecordOK(a) /\ a.id = id /\ a.floor = Absent /\ DOMAIN a = Fields
  BY RecordFields DEF IsPrepared
<1>2. /\ DOMAIN held = Fields
      /\ SameBody(a, held)
      /\ held.pinned = a.pinned /\ held.supersedes = a.supersedes
      /\ held.due = a.due /\ held.review = a.review
      /\ held.floor \in Provenances \cup {Absent}
      /\ over # Absent /\ ~accepted => AtMost(Floor(held), Floor(over))
  <2>1. CASE over # Absent /\ ~accepted
    <3>1. over.floor \in Provenances \cup {Absent}
      BY <2>1, RecordFields
    <3>2. held = HoldProvenance(over, a)
      BY <2>1
    <3> HIDE DEF held
    <3> QED
      BY <1>1, <2>1, <3>1, <3>2, AbsentIs, HoldProvenanceIs
  <2>2. CASE ~(over # Absent /\ ~accepted)
    BY <1>1, <2>2 DEF SameBody
  <2> QED
    BY <2>1, <2>2
<1> HIDE DEF held
<1>3. /\ DOMAIN named = Fields
      /\ named.supersedes = held.supersedes \cup closed
      /\ \A f \in Fields \ {"supersedes"} : named[f] = held[f]
  BY <1>2 DEF Fields
<1> HIDE DEF named
<1>4. /\ SameBody(a, named) /\ named.floor = held.floor /\ named.review = a.review
      /\ named.pinned = a.pinned /\ named.due = a.due
  BY <1>2, <1>3 DEF Fields, SameBody
<1>5. d = IF IsLive(a) /\ a.kind \notin UnreviewedKinds /\ a.due = "none"
          THEN ScheduleReview(named, "initial") ELSE named
  BY DEF Dated, named, held
<1>6. a.review \in Reviews \cup {Absent}
  BY <1>1, RecordFields
<1>7. /\ DOMAIN d = Fields
      /\ SameBody(named, d)
      /\ d.pinned = named.pinned /\ d.supersedes = named.supersedes
      /\ d.floor = named.floor
      /\ d.due \in {a.due, "ahead"} /\ d.review \in Reviews \cup {Absent}
  <2>1. CASE IsLive(a) /\ a.kind \notin UnreviewedKinds /\ a.due = "none"
    <3>1. d = ScheduleReview(named, "initial")
      BY <1>5, <2>1
    <3>2. named.review \in Reviews \cup {Absent}
      BY <1>4, <1>6
    <3> HIDE DEF d
    <3> QED
      BY <1>3, <3>1, <3>2, AbsentIs, ScheduleReviewIs
  <2>2. CASE ~(IsLive(a) /\ a.kind \notin UnreviewedKinds /\ a.due = "none")
    <3>1. d = named
      BY <1>5, <2>2
    <3> HIDE DEF d
    <3> QED
      BY <1>3, <1>4, <1>6, <3>1 DEF SameBody
  <2> QED
    BY <2>1, <2>2
<1> HIDE DEF d
<1>8. SameBody(a, d) /\ d.supersedes = a.supersedes \cup closed /\ d.pinned = a.pinned
      /\ d.floor = held.floor
  BY <1>2, <1>3, <1>4, <1>7 DEF SameBody
<1>9. RecordOK(d)
  BY <1>1, <1>2, <1>7, <1>8, RecordFields, RecordFrom DEF SameBody, FieldsOK
<1>10. Floor(d) = Floor(held)
  BY <1>2, <1>8 DEF SameBody, Floor, Provenance
<1>11. AtMost(Floor(d), Provenance(d))
  BY <1>9, RecordFields, FloorType
<1> QED
  BY <1>1, <1>2, <1>8, <1>9, <1>10, <1>11 DEF d, SameBody

-----------------------------------------------------------------------------
(* The inductive invariant.                                                *)

Pasts == [lowest : Provenances, recalled : BOOLEAN, edited : BOOLEAN]

(* A record stands on no more than it has stood on, a recall shows in its  *)
(* review, and one that a hold would keep is live only after an edit.      *)
RecordStands(i) ==
  store[i] # Absent =>
    /\ RecordOK(store[i]) /\ store[i].id = i
    /\ AtMost(Floor(store[i]), past[i].lowest)
    /\ past[i].recalled => Recalls(store[i]) > 0
    /\ hold /\ IsLive(store[i]) /\ Waits(store[i]) => past[i].edited

(* The kept shape of a claim nobody edited has the words of the claim, and *)
(* is there for every live one once the live set was shaped.               *)
ShapeFollows(i) ==
  store[i] # Absent /\ ~past[i].edited =>
    /\ i \in DOMAIN shapes => shapes[i].tokens = WordsOf(store[i].text)
    /\ shaped /\ IsLive(store[i]) => i \in DOMAIN shapes

ShapesTyped(table) ==
  /\ DOMAIN table \subseteq Ids
  /\ \A i \in DOMAIN table : table[i].gate \subseteq table[i].entities

ProposalsOK ==
  /\ DOMAIN proposals = Proposals
  /\ \A q \in Proposals : proposals[q] # Absent => ProposalOK(proposals[q])

(* What is left of a verb names a record, and a proposal that is there.    *)
CallOK ==
  /\ call \in [step : {"idle", "cap", "mark"}, proposal : Proposals \cup {Absent},
               id : Ids \cup {Absent}]
  /\ call.step # "idle" =>
       /\ call.id \in Ids
       /\ call.proposal # Absent => proposals[call.proposal] # Absent
  /\ call.step = "mark" => call.proposal # Absent

RestOK ==
  /\ hold \in BOOLEAN /\ shaped \in BOOLEAN /\ swept \in BOOLEAN
  /\ answer # Absent => answer.id \in Ids
  /\ calls \in 0..MaxCalls

LifeInv ==
  /\ DOMAIN store = Ids
  /\ past \in [Ids -> Pasts]
  /\ \A i \in Ids : RecordStands(i)
  /\ \A i \in Ids : ShapeFollows(i)
  /\ DuplicatesComeFromEdits
  /\ ShapesTyped(shapes)
  /\ ProposalsOK
  /\ OneOpenPerHold
  /\ CallOK
  /\ RestOK

(* It implies what the run checks.                                         *)
THEOREM LifeInvImplies ==
  LifeInv => TypeOK /\ Inv /\ FloorHolds /\ DuplicatesComeFromEdits
<1> SUFFICES ASSUME LifeInv PROVE TypeOK /\ Inv /\ FloorHolds /\ DuplicatesComeFromEdits
  OBVIOUS
<1>1. \A i \in Ids : past[i] \in Pasts /\ RecordStands(i)
  BY DEF LifeInv
<1>2. TypeOK
  <2>1. \A i \in Ids : store[i] # Absent => RecordOK(store[i]) /\ store[i].id = i
    BY <1>1 DEF RecordStands
  <2>2. \A i \in Ids : past[i].lowest \in Provenances
    BY <1>1 DEF Pasts
  <2>3. \A q \in Proposals : proposals[q] # Absent => proposals[q].status \in {"open", "accepted"}
    BY DEF LifeInv, ProposalsOK, ProposalOK
  <2>4. call.step \in {"idle", "cap", "mark"}
    BY DEF LifeInv, CallOK
  <2>5. DOMAIN store = Ids /\ ShapesTyped(shapes) /\ RestOK
    BY DEF LifeInv
  <2> QED
    BY <2>1, <2>2, <2>3, <2>4, <2>5 DEF TypeOK, ShapesTyped, RestOK
<1>3. NothingHeldIsLive
  BY <1>1 DEF NothingHeldIsLive, LiveIds, Stored, RecordStands, Waits
<1>4. FloorHolds
  BY <1>1 DEF FloorHolds, Stored, RecordStands, AtMost
<1> QED
  BY <1>2, <1>3, <1>4 DEF LifeInv, Inv

THEOREM LifeInit == Init => LifeInv
<1> SUFFICES ASSUME Init PROVE LifeInv
  OBVIOUS
<1>1. DOMAIN store = Ids /\ \A i \in Ids : store[i] = Absent
  BY DEF Init
<1>2. (\A i \in Ids : RecordStands(i)) /\ (\A i \in Ids : ShapeFollows(i))
  BY <1>1 DEF RecordStands, ShapeFollows
<1>3. DuplicatesComeFromEdits
  BY <1>1 DEF DuplicatesComeFromEdits, LiveIds, Stored
<1>4. NoPast \in Pasts
  BY DEF NoPast, Pasts, Provenances
<1>5. past \in [Ids -> Pasts]
  BY <1>4 DEF Init
<1>6. ShapesTyped(shapes)
  BY DEF Init, ShapesTyped, NoShapes
<1>7. ProposalsOK /\ OneOpenPerHold
  BY DEF Init, ProposalsOK, OneOpenPerHold
<1>8. CallOK
  BY DEF Init, CallOK, Idle
<1>9. RestOK
  <2>1. hold \in BOOLEAN
    BY ConstantsAssumption, Zenon DEF Init, ConstantsAssumption
  <2>2. shaped \in BOOLEAN /\ swept \in BOOLEAN
    BY Zenon DEF Init
  <2>3. calls \in 0..MaxCalls
    BY ConstantsAssumption DEF Init, ConstantsAssumption
  <2>4. answer = Absent
    BY DEF Init
  <2> QED
    BY <2>1, <2>2, <2>3, <2>4 DEF RestOK
<1> QED
  BY <1>1, <1>2, <1>3, <1>5, <1>6, <1>7, <1>8, <1>9 DEF LifeInv

-----------------------------------------------------------------------------
(* What a step may do to one record.                                       *)

(* It is left alone, forgotten with its workspace, or moved on.            *)
Moves(i) ==
  \/ store'[i] = store[i]
  \/ ~Retired(i) /\ store'[i] = Absent
  \/ store[i] # Absent /\ ~store[i].tombstone /\ Stands(store[i], store'[i])

(* Its history goes on with it.                                            *)
PastMoves(i) ==
  store'[i] # Absent =>
    /\ past'[i].lowest = past[i].lowest /\ past'[i].edited = past[i].edited
    /\ past'[i].recalled => past[i].recalled \/ Recalls(store'[i]) > 0

LEMMA MovesStands ==
  ASSUME NEW i \in Ids, RecordStands(i), Moves(i), store'[i] # Absent
  PROVE  store[i] # Absent /\ RecordOK(store[i]) /\ Stands(store[i], store'[i])
<1>1. store[i] # Absent
  BY DEF Moves
<1>2. RecordOK(store[i])
  BY <1>1 DEF RecordStands
<1>3. Stands(store[i], store[i])
  BY <1>2, StandsItself
<1> QED
  BY <1>1, <1>2, <1>3 DEF Moves

LEMMA MovesKeepsRecord ==
  ASSUME NEW i \in Ids, RecordStands(i), past \in [Ids -> Pasts],
         Moves(i), PastMoves(i), UNCHANGED hold
  PROVE  RecordStands(i)'
<1> SUFFICES ASSUME store'[i] # Absent PROVE RecordStands(i)'
  BY DEF RecordStands
<1> DEFINE a == store[i]
           b == store'[i]
<1>1. a # Absent /\ RecordOK(a) /\ Stands(a, b)
  BY MovesStands
<1>2. past[i] \in Pasts /\ past[i].lowest \in Provenances
  BY DEF Pasts
<1>3. /\ a.id = i
      /\ AtMost(Floor(a), past[i].lowest)
      /\ past[i].recalled => Recalls(a) > 0
      /\ hold /\ IsLive(a) /\ Waits(a) => past[i].edited
  BY <1>1 DEF RecordStands
<1>4. PastMoves(i)
  OBVIOUS
<1>5. /\ past'[i].lowest = past[i].lowest /\ past'[i].edited = past[i].edited
      /\ past'[i].recalled => past[i].recalled \/ Recalls(b) > 0
  BY <1>4 DEF PastMoves
<1>6. /\ RecordOK(b) /\ b.id = a.id /\ (Waits(b) => Waits(a)) /\ (IsLive(b) => IsLive(a))
      /\ Recalls(b) >= Recalls(a) /\ AtMost(Floor(b), Floor(a))
  BY <1>1 DEF Stands, Continues
<1>7. Floor(a) \in Provenances /\ Floor(b) \in Provenances
  BY <1>1, <1>6, RecordFields, FloorType
<1>8. AtMost(Floor(b), past'[i].lowest)
  BY <1>2, <1>3, <1>5, <1>6, <1>7, AtMostOrder
<1>9. Recalls(a) \in Nat /\ Recalls(b) \in Nat
  BY <1>1, <1>6, RecallsType
<1>10. past'[i].recalled => Recalls(b) > 0
  BY <1>3, <1>5, <1>6, <1>9
<1>11. hold' /\ IsLive(b) /\ Waits(b) => past'[i].edited
  BY <1>3, <1>5, <1>6
<1> HIDE DEF a, b
<1>12. RecordOK(b) /\ b.id = i
  BY <1>3, <1>6
<1> QED
  BY <1>8, <1>10, <1>11, <1>12 DEF RecordStands, b

(* A live claim nobody edited was one before, and said the same.           *)
StaysAlike(i) ==
  i \in LiveIds' /\ ~past'[i].edited =>
    /\ i \in LiveIds /\ ~past[i].edited
    /\ store'[i].text = store[i].text /\ store'[i].kind = store[i].kind
    /\ store'[i].set = store[i].set /\ store'[i].subject = store[i].subject

LEMMA MovesStayAlike ==
  ASSUME NEW i \in Ids, RecordStands(i), Moves(i), PastMoves(i)
  PROVE  StaysAlike(i)
<1> SUFFICES ASSUME i \in LiveIds', ~past'[i].edited
             PROVE  /\ i \in LiveIds /\ ~past[i].edited
                    /\ store'[i].text = store[i].text /\ store'[i].kind = store[i].kind
                    /\ store'[i].set = store[i].set /\ store'[i].subject = store[i].subject
  BY DEF StaysAlike
<1>1. store'[i] # Absent /\ IsLive(store'[i])
  BY DEF LiveIds, Stored
<1>2. store[i] # Absent /\ Stands(store[i], store'[i])
  BY <1>1, MovesStands
<1> QED
  BY <1>1, <1>2 DEF PastMoves, Stands, Continues, LiveIds, Stored

LEMMA NoNewDuplicates ==
  ASSUME DuplicatesComeFromEdits, \A i \in Ids : StaysAlike(i)
  PROVE  DuplicatesComeFromEdits'
<1> SUFFICES ASSUME NEW i \in LiveIds', NEW j \in LiveIds', i # j,
                    SameClaim(store'[i], store'[j]),
                    ~past'[i].edited, ~past'[j].edited
             PROVE  FALSE
  BY DEF DuplicatesComeFromEdits
<1>1. i \in Ids /\ j \in Ids
  BY DEF LiveIds, Stored
<1>2. StaysAlike(i) /\ StaysAlike(j)
  BY <1>1
<1>3. /\ i \in LiveIds /\ ~past[i].edited /\ j \in LiveIds /\ ~past[j].edited
      /\ SameClaim(store[i], store[j])
  BY <1>2 DEF StaysAlike, SameClaim
<1> QED
  BY <1>3 DEF DuplicatesComeFromEdits

(* The shapes of what is still stored are kept or dropped, and a live one  *)
(* is not dropped while the set counts as shaped.                          *)
ShapeMoves(i) ==
  store'[i] # Absent =>
    /\ i \in DOMAIN shapes' => i \in DOMAIN shapes /\ shapes'[i] = shapes[i]
    /\ shaped' /\ IsLive(store'[i]) => shaped /\ (i \in DOMAIN shapes => i \in DOMAIN shapes')

LEMMA MovesKeepsShape ==
  ASSUME NEW i \in Ids, RecordStands(i), ShapeFollows(i), Moves(i), PastMoves(i), ShapeMoves(i)
  PROVE  ShapeFollows(i)'
<1> SUFFICES ASSUME store'[i] # Absent, ~past'[i].edited PROVE ShapeFollows(i)'
  BY DEF ShapeFollows
<1>1. store[i] # Absent /\ Stands(store[i], store'[i])
  BY MovesStands
<1>2. ~past[i].edited
  BY DEF PastMoves
<1>3. store'[i].text = store[i].text /\ (IsLive(store'[i]) => IsLive(store[i]))
  BY <1>1 DEF Stands, Continues
<1> QED
  BY <1>1, <1>2, <1>3 DEF ShapeFollows, ShapeMoves

(* A step that only moves records on keeps what is said of them.           *)
LEMMA MovesKeeps ==
  ASSUME LifeInv, UNCHANGED hold, DOMAIN store' = Ids, past' \in [Ids -> Pasts],
         \A i \in Ids : Moves(i) /\ PastMoves(i) /\ ShapeMoves(i)
  PROVE  /\ \A i \in Ids : RecordStands(i)'
         /\ \A i \in Ids : ShapeFollows(i)'
         /\ DuplicatesComeFromEdits'
<1>1. past \in [Ids -> Pasts] /\ DuplicatesComeFromEdits
      /\ \A i \in Ids : RecordStands(i) /\ ShapeFollows(i)
  BY DEF LifeInv
<1>2. \A i \in Ids : RecordStands(i)'
  BY <1>1, MovesKeepsRecord
<1>3. \A i \in Ids : ShapeFollows(i)'
  BY <1>1, MovesKeepsShape
<1>4. \A i \in Ids : StaysAlike(i)
  BY <1>1, MovesStayAlike
<1>5. DuplicatesComeFromEdits'
  BY <1>1, <1>4, NoNewDuplicates
<1> QED
  BY <1>2, <1>3, <1>5

-----------------------------------------------------------------------------
(* What every step does: no retired record changes, and none is forgotten  *)
(* for neglect that was recalled.                                          *)

StepOK ==
  /\ \A i \in Ids : Retired(i) => store'[i] = store[i]
  /\ \A i \in Stored :
       /\ store[i].forgotten # "neglect"
       /\ Retired(i)' /\ store'[i].forgotten = "neglect"
       => ~past[i].recalled

LEMMA MovesStepOK ==
  ASSUME NEW i \in Ids, RecordStands(i), Moves(i)
  PROVE  /\ Retired(i) => store'[i] = store[i]
         /\ store[i] # Absent /\ store[i].forgotten # "neglect"
            /\ Retired(i)' /\ store'[i].forgotten = "neglect" => ~past[i].recalled
<1>1. Retired(i) => store'[i] = store[i]
  BY DEF Moves, Retired
<1>2. ASSUME store[i] # Absent, store[i].forgotten # "neglect",
             Retired(i)', store'[i].forgotten = "neglect"
      PROVE  ~past[i].recalled
  <2>1. Stands(store[i], store'[i])
    BY <1>2, MovesStands DEF Retired
  <2>2. Recalls(store[i]) = 0
    BY <1>2, <2>1 DEF Stands, Continues
  <2> QED
    BY <1>2, <2>2 DEF RecordStands
<1> QED
  BY <1>1, <1>2

LEMMA MovesLife ==
  ASSUME LifeInv, UNCHANGED hold, DOMAIN store' = Ids, past' \in [Ids -> Pasts],
         \A i \in Ids : Moves(i) /\ PastMoves(i) /\ ShapeMoves(i),
         ShapesTyped(shapes'), ProposalsOK', OneOpenPerHold', CallOK', RestOK'
  PROVE  LifeInv' /\ StepOK
<1>1. /\ \A i \in Ids : RecordStands(i)'
      /\ \A i \in Ids : ShapeFollows(i)'
      /\ DuplicatesComeFromEdits'
  BY MovesKeeps
<1>2. \A i \in Ids : RecordStands(i)
  BY DEF LifeInv
<1>3. StepOK
  BY <1>2, MovesStepOK DEF StepOK, Stored
<1> QED
  BY <1>1, <1>3 DEF LifeInv

LEMMA UnshapedIs ==
  ASSUME NEW table, ShapesTyped(table), NEW gone
  PROVE  /\ DOMAIN Unshaped(table, gone) = DOMAIN table \ gone
         /\ \A i \in DOMAIN table \ gone : Unshaped(table, gone)[i] = table[i]
         /\ ShapesTyped(Unshaped(table, gone))
  BY DEF Unshaped, ShapesTyped

LEMMA PastStays ==
  ASSUME LifeInv, UNCHANGED past
  PROVE  past' \in [Ids -> Pasts] /\ \A i \in Ids : PastMoves(i)
  BY DEF LifeInv, PastMoves

LEMMA ShapesStay ==
  ASSUME LifeInv, UNCHANGED <<shapes, shaped>>
  PROVE  ShapesTyped(shapes') /\ \A i \in Ids : ShapeMoves(i)
  BY DEF LifeInv, ShapeMoves

LEMMA ProposalsStay ==
  ASSUME LifeInv, UNCHANGED proposals
  PROVE  ProposalsOK' /\ OneOpenPerHold'
<1>1. ProposalsOK /\ OneOpenPerHold
  BY DEF LifeInv
<1>2. ProposalsOK'
  BY <1>1 DEF ProposalsOK
<1>3. OneOpenPerHold'
  BY <1>1 DEF OneOpenPerHold
<1> QED
  BY <1>2, <1>3

LEMMA IdleOK ==
  ASSUME call' = Idle
  PROVE  CallOK'
  BY DEF CallOK, Idle

LEMMA CallStays ==
  ASSUME LifeInv, UNCHANGED <<call, proposals>>
  PROVE  CallOK'
<1>1. CallOK
  BY DEF LifeInv
<1> QED
  BY <1>1 DEF CallOK

(* What a record that is shown is.                                         *)
LEMMA ShownIs ==
  ASSUME LifeInv, NEW i \in Ids, store[i] # Absent
  PROVE  /\ RecordOK(store[i]) /\ store[i].id = i
         /\ i \in ShownIds => ~store[i].tombstone
         /\ i \in LiveIds => ~store[i].tombstone /\ i \in ShownIds
  BY DEF LifeInv, RecordStands, ShownIds, Shown, LiveIds, IsLive, Stored

LEMMA ShownAre ==
  /\ ShownIds \subseteq Ids /\ LiveIds \subseteq ShownIds
  /\ \A i \in ShownIds : store[i] # Absent /\ ~store[i].tombstone
  BY DEF ShownIds, Shown, LiveIds, IsLive, Stored

LEMMA CallIs ==
  ASSUME LifeInv, NEW step \in {"cap", "mark"}, call.step = step
  PROVE  /\ call \in [step : {"idle", "cap", "mark"}, proposal : Proposals \cup {Absent},
                      id : Ids \cup {Absent}]
         /\ call.id \in Ids
         /\ call.proposal # Absent =>
              call.proposal \in Proposals /\ proposals[call.proposal] # Absent
         /\ step = "mark" => call.proposal # Absent
  BY DEF LifeInv, CallOK

-----------------------------------------------------------------------------
(* The steps that only move records on.                                    *)

LEMMA EnforceCapLife ==
  ASSUME LifeInv, EnforceCap
  PROVE  LifeInv' /\ StepOK
<1>1. PICK gone \in SUBSET Expendable :
        /\ store' = [i \in Ids |->
                       IF i \in gone THEN Forgotten(store[i], "the live cap") ELSE store[i]]
        /\ shapes' = Unshaped(shapes, gone)
  BY DEF EnforceCap
<1>2. gone \subseteq Ids /\ \A i \in gone : store[i] # Absent /\ ~store[i].tombstone
  BY ShownAre DEF Expendable
<1>3. ASSUME NEW i \in gone
      PROVE  Stands(store[i], store'[i]) /\ store'[i].tombstone
  <2>1. RecordOK(store[i]) /\ ~store[i].tombstone
    BY <1>2, ShownIs
  <2>2. store'[i] = Forgotten(store[i], "the live cap")
    BY <1>1, <1>2
  <2> QED
    BY <2>1, <2>2, WithdrawnStands
<1>4. \A i \in Ids \ gone : store'[i] = store[i]
  BY <1>1
<1>5. \A i \in Ids : Moves(i)
  BY <1>2, <1>3, <1>4 DEF Moves
<1>6. ShapesTyped(shapes) /\ UNCHANGED <<hold, shaped, swept, proposals, answer, calls, past>>
  BY DEF LifeInv, EnforceCap
<1>7. /\ DOMAIN shapes' = DOMAIN shapes \ gone
      /\ \A i \in DOMAIN shapes \ gone : shapes'[i] = shapes[i]
      /\ ShapesTyped(shapes')
  BY <1>1, <1>6, UnshapedIs
<1>8. \A i \in Ids : ShapeMoves(i)
  BY <1>3, <1>4, <1>6, <1>7 DEF ShapeMoves, IsLive
<1>9. CallOK'
  <2>1. /\ call.step = "cap"
        /\ call' = IF call.proposal = Absent THEN Idle ELSE [call EXCEPT !.step = "mark"]
    BY DEF EnforceCap
  <2>2. CASE call.proposal = Absent
    BY <2>1, <2>2, IdleOK
  <2>3. CASE call.proposal # Absent
    <3>1. /\ call \in [step : {"idle", "cap", "mark"}, proposal : Proposals \cup {Absent},
                       id : Ids \cup {Absent}]
          /\ call.id \in Ids
          /\ call.proposal \in Proposals /\ proposals[call.proposal] # Absent
      BY <2>1, <2>3, CallIs
    <3>2. call' = [call EXCEPT !.step = "mark"]
      BY <2>1, <2>3
    <3> QED
      BY <1>6, <2>3, <3>1, <3>2 DEF CallOK
  <2> QED
    BY <2>2, <2>3
<1>10. RestOK'
  BY <1>6 DEF LifeInv, RestOK
<1>11. past' \in [Ids -> Pasts] /\ (\A i \in Ids : PastMoves(i)) /\ ProposalsOK' /\ OneOpenPerHold'
  BY <1>6, PastStays, ProposalsStay
<1>12. DOMAIN store' = Ids
  BY <1>1
<1> QED
  BY <1>5, <1>6, <1>7, <1>8, <1>9, <1>10, <1>11, <1>12, MovesLife

LEMMA SweepLife ==
  ASSUME LifeInv, Sweep
  PROVE  LifeInv' /\ StepOK
<1>1. /\ store' = [i \in Ids |-> IF i \in Stored THEN Swept(store[i]) ELSE Absent]
      /\ shapes' = Unshaped(shapes, {i \in ShownIds : store'[i].tombstone})
      /\ swept' = TRUE
      /\ UNCHANGED <<hold, shaped, proposals, call, answer, calls, past>>
  BY DEF Sweep
<1> DEFINE gone == {i \in ShownIds : store'[i].tombstone}
<1>2. ASSUME NEW i \in Ids, store[i] # Absent
      PROVE  store'[i] = Swept(store[i]) /\ Stands(store[i], store'[i])
  <2>1. RecordOK(store[i])
    BY <1>2, ShownIs
  <2>2. store'[i] = Swept(store[i])
    BY <1>1, <1>2 DEF Stored
  <2> QED
    BY <2>1, <2>2, SweptStands
<1>3. ASSUME NEW i \in Ids PROVE Moves(i)
  <2>1. CASE store[i] = Absent
    BY <1>1, <2>1 DEF Moves, Stored, Retired
  <2>2. CASE store[i] # Absent /\ store[i].tombstone
    <3>1. Swept(store[i]) = store[i]
      BY <2>2 DEF Swept, Lapses, Shown
    <3> QED
      BY <1>2, <2>2, <3>1 DEF Moves
  <2>3. CASE store[i] # Absent /\ ~store[i].tombstone
    BY <1>2, <2>3 DEF Moves
  <2> QED
    BY <2>1, <2>2, <2>3
<1>4. /\ DOMAIN shapes' = DOMAIN shapes \ gone
      /\ \A i \in DOMAIN shapes \ gone : shapes'[i] = shapes[i]
      /\ ShapesTyped(shapes')
  BY <1>1, UnshapedIs DEF LifeInv
<1> HIDE DEF gone
<1>5. \A i \in gone : ~IsLive(store'[i])
  BY DEF gone, IsLive
<1>6. \A i \in Ids : ShapeMoves(i)
  BY <1>1, <1>4, <1>5 DEF ShapeMoves
<1>7. RestOK'
  BY <1>1 DEF LifeInv, RestOK
<1>8. past' \in [Ids -> Pasts] /\ (\A i \in Ids : PastMoves(i)) /\ ProposalsOK' /\ OneOpenPerHold'
      /\ CallOK'
  BY <1>1, PastStays, ProposalsStay, CallStays
<1>9. DOMAIN store' = Ids
  BY <1>1
<1> QED
  BY <1>1, <1>3, <1>4, <1>6, <1>7, <1>8, <1>9, MovesLife


LEMMA CalledIs ==
  ASSUME LifeInv, Called
  PROVE  call = Idle /\ calls' \in 0..MaxCalls
<1>1. calls \in 0..MaxCalls /\ MaxCalls \in Nat
  BY ConstantsAssumption DEF LifeInv, RestOK, ConstantsAssumption
<1> QED
  BY <1>1 DEF Called

(* A verb that changes records and their history, and nothing else.        *)
LEMMA VerbLife ==
  ASSUME LifeInv, UNCHANGED <<hold, shapes, shaped, swept, proposals, call>>,
         answer' = Absent, calls' \in 0..MaxCalls,
         DOMAIN store' = Ids, past' \in [Ids -> Pasts],
         \A i \in Ids : Moves(i) /\ PastMoves(i)
  PROVE  LifeInv' /\ StepOK
<1>1. RestOK'
  BY DEF LifeInv, RestOK
<1>2. ShapesTyped(shapes') /\ (\A i \in Ids : ShapeMoves(i)) /\ ProposalsOK' /\ OneOpenPerHold'
      /\ CallOK'
  BY ShapesStay, ProposalsStay, CallStays
<1> QED
  BY <1>1, <1>2, MovesLife

LEMMA GradeLife ==
  ASSUME LifeInv, NEW id \in Ids, NEW grade \in {"recalled", "lapsed"}, Grade(id, grade)
  PROVE  LifeInv' /\ StepOK
<1>1. /\ id \in ShownIds
      /\ store' = [store EXCEPT ![id] = Graded(@, grade)]
      /\ past' = [past EXCEPT ![id].recalled = @ \/ grade = "recalled"]
      /\ UNCHANGED <<hold, shapes, shaped, swept, proposals, call>>
      /\ answer' = Absent /\ calls' \in 0..MaxCalls
  BY CalledIs DEF Grade
<1>2. store[id] # Absent /\ ~store[id].tombstone /\ RecordOK(store[id])
  BY <1>1, ShownAre, ShownIs
<1>3. DOMAIN store = Ids /\ past \in [Ids -> Pasts]
  BY DEF LifeInv
<1>4. /\ DOMAIN store' = Ids
      /\ store'[id] = Graded(store[id], grade)
      /\ \A i \in Ids \ {id} : store'[i] = store[i]
  BY <1>1, <1>3
<1>5. Stands(store[id], store'[id]) /\ (grade = "recalled" => Recalls(store'[id]) > 0)
  BY <1>2, <1>4, GradedStands
<1>6. \A i \in Ids : Moves(i)
  BY <1>2, <1>4, <1>5 DEF Moves
<1>7. past' \in [Ids -> Pasts]
  BY <1>1, <1>3 DEF Pasts
<1>8. ASSUME NEW i \in Ids PROVE PastMoves(i)
  <2>1. CASE i = id
    <3>1. past'[i] = [past[i] EXCEPT !.recalled = @ \/ grade = "recalled"] /\ past[i] \in Pasts
      BY <1>1, <1>3, <2>1
    <3>2. past'[i].lowest = past[i].lowest /\ past'[i].edited = past[i].edited
      BY <3>1 DEF Pasts
    <3>3. past'[i].recalled => past[i].recalled \/ grade = "recalled"
      BY <3>1 DEF Pasts
    <3> QED
      BY <1>5, <2>1, <3>2, <3>3 DEF PastMoves
  <2>2. CASE i # id
    BY <1>1, <1>3, <2>2 DEF PastMoves
  <2> QED
    BY <2>1, <2>2
<1> QED
  BY <1>1, <1>4, <1>6, <1>7, <1>8, VerbLife

LEMMA FireLife ==
  ASSUME LifeInv, NEW ids \in SUBSET Ids, Fire(ids)
  PROVE  LifeInv' /\ StepOK
<1>1. /\ store' = [i \in Ids |->
                     IF i \in ids \cap ShownIds /\ store[i].review # Absent
                     THEN [store[i] EXCEPT !.review.used = @ + 1]
                     ELSE store[i]]
      /\ UNCHANGED <<hold, shapes, shaped, swept, proposals, call, past>>
      /\ answer' = Absent /\ calls' \in 0..MaxCalls
  BY CalledIs DEF Fire
<1>2. ASSUME NEW i \in Ids PROVE Moves(i)
  <2>1. CASE i \in ids \cap ShownIds /\ store[i].review # Absent
    <3>1. store[i] # Absent /\ ~store[i].tombstone /\ RecordOK(store[i])
      BY <2>1, ShownAre, ShownIs
    <3>2. store'[i] = [store[i] EXCEPT !.review.used = @ + 1]
      BY <1>1, <2>1
    <3>3. Stands(store[i], store'[i])
      BY <2>1, <3>1, <3>2, UsedStands
    <3> QED
      BY <3>1, <3>3 DEF Moves
  <2>2. CASE ~(i \in ids \cap ShownIds /\ store[i].review # Absent)
    BY <1>1, <2>2 DEF Moves
  <2> QED
    BY <2>1, <2>2
<1>3. past' \in [Ids -> Pasts] /\ \A i \in Ids : PastMoves(i)
  BY <1>1, PastStays
<1>4. DOMAIN store' = Ids
  BY <1>1
<1> QED
  BY <1>1, <1>2, <1>3, <1>4, VerbLife

LEMMA DeleteLife ==
  ASSUME LifeInv, NEW id \in Ids, Delete(id)
  PROVE  LifeInv' /\ StepOK
<1>1. /\ id \in ShownIds
      /\ store' = [store EXCEPT ![id].tombstone = TRUE]
      /\ shapes' = Unshaped(shapes, {id})
      /\ UNCHANGED <<hold, shaped, swept, proposals, call, past>>
      /\ answer' = Absent /\ calls' \in 0..MaxCalls
  BY CalledIs DEF Delete
<1>2. store[id] # Absent /\ ~store[id].tombstone /\ RecordOK(store[id])
  BY <1>1, ShownAre, ShownIs
<1>3. /\ DOMAIN store = Ids /\ DOMAIN store' = Ids
      /\ store'[id] = [store[id] EXCEPT !.tombstone = TRUE]
      /\ \A i \in Ids \ {id} : store'[i] = store[i]
  BY <1>1 DEF LifeInv
<1>4. Stands(store[id], store'[id]) /\ store'[id].tombstone
  <2>1. Stands(store[id], store'[id])
    BY <1>2, <1>3, WithdrawnStands
  <2>2. DOMAIN store[id] = Fields
    BY <1>2, RecordFields
  <2> QED
    BY <1>3, <2>1, <2>2 DEF Fields
<1>5. \A i \in Ids : Moves(i)
  BY <1>2, <1>3, <1>4 DEF Moves
<1>6. /\ DOMAIN shapes' = DOMAIN shapes \ {id}
      /\ \A i \in DOMAIN shapes \ {id} : shapes'[i] = shapes[i]
      /\ ShapesTyped(shapes')
  BY <1>1, UnshapedIs DEF LifeInv
<1>7. \A i \in Ids : ShapeMoves(i)
  BY <1>1, <1>4, <1>6 DEF ShapeMoves, IsLive
<1>8. RestOK'
  BY <1>1 DEF LifeInv, RestOK
<1>9. past' \in [Ids -> Pasts] /\ (\A i \in Ids : PastMoves(i)) /\ ProposalsOK' /\ OneOpenPerHold'
      /\ CallOK'
  BY <1>1, PastStays, ProposalsStay, CallStays
<1> QED
  BY <1>1, <1>3, <1>5, <1>6, <1>7, <1>8, <1>9, MovesLife

LEMMA ForgetLife ==
  ASSUME LifeInv, Forget
  PROVE  LifeInv' /\ StepOK
<1>1. /\ store' = [i \in Ids |-> IF Retired(i) THEN store[i] ELSE Absent]
      /\ shapes' = NoShapes
      /\ shaped' = FALSE
      /\ swept' = FALSE
      /\ past' = [i \in Ids |-> IF Retired(i) THEN past[i] ELSE NoPast]
      /\ answer' = Absent /\ calls' \in 0..MaxCalls
      /\ UNCHANGED <<hold, proposals, call>>
  BY CalledIs DEF Forget
<1>2. DOMAIN store' = Ids /\ \A i \in Ids : Moves(i)
  BY <1>1 DEF Moves
<1>3. NoPast \in Pasts
  BY DEF NoPast, Pasts, Provenances
<1>4. past' \in [Ids -> Pasts] /\ \A i \in Ids : PastMoves(i)
  <2>1. past \in [Ids -> Pasts]
    BY DEF LifeInv
  <2>2. past' \in [Ids -> Pasts]
    BY <1>1, <1>3, <2>1
  <2>3. \A i \in Ids : store'[i] # Absent => past'[i] = past[i]
    BY <1>1
  <2> QED
    BY <2>2, <2>3 DEF PastMoves
<1>5. ShapesTyped(shapes') /\ \A i \in Ids : ShapeMoves(i)
  <2>1. DOMAIN shapes' = {} /\ ~shaped'
    BY <1>1 DEF NoShapes
  <2> QED
    BY <2>1 DEF ShapesTyped, ShapeMoves
<1>6. RestOK'
  BY <1>1 DEF LifeInv, RestOK
<1>7. ProposalsOK' /\ OneOpenPerHold' /\ CallOK'
  BY <1>1, ProposalsStay, CallStays
<1> QED
  BY <1>1, <1>2, <1>4, <1>5, <1>6, <1>7, MovesLife

(* The claim that closes another is one that may.                          *)
LEMMA CloserIs ==
  ASSUME NEW order \in Orders, NEW j \in Outlived(order)
  PROVE  Closer(j, order) \in LiveIds
<1> DEFINE C == Closers(j, order)
           Ranks == {order[i] : i \in C}
<1>1. C # {} /\ C \subseteq LiveIds /\ C \subseteq Ids
  BY ShownAre DEF Outlived, Closers
<1>2. Closer(j, order) = CHOOSE i \in C : \A k \in C : order[i] <= order[k]
  BY DEF Closer
<1> HIDE DEF C
<1>3. Ranks \subseteq Nat /\ Ranks # {}
  BY <1>1 DEF Orders
<1>4. PICK least \in Ranks : \A rank \in Ranks : least <= rank
  BY <1>3, LeastOf
<1>5. \E i \in C : \A k \in C : order[i] <= order[k]
  BY <1>4
<1>6. (CHOOSE i \in C : \A k \in C : order[i] <= order[k]) \in C
  BY <1>5
<1> QED
  BY <1>1, <1>2, <1>6

LEMMA ConsolidateLife ==
  ASSUME LifeInv, NEW order \in Orders, Consolidate(order)
  PROVE  LifeInv' /\ StepOK
<1> DEFINE Shut(i) == IF i \in Outlived(order) THEN [store[i] EXCEPT !.closed = TRUE] ELSE store[i]
<1>1. /\ store' = [i \in Ids |->
                     IF Survived(i, order) = {} THEN Shut(i)
                     ELSE [Shut(i) EXCEPT !.supersedes = @ \cup Survived(i, order),
                                          !.entities = PromotedEntities(store[i])]]
      /\ UNCHANGED <<hold, shapes, shaped, swept, proposals, call, past>>
      /\ answer' = Absent /\ calls' \in 0..MaxCalls
  BY CalledIs DEF Consolidate
<1>2. Outlived(order) \subseteq LiveIds
  BY DEF Outlived
<1>3. ASSUME NEW i \in Ids PROVE Moves(i)
  <2> DEFINE shut == Shut(i)
             named == Survived(i, order)
  <2>1. store'[i] = IF named = {} THEN shut
                    ELSE [shut EXCEPT !.supersedes = @ \cup named,
                                      !.entities = PromotedEntities(store[i])]
    BY <1>1
  <2>2. shut = IF i \in Outlived(order) THEN [store[i] EXCEPT !.closed = TRUE] ELSE store[i]
    OBVIOUS
  <2>3. named # {} => i \in LiveIds
    BY CloserIs DEF Survived
  <2>4. named \in SUBSET Ids
    BY <1>2, ShownAre DEF Survived
  <2> HIDE DEF Shut, shut, named
  <2>5. CASE i \notin Outlived(order) /\ named = {}
    BY <2>1, <2>2, <2>5 DEF Moves
  <2>6. CASE i \in Outlived(order) \/ named # {}
    <3>1. i \in LiveIds
      BY <1>2, <2>3, <2>6
    <3>2. store[i] # Absent /\ ~store[i].tombstone /\ RecordOK(store[i])
      BY <3>1, ShownAre, ShownIs
    <3>3. CASE named = {}
      BY <2>1, <2>2, <2>6, <3>2, <3>3, ClosedStands DEF Moves
    <3>4. CASE named # {}
      <4>1. shut \in {store[i], [store[i] EXCEPT !.closed = TRUE]}
        BY <2>2
      <4> DEFINE a == store[i]
                 entities == PromotedEntities(store[i])
      <4>2. store'[i] = [shut EXCEPT !.supersedes = @ \cup named, !.entities = entities]
        BY <2>1, <3>4
      <4>3. RecordOK(a) /\ ~a.tombstone /\ shut \in {a, [a EXCEPT !.closed = TRUE]}
        BY <3>2, <4>1
      <4> HIDE DEF a, entities
      <4>4. Stands(a, [shut EXCEPT !.supersedes = @ \cup named, !.entities = entities])
        BY <2>4, <4>3, NamedStands
      <4> QED
        BY <3>2, <4>2, <4>4 DEF a, Moves
    <3> QED
      BY <3>3, <3>4
  <2> QED
    BY <2>5, <2>6
<1>4. past' \in [Ids -> Pasts] /\ \A i \in Ids : PastMoves(i)
  BY <1>1, PastStays
<1>5. DOMAIN store' = Ids
  BY <1>1
<1> HIDE DEF Shut
<1> QED
  BY <1>1, <1>3, <1>4, <1>5, VerbLife

LEMMA AgeLife ==
  ASSUME LifeInv, NEW id \in Ids, Age(id)
  PROVE  LifeInv' /\ StepOK
<1>1. /\ id \in Stored /\ ~store[id].tombstone
      /\ store' = [store EXCEPT ![id].due = IF @ = "ahead" THEN "due" ELSE "overdue"]
      /\ UNCHANGED <<hold, proposals, shapes, shaped, swept, call, answer, calls, past>>
  BY DEF Age, memory
<1>2. store[id] # Absent /\ RecordOK(store[id])
  BY <1>1, ShownIs DEF Stored
<1> DEFINE due == IF store[id].due = "ahead" THEN "due" ELSE "overdue"
<1>3. due \in {"none", "ahead", "due", "overdue"}
  OBVIOUS
<1>4. /\ DOMAIN store = Ids /\ DOMAIN store' = Ids
      /\ store'[id] = [store[id] EXCEPT !.due = due]
      /\ \A i \in Ids \ {id} : store'[i] = store[i]
  BY <1>1 DEF LifeInv
<1> HIDE DEF due
<1>5. Stands(store[id], store'[id])
  BY <1>1, <1>2, <1>3, <1>4, AgedStands
<1>6. \A i \in Ids : Moves(i)
  BY <1>1, <1>2, <1>4, <1>5 DEF Moves
<1>7. RestOK'
  BY <1>1 DEF LifeInv, RestOK
<1>8. past' \in [Ids -> Pasts] /\ (\A i \in Ids : PastMoves(i)) /\ ProposalsOK' /\ OneOpenPerHold'
      /\ CallOK' /\ ShapesTyped(shapes') /\ (\A i \in Ids : ShapeMoves(i))
  BY <1>1, PastStays, ProposalsStay, CallStays, ShapesStay
<1> QED
  BY <1>1, <1>4, <1>6, <1>7, <1>8, MovesLife

-----------------------------------------------------------------------------
(* The steps that leave the records alone.                                 *)

LEMMA StillLife ==
  ASSUME LifeInv, UNCHANGED <<hold, store, past>>,
         ShapesTyped(shapes'), \A i \in Ids : ShapeMoves(i),
         ProposalsOK', OneOpenPerHold', CallOK', RestOK'
  PROVE  LifeInv' /\ StepOK
<1>1. DOMAIN store' = Ids /\ \A i \in Ids : Moves(i)
  BY DEF LifeInv, Moves
<1>2. past' \in [Ids -> Pasts] /\ \A i \in Ids : PastMoves(i)
  BY PastStays
<1> QED
  BY <1>1, <1>2, MovesLife

LEMMA NoShapesOK ==
  ASSUME shapes' = NoShapes, shaped' = FALSE
  PROVE  ShapesTyped(shapes') /\ \A i \in Ids : ShapeMoves(i)
<1>1. DOMAIN shapes' = {} /\ ~shaped'
  BY DEF NoShapes
<1> QED
  BY <1>1 DEF ShapesTyped, ShapeMoves

LEMMA NewDayLife ==
  ASSUME LifeInv, NewDay
  PROVE  LifeInv' /\ StepOK
<1>1. RestOK'
  BY DEF LifeInv, RestOK, NewDay
<1>2. UNCHANGED <<hold, store, past, shapes, shaped, proposals, call>>
  BY DEF NewDay
<1> QED
  BY <1>1, <1>2, ShapesStay, ProposalsStay, CallStays, StillLife

LEMMA CrashLife ==
  ASSUME LifeInv, Crash
  PROVE  LifeInv' /\ StepOK
<1>1. RestOK'
  BY DEF LifeInv, RestOK, Crash
<1>2. UNCHANGED <<hold, store, past, proposals>> /\ call' = Idle
      /\ shapes' = NoShapes /\ shaped' = FALSE
  BY DEF Crash
<1> QED
  BY <1>1, <1>2, NoShapesOK, ProposalsStay, IdleOK, StillLife

LEMMA EvictShapesLife ==
  ASSUME LifeInv, EvictShapes
  PROVE  LifeInv' /\ StepOK
<1>1. RestOK'
  BY DEF LifeInv, RestOK, EvictShapes
<1>2. UNCHANGED <<hold, store, past, proposals, call>>
      /\ shapes' = NoShapes /\ shaped' = FALSE
  BY DEF EvictShapes
<1> QED
  BY <1>1, <1>2, NoShapesOK, ProposalsStay, CallStays, StillLife

LEMMA AcceptAgainLife ==
  ASSUME LifeInv, NEW q \in Proposals, AcceptAgain(q)
  PROVE  LifeInv' /\ StepOK
<1>1. /\ UNCHANGED <<hold, store, shapes, shaped, swept, proposals, call, past>>
      /\ proposals[q] # Absent /\ proposals[q].status = "accepted"
      /\ answer'.id = proposals[q].atom /\ calls' \in 0..MaxCalls
  BY CalledIs DEF AcceptAgain
<1>2. answer'.id \in Ids
  BY <1>1 DEF LifeInv, ProposalsOK, ProposalOK
<1>3. RestOK'
  BY <1>1, <1>2 DEF LifeInv, RestOK
<1> QED
  BY <1>1, <1>3, ShapesStay, ProposalsStay, CallStays, StillLife

(* A new line of the proposal file.                                        *)
LEMMA FiledIs ==
  ASSUME NEW text \in Seq(STRING) \ {<<>>}, NEW body, body # Absent => RecordOK(body), NEW flagged
  PROVE  LET p == Filed(text, body, flagged)
         IN ProposalOK(p) /\ p.status = "open" /\ p.body = body
<1> DEFINE p == Filed(text, body, flagged)
<1>1. /\ DOMAIN p = {"status", "text", "body", "atom", "flagged"}
      /\ p.status = "open" /\ p.text = text /\ p.body = body
  BY DEF Filed
<1> QED
  BY <1>1 DEF ProposalOK

LEMMA ProposeLife ==
  ASSUME LifeInv, NEW text \in Mined, Propose(text)
  PROVE  LifeInv' /\ StepOK
<1>1. PICK q \in Proposals, flagged \in BOOLEAN :
        /\ proposals[q] = Absent
        /\ proposals' = [proposals EXCEPT ![q] = Filed(text, Absent, flagged)]
  BY DEF Propose
<1>2. UNCHANGED <<hold, store, shapes, shaped, swept, call, answer, past>>
      /\ calls < MaxCalls /\ calls' = calls + 1
  BY DEF Propose, memory
<1>3. text \in Seq(STRING) \ {<<>>}
  BY BodiesAssumption DEF BodiesAssumption
<1>4. LET p == Filed(text, Absent, flagged)
      IN ProposalOK(p) /\ p.status = "open" /\ p.body = Absent
  BY <1>3, FiledIs
<1>5. /\ DOMAIN proposals = Proposals
      /\ \A r \in Proposals : proposals[r] # Absent => ProposalOK(proposals[r])
      /\ OneOpenPerHold
  BY DEF LifeInv, ProposalsOK
<1>6. /\ DOMAIN proposals' = Proposals
      /\ ProposalOK(proposals'[q]) /\ proposals'[q].body = Absent
      /\ \A r \in Proposals \ {q} : proposals'[r] = proposals[r]
  BY <1>1, <1>4, <1>5
<1>7. ProposalsOK'
  BY <1>5, <1>6 DEF ProposalsOK
<1>8. OneOpenPerHold'
  BY <1>5, <1>6 DEF OneOpenPerHold, SameHold
<1>9. CallOK'
  BY <1>1, <1>2, <1>6 DEF LifeInv, CallOK
<1>10. RestOK'
  <2>1. calls \in 0..MaxCalls /\ MaxCalls \in Nat
    BY ConstantsAssumption DEF ConstantsAssumption, LifeInv, RestOK
  <2>2. calls' \in 0..MaxCalls
    BY <1>2, <2>1
  <2> QED
    BY <1>2, <2>2 DEF LifeInv, RestOK
<1> QED
  BY <1>2, <1>7, <1>8, <1>9, <1>10, ShapesStay, StillLife

LEMMA MarkAcceptedLife ==
  ASSUME LifeInv, MarkAccepted
  PROVE  LifeInv' /\ StepOK
<1> DEFINE q == call.proposal
<1>1. /\ proposals' = [proposals EXCEPT ![q].status = "accepted", ![q].atom = call.id]
      /\ call' = Idle
      /\ UNCHANGED <<hold, store, shapes, shaped, swept, answer, calls, past>>
  BY DEF MarkAccepted
<1>2. q \in Proposals /\ proposals[q] # Absent /\ call.id \in Ids
  BY CallIs DEF MarkAccepted
<1>3. /\ DOMAIN proposals = Proposals
      /\ \A r \in Proposals : proposals[r] # Absent => ProposalOK(proposals[r])
      /\ OneOpenPerHold
  BY DEF LifeInv, ProposalsOK
<1> HIDE DEF q
<1>4. /\ DOMAIN proposals' = Proposals
      /\ proposals'[q] = [proposals[q] EXCEPT !.status = "accepted", !.atom = call.id]
      /\ \A r \in Proposals \ {q} : proposals'[r] = proposals[r]
  BY <1>1, <1>2, <1>3
<1>5. ProposalOK(proposals[q])
  BY <1>2, <1>3
<1>6. /\ proposals'[q].status = "accepted" /\ proposals'[q].atom = call.id
      /\ proposals'[q].text = proposals[q].text /\ proposals'[q].body = proposals[q].body
      /\ DOMAIN proposals'[q] = {"status", "text", "body", "atom", "flagged"}
  BY <1>4, <1>5 DEF ProposalOK
<1>7. ProposalOK(proposals'[q])
  BY <1>2, <1>5, <1>6 DEF ProposalOK
<1>8. ProposalsOK'
  BY <1>3, <1>4, <1>7 DEF ProposalsOK
<1>9. OneOpenPerHold'
  <2> SUFFICES ASSUME NEW p \in Proposals, NEW r \in Proposals, p # r,
                      proposals'[p] # Absent, proposals'[p].body # Absent,
                      proposals'[p].status = "open"
               PROVE  ~SameHold(proposals'[r], proposals'[p].body)
    BY DEF OneOpenPerHold
  <2>1. proposals'[p] = proposals[p]
    BY <1>4, <1>6
  <2>2. CASE r = q
    BY <1>6, <2>2 DEF SameHold
  <2>3. CASE r # q
    BY <1>3, <1>4, <2>1, <2>3 DEF OneOpenPerHold
  <2> QED
    BY <2>2, <2>3
<1>10. RestOK'
  BY <1>1 DEF LifeInv, RestOK
<1>11. CallOK'
  BY <1>1, IdleOK
<1> QED
  BY <1>1, <1>8, <1>9, <1>10, <1>11, ShapesStay, StillLife

-----------------------------------------------------------------------------
(* The writes of one record.                                               *)

(* One record is written, which was not retired and is not; the others     *)
(* move on.                                                                *)
LEMMA WrittenLife ==
  ASSUME LifeInv, UNCHANGED hold, DOMAIN store' = Ids, past' \in [Ids -> Pasts],
         NEW id \in Ids,
         \A i \in Ids \ {id} : Moves(i) /\ PastMoves(i),
         RecordStands(id)', ~Retired(id), ~Retired(id)',
         \A i \in Ids : ShapeFollows(i)', DuplicatesComeFromEdits',
         ShapesTyped(shapes'), ProposalsOK', OneOpenPerHold', CallOK', RestOK'
  PROVE  LifeInv' /\ StepOK
<1>1. past \in [Ids -> Pasts] /\ \A i \in Ids : RecordStands(i)
  BY DEF LifeInv
<1>2. ASSUME NEW i \in Ids PROVE RecordStands(i)'
  <2>1. CASE i = id
    BY <2>1
  <2>2. CASE i # id
    BY <1>1, <2>2, MovesKeepsRecord
  <2> QED
    BY <2>1, <2>2
<1>3. ASSUME NEW i \in Ids
      PROVE  /\ Retired(i) => store'[i] = store[i]
             /\ store[i] # Absent /\ store[i].forgotten # "neglect"
                /\ Retired(i)' /\ store'[i].forgotten = "neglect" => ~past[i].recalled
  <2>1. CASE i = id
    BY <2>1
  <2>2. CASE i # id
    BY <1>1, <2>2, MovesStepOK
  <2> QED
    BY <2>1, <2>2
<1>4. StepOK
  BY <1>3 DEF StepOK, Stored
<1> QED
  BY <1>2, <1>4 DEF LifeInv

(* The history of an edit.                                                 *)
LEMMA SankIs ==
  ASSUME NEW p \in Pasts, NEW a
  PROVE  /\ Sank(p, a) = [p EXCEPT !.lowest = Lower(p.lowest, Provenance(a))]
         /\ Sank(p, a) \in Pasts
         /\ Sank(p, a).lowest = Lower(p.lowest, Provenance(a))
<1>1. Lower(p.lowest, Provenance(a)) \in Provenances
  BY ProvenanceType, LowerIsLower DEF Pasts
<1> QED
  BY <1>1 DEF Sank, Pasts

LEMMA UpdateLife ==
  ASSUME LifeInv, NEW id \in Ids, NEW fields \in Edits, Update(id, fields)
  PROVE  LifeInv' /\ StepOK
<1> DEFINE a == store[id]
           b == store'[id]
           p == past[id]
           sank == Sank(p, b)
<1>1. /\ id \in ShownIds
      /\ store' = [store EXCEPT ![id] = Updated(@, fields)]
      /\ past' = [past EXCEPT ![id] =
                    [Sank(past[id], store'[id]) EXCEPT
                       !.edited = TRUE,
                       !.recalled = @ /\ "review" \notin DOMAIN fields]]
      /\ UNCHANGED <<hold, shapes, shaped, swept, proposals, call>>
      /\ answer' = Absent /\ calls' \in 0..MaxCalls
  BY CalledIs DEF Update
<1>2. a # Absent /\ ~a.tombstone /\ RecordOK(a)
  BY <1>1, ShownAre, ShownIs
<1>3. /\ DOMAIN store = Ids /\ past \in [Ids -> Pasts] /\ p \in Pasts
      /\ \A i \in Ids : RecordStands(i) /\ ShapeFollows(i)
  BY DEF LifeInv
<1>4. /\ DOMAIN store' = Ids
      /\ b = Updated(a, fields)
      /\ \A i \in Ids \ {id} : store'[i] = store[i]
  BY <1>1, <1>3
<1>5. /\ RecordOK(b) /\ b.id = id /\ b.tombstone = FALSE
      /\ b.review = Over(a, fields).review
      /\ AtMost(Floor(b), Floor(a)) /\ AtMost(Floor(b), Provenance(b))
  <2>1. FieldsOK(Over(Blank, fields))
    BY BodiesAssumption DEF BodiesAssumption
  <2>2. Over(a, fields).text # <<>>
    BY DEF Update, Valid
  <2>3. a.id = id
    BY <1>2, <1>3 DEF RecordStands
  <2> HIDE DEF a, b
  <2> QED
    BY <1>2, <1>4, <2>1, <2>2, <2>3, UpdatedIs
<1>6. /\ past' = [past EXCEPT ![id] = [sank EXCEPT !.edited = TRUE,
                                        !.recalled = @ /\ "review" \notin DOMAIN fields]]
  BY <1>1, <1>3
<1>7. sank \in Pasts /\ sank.lowest = Lower(p.lowest, Provenance(b)) /\ sank.recalled = p.recalled
  BY <1>3, SankIs DEF Pasts
<1>8. /\ past' \in [Ids -> Pasts]
      /\ past'[id].lowest = sank.lowest /\ past'[id].edited = TRUE
      /\ past'[id].recalled => p.recalled /\ "review" \notin DOMAIN fields
      /\ \A i \in Ids \ {id} : past'[i] = past[i]
  <2> HIDE DEF sank, p
  <2>1. /\ past'[id] = [sank EXCEPT !.edited = TRUE,
                                    !.recalled = @ /\ "review" \notin DOMAIN fields]
        /\ DOMAIN past' = Ids /\ \A i \in Ids \ {id} : past'[i] = past[i]
    BY <1>3, <1>6
  <2>2. /\ past'[id] \in Pasts /\ past'[id].lowest = sank.lowest /\ past'[id].edited = TRUE
        /\ past'[id].recalled => sank.recalled /\ "review" \notin DOMAIN fields
    <3> DEFINE table == sank.recalled /\ "review" \notin DOMAIN fields
    <3>1. table \in BOOLEAN
      BY Zenon
    <3>2. past'[id] = [sank EXCEPT !.edited = TRUE, !.recalled = table]
      BY <2>1, Zenon
    <3> HIDE DEF table
    <3>3. /\ past'[id] \in Pasts /\ past'[id].lowest = sank.lowest /\ past'[id].edited = TRUE
          /\ past'[id].recalled = table
      BY <1>7, <3>1, <3>2 DEF Pasts
    <3> QED
      BY <3>3, Zenon DEF table
  <2>3. past' \in [Ids -> Pasts]
    BY <1>3, <1>6, <2>1, <2>2
  <2> QED
    BY <1>7, <2>1, <2>2, <2>3
<1> HIDE DEF a, b, p, sank
<1>9. RecordStands(id)'
  <2>1. /\ AtMost(Floor(a), p.lowest) /\ (p.recalled => Recalls(a) > 0)
    BY <1>2, <1>3 DEF RecordStands, a, p
  <2>2. /\ Floor(a) \in Provenances /\ Floor(b) \in Provenances
        /\ Provenance(b) \in Provenances /\ p.lowest \in Provenances
    BY <1>2, <1>3, <1>5, RecordFields, FloorType, ProvenanceType DEF Pasts
  <2>3. AtMost(Floor(b), past'[id].lowest)
    BY <1>5, <1>7, <1>8, <2>1, <2>2, AtMostOrder, LowerIsLower
  <2>4. past'[id].recalled => Recalls(b) > 0
    <3>1. "review" \notin DOMAIN fields => Over(a, fields).review = a.review
      BY <1>2, RecordFields, OverIs DEF Fields
    <3> QED
      BY <1>5, <1>8, <2>1, <3>1 DEF Recalls
  <2> QED
    BY <1>5, <1>8, <2>3, <2>4 DEF RecordStands, b
<1>10. \A i \in Ids \ {id} : Moves(i) /\ PastMoves(i)
  BY <1>4, <1>8 DEF Moves, PastMoves
<1>11. \A i \in Ids : ShapeFollows(i)'
  BY <1>1, <1>3, <1>4, <1>8 DEF ShapeFollows
<1>12. DuplicatesComeFromEdits'
  <2>1. ASSUME NEW i \in Ids PROVE StaysAlike(i)
    <3>1. CASE i = id
      BY <1>8, <3>1 DEF StaysAlike
    <3>2. CASE i # id
      BY <1>3, <1>10, <3>2, MovesStayAlike
    <3> QED
      BY <3>1, <3>2
  <2> QED
    BY <2>1, NoNewDuplicates DEF LifeInv
<1>13. RestOK'
  BY <1>1 DEF LifeInv, RestOK
<1>14. ~Retired(id) /\ ~Retired(id)'
  BY <1>2, <1>5 DEF Retired, a, b
<1>15. ShapesTyped(shapes') /\ ProposalsOK' /\ OneOpenPerHold' /\ CallOK'
  BY <1>1, ShapesStay, ProposalsStay, CallStays
<1> QED
  BY <1>1, <1>4, <1>8, <1>9, <1>10, <1>11, <1>12, <1>13, <1>14, <1>15, WrittenLife

-----------------------------------------------------------------------------
(* A post, and an accept.                                                  *)

(* What a shape map says of a claim nobody edited.                         *)
Covers(table, i) ==
  store[i] # Absent /\ ~past[i].edited =>
    /\ i \in DOMAIN table => table[i].tokens = WordsOf(store[i].text)
    /\ IsLive(store[i]) => i \in DOMAIN table

LEMMA ShapeIs ==
  ASSUME NEW a
  PROVE  ShapeOf(a).gate \subseteq ShapeOf(a).entities /\ ShapeOf(a).tokens = WordsOf(a.text)
  BY DEF ShapeOf, Gate

(* A write starts from a map that covers every live claim.                 *)
LEMMA ShapedOnceIs ==
  ASSUME LifeInv
  PROVE  /\ ShapesTyped(ShapedOnce) /\ DOMAIN ShapedOnce \subseteq ShownIds
         /\ \A i \in Ids : Covers(ShapedOnce, i)
<1> DEFINE rec == Reconciled
<1>1. ShapesTyped(shapes) /\ \A i \in Ids : RecordStands(i) /\ ShapeFollows(i)
  BY DEF LifeInv
<1>2. /\ DOMAIN rec = DOMAIN shapes \cap ShownIds
      /\ \A i \in DOMAIN rec : rec[i] = shapes[i]
      /\ ShapesTyped(rec)
  BY <1>1, UnshapedIs DEF Reconciled
<1> HIDE DEF rec
<1>3. CASE shaped
  <2>1. ShapedOnce = rec
    BY <1>3 DEF ShapedOnce, rec
  <2>2. \A i \in Ids : Covers(rec, i)
    <3> SUFFICES ASSUME NEW i \in Ids, store[i] # Absent, ~past[i].edited
                 PROVE  /\ i \in DOMAIN rec => rec[i].tokens = WordsOf(store[i].text)
                        /\ IsLive(store[i]) => i \in DOMAIN rec
      BY DEF Covers
    <3>1. /\ i \in DOMAIN shapes => shapes[i].tokens = WordsOf(store[i].text)
          /\ IsLive(store[i]) => i \in DOMAIN shapes
      BY <1>1, <1>3 DEF ShapeFollows
    <3>2. IsLive(store[i]) => i \in ShownIds
      BY DEF ShownIds, Stored, Shown, IsLive
    <3> QED
      BY <1>2, <3>1, <3>2
  <2> QED
    BY <1>2, <2>1, <2>2
<1>4. CASE ~shaped
  <2> DEFINE all == [i \in ShownIds |-> KeptShape(rec, store[i])]
  <2>1. ShapedOnce = all
    BY <1>4 DEF ShapedOnce, rec
  <2>2. ASSUME NEW i \in ShownIds
        PROVE  all[i] = IF i \in DOMAIN rec THEN shapes[i] ELSE ShapeOf(store[i])
    <3>1. i \in Ids /\ store[i] # Absent
      BY ShownAre
    <3>2. store[i].id = i
      BY <1>1, <3>1 DEF RecordStands
    <3> QED
      BY <1>2, <3>2 DEF KeptShape
  <2>3. DOMAIN all = ShownIds
    OBVIOUS
  <2> HIDE DEF all
  <2>4. ShapesTyped(all)
    BY <1>1, <1>2, <2>2, <2>3, ShownAre, ShapeIs DEF ShapesTyped
  <2>5. ASSUME NEW i \in Ids PROVE Covers(all, i)
    <3> SUFFICES ASSUME store[i] # Absent, ~past[i].edited
                 PROVE  /\ i \in DOMAIN all => all[i].tokens = WordsOf(store[i].text)
                        /\ IsLive(store[i]) => i \in DOMAIN all
      BY DEF Covers
    <3>1. i \in DOMAIN rec => shapes[i].tokens = WordsOf(store[i].text)
      BY <1>1, <1>2 DEF ShapeFollows
    <3>2. IsLive(store[i]) => i \in ShownIds
      BY DEF ShownIds, Stored, Shown, IsLive
    <3> QED
      BY <2>2, <2>3, <3>1, <3>2, ShapeIs
  <2> QED
    BY <2>1, <2>3, <2>4, <2>5
<1> QED
  BY <1>3, <1>4

(* A live claim with the words of a new one is among its candidates.       *)
LEMMA SameIsCandidate ==
  ASSUME NEW id, NEW a, IsPrepared(a, id), NEW table, NEW j \in LiveIds,
         j \in DOMAIN table, table[j].tokens = WordsOf(store[j].text),
         store[j].text = a.text, store[j].set = a.set
  PROVE  j \in Candidates(a, table)
<1>1. a.text \in Seq(STRING) /\ a.text # <<>>
  BY RecordFields DEF IsPrepared
<1>2. DOMAIN a.text # {}
  <2> DEFINE text == a.text
  <2>1. text \in Seq(STRING) /\ text # <<>>
    BY <1>1
  <2> HIDE DEF text
  <2>2. Len(text) \in Nat \ {0} /\ DOMAIN text = 1..Len(text)
    BY <2>1, EmptySeq
  <2>3. 1 \in DOMAIN text
    BY <2>2
  <2> QED
    BY <2>3 DEF text
<1>3. WordsOf(a.text) # {}
  BY <1>2 DEF WordsOf
<1>4. table[j].tokens \cap ShapeOf(a).tokens # {}
  BY <1>3, ShapeIs
<1> QED
  BY <1>4, ShownAre DEF Candidates

(* A claim that waits is filed.                                            *)
LEMMA HoldLife ==
  ASSUME LifeInv, Called, UNCHANGED <<hold, swept>>,
         NEW id \in Ids, NEW a, IsPrepared(a, id), Hold(a)
  PROVE  LifeInv' /\ StepOK
<1>1. UNCHANGED <<hold, store, shapes, shaped, swept, past, call>> /\ answer' = Absent
      /\ call = Idle /\ calls' \in 0..MaxCalls
  BY CalledIs DEF Hold
<1>2. RestOK'
  BY <1>1 DEF LifeInv, RestOK
<1>3. CallOK'
  BY <1>1, IdleOK
<1>4. ProposalsOK' /\ OneOpenPerHold'
  <2>1. CASE \E q \in Proposals : SameHold(proposals[q], a)
    BY <2>1, ProposalsStay DEF Hold
  <2>2. CASE ~ \E q \in Proposals : SameHold(proposals[q], a)
    <3> DEFINE filed == Filed(a.text, a, FALSE)
    <3>1. PICK q \in Proposals :
            proposals[q] = Absent /\ proposals' = [proposals EXCEPT ![q] = filed]
      BY <2>2 DEF Hold
    <3>2. ProposalOK(filed) /\ filed.body = a
      <4>1. RecordOK(a) /\ a.text \in Seq(STRING) \ {<<>>}
        BY RecordFields DEF IsPrepared
      <4> QED
        BY <4>1, FiledIs
    <3> HIDE DEF filed
    <3>3. /\ DOMAIN proposals = Proposals
          /\ \A r \in Proposals : proposals[r] # Absent => ProposalOK(proposals[r])
          /\ OneOpenPerHold
      BY DEF LifeInv, ProposalsOK
    <3>4. /\ DOMAIN proposals' = Proposals
          /\ proposals'[q] = filed
          /\ \A r \in Proposals \ {q} : proposals'[r] = proposals[r]
      BY <3>1, <3>3
    <3>5. ProposalsOK'
      BY <3>2, <3>3, <3>4 DEF ProposalsOK
    <3>6. OneOpenPerHold'
      <4> SUFFICES ASSUME NEW p \in Proposals, NEW r \in Proposals, p # r,
                          proposals'[p] # Absent, proposals'[p].body # Absent,
                          proposals'[p].status = "open",
                          SameHold(proposals'[r], proposals'[p].body)
                   PROVE  FALSE
        BY DEF OneOpenPerHold
      <4>1. CASE p = q
        BY <2>2, <3>2, <3>4, <4>1
      <4>2. CASE r = q
        <5>1. proposals'[p] = proposals[p] /\ proposals'[r].body = a
          BY <3>2, <3>4, <4>2
        <5>2. SameHold(proposals[p], a)
          BY <5>1 DEF SameHold
        <5> QED
          BY <2>2, <5>2
      <4>3. CASE p # q /\ r # q
        BY <3>3, <3>4, <4>3 DEF OneOpenPerHold
      <4> QED
        BY <4>1, <4>2, <4>3
    <3> QED
      BY <3>5, <3>6
  <2> QED
    BY <2>1, <2>2
<1> QED
  BY <1>1, <1>2, <1>3, <1>4, ShapesStay, StillLife

(* The claim is there already.                                             *)
LEMMA RepeatLife ==
  ASSUME LifeInv, Called, UNCHANGED <<hold, swept>>,
         NEW id \in Ids, NEW a, IsPrepared(a, id),
         NEW accepted \in BOOLEAN, accepted => a.origin = "user-declared",
         NEW proposal \in Proposals \cup {Absent},
         proposal # Absent => proposals[proposal] # Absent,
         accepted => proposal # Absent,
         NEW e \in ShownIds, Repeat(a, e, ShapedOnce, accepted, proposal)
  PROVE  LifeInv' /\ StepOK
<1> DEFINE old == store[e]
           raised == [old EXCEPT !.origin = a.origin, !.hook = FALSE,
                                 !.warnings = @ \cup a.warnings]
<1>1. /\ store' = IF accepted THEN [store EXCEPT ![e] = raised] ELSE store
      /\ past' = IF accepted THEN [past EXCEPT ![e].lowest = Provenance(raised)] ELSE past
      /\ shapes' = ShapedOnce
      /\ shaped' = TRUE
      /\ answer' = [id |-> e, text |-> a.text]
      /\ call' = IF accepted THEN [step |-> "mark", proposal |-> proposal, id |-> e] ELSE Idle
      /\ UNCHANGED <<hold, swept, proposals>>
      /\ calls' \in 0..MaxCalls
  BY CalledIs DEF Repeat
<1>2. e \in Ids /\ old # Absent /\ ~old.tombstone /\ RecordOK(old) /\ old.id = e
  <2>1. e \in Ids /\ store[e] # Absent /\ ~store[e].tombstone
    BY ShownAre
  <2> QED
    BY <2>1, ShownIs
<1>3. /\ DOMAIN store = Ids /\ past \in [Ids -> Pasts]
      /\ \A i \in Ids : RecordStands(i)
  BY DEF LifeInv
<1>4. ShapesTyped(shapes') /\ \A i \in Ids : Covers(shapes', i)
  BY <1>1, ShapedOnceIs
<1>5. ProposalsOK' /\ OneOpenPerHold'
  BY <1>1, ProposalsStay
<1>6. CallOK'
  <2>1. CASE accepted
    <3>1. call' = [step |-> "mark", proposal |-> proposal, id |-> e]
      BY <1>1, <2>1
    <3> QED
      BY <1>1, <1>2, <2>1, <3>1 DEF CallOK
  <2>2. CASE ~accepted
    BY <1>1, <2>2, IdleOK
  <2> QED
    BY <2>1, <2>2
<1>7. RestOK'
  <2>1. shaped' \in BOOLEAN
    BY <1>1, Zenon
  <2>2. answer'.id \in Ids
    BY <1>1, <1>2
  <2>3. hold' \in BOOLEAN /\ swept' \in BOOLEAN
    BY <1>1 DEF LifeInv, RestOK
  <2> QED
    BY <1>1, <2>1, <2>2, <2>3 DEF RestOK
<1>8. \A i \in Ids \ {e} : store'[i] = store[i] /\ past'[i] = past[i]
  BY <1>1, <1>2, <1>3
<1>9. DOMAIN store' = Ids
  BY <1>1, <1>3
<1>10. CASE ~accepted
  <2>1. UNCHANGED <<store, past>>
    BY <1>1, <1>10
  <2>2. past' \in [Ids -> Pasts] /\ \A i \in Ids : Moves(i) /\ PastMoves(i)
    BY <1>3, <2>1 DEF Moves, PastMoves
  <2>3. \A i \in Ids : ShapeFollows(i)'
    BY <1>4, <2>1 DEF Covers, ShapeFollows
  <2>4. DuplicatesComeFromEdits'
    BY <1>3, <2>2, MovesStayAlike, NoNewDuplicates DEF LifeInv
  <2>5. RecordStands(e)' /\ ~Retired(e) /\ ~Retired(e)'
    BY <1>2, <1>3, <2>1, <2>2, MovesKeepsRecord DEF Retired
  <2> QED
    BY <1>1, <1>2, <1>4, <1>5, <1>6, <1>7, <1>9, <2>2, <2>3, <2>4, <2>5, WrittenLife
<1>11. CASE accepted
  <2> DEFINE new == store'[e]
  <2>1. new = [old EXCEPT !.origin = "user-declared", !.hook = FALSE,
                          !.warnings = @ \cup a.warnings]
    BY <1>1, <1>2, <1>3, <1>11
  <2>2. new = raised
    BY <1>1, <1>2, <1>3, <1>11
  <2> HIDE DEF new, old, raised
  <2>3. Continues(old, new) /\ ~Waits(new) /\ AtMost(Floor(new), Provenance(new))
    BY <1>2, <2>1, RaisedIs
  <2>4. /\ past' \in [Ids -> Pasts]
        /\ past'[e].lowest = Provenance(new)
        /\ past'[e].edited = past[e].edited /\ past'[e].recalled = past[e].recalled
    <3>1. past' = [past EXCEPT ![e].lowest = Provenance(new)]
      BY <1>1, <1>11, <2>2
    <3>2. Provenance(new) \in Provenances
      BY ProvenanceType
    <3> QED
      BY <1>2, <1>3, <3>1, <3>2 DEF Pasts
  <2>5. RecordStands(e)'
    <3>1. RecordOK(new) /\ new.id = old.id /\ Recalls(new) >= Recalls(old)
      BY <2>3 DEF Continues
    <3>2. Recalls(new) \in Nat /\ Recalls(old) \in Nat
      BY <1>2, <3>1, RecallsType
    <3>3. past[e].recalled => Recalls(old) > 0
      BY <1>2, <1>3 DEF RecordStands, old
    <3>4. past'[e].recalled => Recalls(new) > 0
      BY <2>4, <3>1, <3>2, <3>3
    <3> QED
      BY <1>2, <2>3, <2>4, <3>1, <3>4 DEF RecordStands, new
  <2>6. /\ new.text = old.text /\ new.kind = old.kind /\ new.set = old.set
        /\ new.subject = old.subject /\ (IsLive(new) => IsLive(old)) /\ ~new.tombstone
    <3>1. new.tombstone = old.tombstone
      BY <1>2, <2>1, RecordFields DEF Fields
    <3> QED
      BY <1>2, <2>3, <3>1 DEF Continues
  <2>7. \A i \in Ids : ShapeFollows(i)'
    <3>1. ASSUME NEW i \in Ids PROVE ShapeFollows(i)'
      <4>1. CASE i = e
        <5>1. Covers(shapes', e)
          BY <1>2, <1>4
        <5> QED
          BY <1>2, <2>4, <2>6, <4>1, <5>1 DEF Covers, ShapeFollows, old, new
      <4>2. CASE i # e
        BY <1>4, <1>8, <4>2 DEF Covers, ShapeFollows
      <4> QED
        BY <4>1, <4>2
    <3> QED
      BY <3>1
  <2>8. \A i \in Ids \ {e} : Moves(i) /\ PastMoves(i)
    BY <1>8 DEF Moves, PastMoves
  <2>9. DuplicatesComeFromEdits'
    <3>1. ASSUME NEW i \in Ids PROVE StaysAlike(i)
      <4>1. CASE i = e
        BY <1>2, <2>4, <2>6, <4>1 DEF StaysAlike, LiveIds, Stored, old, new
      <4>2. CASE i # e
        BY <1>3, <2>8, <4>2, MovesStayAlike
      <4> QED
        BY <4>1, <4>2
    <3> QED
      BY <3>1, NoNewDuplicates DEF LifeInv
  <2>10. ~Retired(e) /\ ~Retired(e)'
    BY <1>2, <2>6 DEF Retired, old, new
  <2> QED
    BY <1>1, <1>2, <1>4, <1>5, <1>6, <1>7, <1>9, <2>4, <2>5, <2>7, <2>8, <2>9, <2>10, WrittenLife
<1> QED
  BY <1>10, <1>11

(* A new claim, or a new text under an old id.                             *)
LEMMA StoreNewLife ==
  ASSUME LifeInv, Called, UNCHANGED <<hold, swept>>,
         NEW id \in Ids, NEW a, IsPrepared(a, id), ~Retired(id),
         NEW accepted \in BOOLEAN, hold => ~Waits(a),
         NEW proposal \in Proposals \cup {Absent},
         proposal # Absent => proposals[proposal] # Absent,
         \A i \in Candidates(a, ShapedOnce) : ~SameClaim(store[i], a),
         StoreNew(a, ShapedOnce, Candidates(a, ShapedOnce), accepted, proposal)
  PROVE  LifeInv' /\ StepOK
<1> DEFINE table == ShapedOnce
           cands == Candidates(a, table)
           over == store[id]
           closed == {i \in cands : /\ IsLive(a)
                                    /\ ReplacesShaped(a, ShapeOf(a), store[i], KeptShape(table, store[i]))}
           d == Dated(a, over, closed, accepted)
           inserted == [store EXCEPT ![id] = d]
           new == store'[id]
<1>1. a.id = id /\ RecordOK(a) /\ a.text \in Seq(STRING)
  BY RecordFields DEF IsPrepared
<1>2. /\ store' = [i \in Ids |->
                     IF i \in closed THEN [store[i] EXCEPT !.closed = TRUE] ELSE inserted[i]]
      /\ shapes' = Unshaped(WithShape(table, a), closed)
      /\ shaped' = TRUE
      /\ answer' = [id |-> id, text |-> a.text]
      /\ call' = [step |-> "cap", proposal |-> proposal, id |-> id]
      /\ past' = [past EXCEPT ![id] =
                    IF over = Absent \/ accepted
                    THEN [NoPast EXCEPT !.lowest = Provenance(new), !.edited = over # Absent]
                    ELSE Sank([NoPast EXCEPT !.lowest = past[id].lowest, !.edited = TRUE], new)]
      /\ UNCHANGED <<hold, swept, proposals>>
      /\ calls' \in 0..MaxCalls
  BY <1>1, CalledIs DEF StoreNew
<1>3. /\ DOMAIN store = Ids /\ past \in [Ids -> Pasts] /\ past[id] \in Pasts
      /\ \A i \in Ids : RecordStands(i)
  BY DEF LifeInv
<1>4. ShapesTyped(table) /\ DOMAIN table \subseteq ShownIds /\ \A i \in Ids : Covers(table, i)
  BY ShapedOnceIs
<1>5. cands \subseteq ShownIds /\ closed \subseteq cands
  BY DEF Candidates
<1>6. ShownIds \subseteq Ids /\ \A i \in ShownIds : store[i] # Absent /\ ~store[i].tombstone
  BY ShownAre
<1>7. \A i \in cands : ~SameClaim(store[i], a)
  OBVIOUS
<1> HIDE DEF table, cands, closed, d
<1>8. ASSUME NEW i \in closed
      PROVE  /\ i \in Ids /\ store[i] # Absent /\ ~store[i].tombstone /\ RecordOK(store[i])
             /\ store'[i] = [store[i] EXCEPT !.closed = TRUE]
             /\ Stands(store[i], store'[i]) /\ ~IsLive(store'[i]) /\ ~store'[i].tombstone
  <2>1. i \in Ids /\ store[i] # Absent /\ ~store[i].tombstone
    BY <1>5, <1>6
  <2>2. RecordOK(store[i])
    BY <2>1, ShownIs
  <2>3. store'[i] = [store[i] EXCEPT !.closed = TRUE]
    BY <1>2, <2>1
  <2>4. Stands(store[i], store'[i])
    BY <2>1, <2>2, <2>3, ClosedStands
  <2>5. store'[i].closed = TRUE /\ store'[i].tombstone = store[i].tombstone
    BY <2>2, <2>3, RecordFields DEF Fields
  <2> QED
    BY <2>1, <2>2, <2>3, <2>4, <2>5 DEF IsLive
<1>9. \A i \in Ids \ {id} : i \notin closed => store'[i] = store[i]
  BY <1>2, <1>3
<1>10. \A i \in Ids \ {id} : past'[i] = past[i]
  BY <1>2, <1>3
<1>11. DOMAIN store' = Ids
  BY <1>2
<1>12. id \notin closed => new = d
  BY <1>2, <1>3
<1>13. /\ RecordOK(d) /\ d.id = id /\ SameBody(a, d)
       /\ AtMost(Floor(d), Provenance(d))
       /\ over # Absent /\ ~accepted => AtMost(Floor(d), Floor(over))
  <2>1. over # Absent => RecordOK(over)
    BY <1>3 DEF RecordStands
  <2>2. closed \in SUBSET Ids
    BY <1>5, <1>6
  <2> HIDE DEF over
  <2> QED
    BY <2>1, <2>2, DatedIs DEF d
<1>14. over = Absent => id \notin closed /\ id \notin DOMAIN table
  BY <1>4, <1>5, <1>6
<1> HIDE DEF over, inserted, new
<1>15. /\ RecordOK(new) /\ new.id = id /\ ~new.tombstone
       /\ AtMost(Floor(new), Provenance(new))
       /\ over # Absent /\ ~accepted => AtMost(Floor(new), Floor(over))
       /\ hold /\ IsLive(new) => ~Waits(new)
  <2>1. CASE id \in closed
    <3>1. /\ RecordOK(new) /\ new.id = over.id /\ AtMost(Floor(new), Floor(over))
          /\ ~IsLive(new) /\ ~new.tombstone
      BY <1>8, <2>1 DEF Stands, Continues, new, over
    <3>2. over.id = id
      BY <1>3, <1>8, <2>1 DEF RecordStands, over
    <3>3. AtMost(Floor(new), Provenance(new))
      BY <3>1, RecordFields, FloorType
    <3> QED
      BY <3>1, <3>2, <3>3
  <2>2. CASE id \notin closed
    BY <1>12, <1>13, <2>2 DEF SameBody, Waits, IsPrepared
  <2> QED
    BY <2>1, <2>2
<1>16. /\ past' \in [Ids -> Pasts]
       /\ past'[id].recalled = FALSE
       /\ past'[id].edited = (over # Absent)
       /\ AtMost(Floor(new), past'[id].lowest)
  <2>1. Provenance(new) \in Provenances /\ Floor(new) \in Provenances
        /\ past[id].lowest \in Provenances
    BY <1>3, <1>15, RecordFields, FloorType, ProvenanceType DEF Pasts
  <2>2. CASE over = Absent \/ accepted
    <3> DEFINE was == over # Absent
               p == [NoPast EXCEPT !.lowest = Provenance(new), !.edited = was]
    <3>1. past' = [past EXCEPT ![id] = p]
      BY <1>2, <2>2, Zenon
    <3>2. was \in BOOLEAN
      BY Zenon
    <3> HIDE DEF was
    <3>3. /\ p \in Pasts /\ p.recalled = FALSE /\ p.lowest = Provenance(new)
          /\ p.edited = was
      BY <2>1, <3>2 DEF NoPast, Pasts
    <3> HIDE DEF p
    <3>4. past' \in [Ids -> Pasts] /\ past'[id] = p
      BY <1>3, <3>1, <3>3
    <3>5. AtMost(Floor(new), p.lowest)
      BY <1>15, <3>3
    <3> QED
      BY <3>3, <3>4, <3>5, Zenon DEF was
  <2>3. CASE over # Absent /\ ~accepted
    <3> DEFINE n == [NoPast EXCEPT !.lowest = past[id].lowest, !.edited = TRUE]
               p == Sank(n, new)
    <3>1. past' = [past EXCEPT ![id] = p]
      BY <1>2, <2>3
    <3>2. /\ n \in Pasts /\ n.lowest = past[id].lowest
          /\ n.recalled = FALSE /\ n.edited = TRUE
      BY <2>1 DEF NoPast, Pasts
    <3> HIDE DEF n
    <3>3. /\ p \in Pasts /\ p.lowest = Lower(past[id].lowest, Provenance(new))
          /\ p.recalled = FALSE /\ p.edited = TRUE
      BY <3>2, SankIs DEF Pasts
    <3> HIDE DEF p
    <3>4. past' \in [Ids -> Pasts] /\ past'[id] = p
      BY <1>3, <3>1, <3>3
    <3>5. AtMost(Floor(new), past[id].lowest)
      <4>1. AtMost(Floor(over), past[id].lowest) /\ RecordOK(over)
        BY <1>3, <2>3 DEF RecordStands, over
      <4>2. Floor(over) \in Provenances
        BY <4>1, RecordFields, FloorType
      <4> QED
        BY <1>15, <2>1, <2>3, <4>1, <4>2, AtMostOrder
    <3>6. AtMost(Floor(new), p.lowest)
      BY <1>15, <2>1, <3>3, <3>5, LowerIsLower
    <3>7. p.edited = (over # Absent)
      BY <2>3, <3>3
    <3> QED
      BY <3>3, <3>4, <3>6, <3>7, Zenon
  <2> QED
    BY <2>2, <2>3
<1>17. RecordStands(id)'
  BY <1>2, <1>12, <1>14, <1>15, <1>16 DEF RecordStands, new
<1>18. \A i \in Ids \ {id} : Moves(i) /\ PastMoves(i)
  BY <1>8, <1>9, <1>10 DEF Moves, PastMoves
<1>19. /\ ShapesTyped(shapes')
       /\ \A i \in Ids \ {id} : i \notin closed =>
            /\ i \in DOMAIN shapes' <=> i \in DOMAIN table
            /\ i \in DOMAIN table => shapes'[i] = table[i]
       /\ \A i \in closed : i \notin DOMAIN shapes'
       /\ over = Absent => id \in DOMAIN shapes' /\ shapes'[id] = ShapeOf(a)
  <2> DEFINE with == WithShape(table, a)
  <2>1. /\ DOMAIN with = DOMAIN table \cup {id}
        /\ \A i \in DOMAIN table \ {id} : with[i] = table[i]
        /\ with[id] = IF id \in DOMAIN table THEN table[id] ELSE ShapeOf(a)
    BY <1>1 DEF WithShape, KeptShape
  <2> HIDE DEF with
  <2>2. ShapesTyped(with)
    BY <1>4, <2>1, ShapeIs DEF ShapesTyped
  <2>3. /\ DOMAIN shapes' = DOMAIN with \ closed
        /\ \A i \in DOMAIN with \ closed : shapes'[i] = with[i]
        /\ ShapesTyped(shapes')
    BY <1>2, <2>2, UnshapedIs DEF with
  <2> QED
    BY <1>14, <2>1, <2>3
<1>20. ASSUME NEW i \in Ids PROVE ShapeFollows(i)'
  <2>1. CASE i = id
    <3> SUFFICES ASSUME ~past'[i].edited PROVE ShapeFollows(i)'
      BY DEF ShapeFollows
    <3>1. over = Absent
      BY <1>16, <2>1
    <3>2. shapes'[id].tokens = WordsOf(new.text) /\ id \in DOMAIN shapes'
      BY <1>12, <1>13, <1>14, <1>19, <3>1, ShapeIs DEF SameBody
    <3> QED
      BY <2>1, <3>2 DEF ShapeFollows, new
  <2>2. CASE i # id /\ i \in closed
    BY <1>8, <1>19, <2>2 DEF ShapeFollows
  <2>3. CASE i # id /\ i \notin closed
    <3>1. Covers(table, i) /\ store'[i] = store[i] /\ past'[i] = past[i]
      BY <1>4, <1>9, <1>10, <2>3
    <3> QED
      BY <1>19, <2>3, <3>1 DEF Covers, ShapeFollows
  <2> QED
    BY <2>1, <2>2, <2>3
<1>21. \A i \in Ids \ {id} : StaysAlike(i)
  BY <1>3, <1>18, MovesStayAlike
<1>22. ASSUME NEW j \in Ids \ {id}, j \in LiveIds', ~past'[j].edited, over = Absent,
              SameClaim(new, store'[j]) \/ SameClaim(store'[j], new)
       PROVE  FALSE
  <2>1. /\ j \in LiveIds /\ ~past[j].edited
        /\ store'[j].text = store[j].text /\ store'[j].kind = store[j].kind
        /\ store'[j].set = store[j].set /\ store'[j].subject = store[j].subject
    BY <1>21, <1>22 DEF StaysAlike
  <2>2. /\ new.text = a.text /\ new.kind = a.kind /\ new.set = a.set
        /\ new.subject = a.subject
    BY <1>12, <1>13, <1>14, <1>22 DEF SameBody
  <2>3. SameClaim(store[j], a)
    BY <1>22, <2>1, <2>2 DEF SameClaim
  <2>4. j \in DOMAIN table /\ table[j].tokens = WordsOf(store[j].text)
    BY <1>4, <2>1 DEF Covers, LiveIds, Stored
  <2>5. j \in cands
    BY <2>1, <2>3, <2>4, SameIsCandidate DEF SameClaim, cands
  <2> QED
    BY <1>7, <2>3, <2>5
<1>23. DuplicatesComeFromEdits'
  <2> SUFFICES ASSUME NEW i \in LiveIds', NEW j \in LiveIds', i # j,
                      SameClaim(store'[i], store'[j]),
                      ~past'[i].edited, ~past'[j].edited
               PROVE  FALSE
    BY DEF DuplicatesComeFromEdits
  <2>1. i \in Ids /\ j \in Ids
    BY DEF LiveIds, Stored
  <2>2. CASE i = id
    BY <1>16, <1>22, <2>1, <2>2 DEF new
  <2>3. CASE j = id
    BY <1>16, <1>22, <2>1, <2>3 DEF new
  <2>4. CASE i # id /\ j # id
    <3>1. StaysAlike(i) /\ StaysAlike(j)
      BY <1>21, <2>1, <2>4
    <3>2. /\ i \in LiveIds /\ ~past[i].edited /\ j \in LiveIds /\ ~past[j].edited
          /\ SameClaim(store[i], store[j])
      BY <3>1 DEF StaysAlike, SameClaim
    <3> QED
      BY <3>2 DEF LifeInv, DuplicatesComeFromEdits
  <2> QED
    BY <2>2, <2>3, <2>4
<1>24. CallOK'
  BY <1>2 DEF CallOK
<1>25. RestOK'
  <2>1. shaped' \in BOOLEAN
    BY <1>2, Zenon
  <2>2. answer'.id \in Ids
    BY <1>2
  <2>3. hold' \in BOOLEAN /\ swept' \in BOOLEAN
    BY <1>2 DEF LifeInv, RestOK
  <2> QED
    BY <1>2, <2>1, <2>2, <2>3 DEF RestOK
<1>26. ProposalsOK' /\ OneOpenPerHold'
  BY <1>2, ProposalsStay
<1>27. ~Retired(id) /\ ~Retired(id)'
  BY <1>15 DEF Retired, new
<1> QED
  BY <1>2, <1>11, <1>16, <1>17, <1>18, <1>19, <1>20, <1>23, <1>24, <1>25, <1>26, <1>27, WrittenLife

LEMMA AddPreparedLife ==
  ASSUME LifeInv, Called, UNCHANGED <<hold, swept>>,
         NEW id \in Ids, NEW a, IsPrepared(a, id),
         NEW accepted \in BOOLEAN, accepted => a.origin = "user-declared",
         NEW proposal \in Proposals \cup {Absent},
         proposal # Absent => proposals[proposal] # Absent,
         accepted => proposal # Absent,
         AddPrepared(a, accepted, proposal)
  PROVE  LifeInv' /\ StepOK
<1> DEFINE table == ShapedOnce
           cands == Candidates(a, table)
           same == {i \in cands : SameClaim(store[i], a)}
<1>1. a.id = id
  BY DEF IsPrepared
<1>2. /\ ~Retired(id)
      /\ IF NeedsAccept(a.origin, a.hook, hold)
         THEN Hold(a)
         ELSE IF same # {}
              THEN \E i \in same : Repeat(a, i, table, accepted, proposal)
              ELSE StoreNew(a, table, cands, accepted, proposal)
  BY <1>1 DEF AddPrepared
<1>3. CASE NeedsAccept(a.origin, a.hook, hold)
  BY <1>2, <1>3, HoldLife
<1>4. CASE ~NeedsAccept(a.origin, a.hook, hold) /\ same # {}
  <2>1. PICK e \in same : Repeat(a, e, table, accepted, proposal)
    BY <1>2, <1>4
  <2>2. e \in ShownIds
    BY DEF Candidates
  <2> QED
    BY <2>1, <2>2, RepeatLife
<1>5. CASE ~NeedsAccept(a.origin, a.hook, hold) /\ same = {}
  <2>1. StoreNew(a, table, cands, accepted, proposal)
    BY <1>2, <1>5
  <2>2. \A i \in cands : ~SameClaim(store[i], a)
    BY <1>5
  <2>3. hold => ~Waits(a)
    BY <1>5 DEF NeedsAccept, Waits
  <2> HIDE DEF same
  <2> QED
    BY <1>2, <2>1, <2>2, <2>3, StoreNewLife
<1> QED
  BY <1>3, <1>4, <1>5

LEMMA PostLife ==
  ASSUME LifeInv, NEW body \in Posts, NEW id \in Ids, Post(body, id)
  PROVE  LifeInv' /\ StepOK
<1> DEFINE a == Prepared(body, id)
<1>1. Called /\ UNCHANGED <<hold, swept>> /\ AddPrepared(a, FALSE, Absent)
  BY DEF Post
<1>2. FieldsOK(Over(Blank, body)) /\ Over(Blank, body).text # <<>>
  BY BodiesAssumption DEF BodiesAssumption, Post, Valid
<1>3. IsPrepared(a, id)
  BY <1>2, PreparedIs
<1> HIDE DEF a
<1> QED
  BY <1>1, <1>3, AddPreparedLife

LEMMA AcceptLife ==
  ASSUME LifeInv, NEW q \in Proposals, NEW id \in Ids, Accept(q, id)
  PROVE  LifeInv' /\ StepOK
<1> DEFINE a == Accepted(proposals[q], id)
<1>1. Called /\ UNCHANGED <<hold, swept>> /\ AddPrepared(a, TRUE, q) /\ proposals[q] # Absent
  BY DEF Accept
<1>2. ProposalOK(proposals[q])
  BY <1>1 DEF LifeInv, ProposalsOK
<1>3. IsPrepared(a, id) /\ a.origin = "user-declared"
  BY <1>2, AcceptedIs
<1>4. q # Absent
  BY AbsentIs
<1> HIDE DEF a
<1> QED
  BY <1>1, <1>3, <1>4, AddPreparedLife

-----------------------------------------------------------------------------
(* Every step.                                                             *)

LEMMA LifeNext ==
  ASSUME LifeInv, Next
  PROVE  LifeInv' /\ StepOK
<1>1. ASSUME NEW body \in Posts, NEW id \in Ids, Post(body, id) PROVE LifeInv' /\ StepOK
  BY <1>1, PostLife
<1>2. CASE EnforceCap
  BY <1>2, EnforceCapLife
<1>3. ASSUME NEW text \in Mined, Propose(text) PROVE LifeInv' /\ StepOK
  BY <1>3, ProposeLife
<1>4. ASSUME NEW q \in Proposals, NEW id \in Ids, Accept(q, id) PROVE LifeInv' /\ StepOK
  BY <1>4, AcceptLife
<1>5. ASSUME NEW q \in Proposals, AcceptAgain(q) PROVE LifeInv' /\ StepOK
  BY <1>5, AcceptAgainLife
<1>6. CASE MarkAccepted
  BY <1>6, MarkAcceptedLife
<1>7. ASSUME NEW id \in Ids, NEW fields \in Edits, Update(id, fields) PROVE LifeInv' /\ StepOK
  BY <1>7, UpdateLife
<1>8. ASSUME NEW id \in Ids, NEW grade \in {"recalled", "lapsed"}, Grade(id, grade)
      PROVE  LifeInv' /\ StepOK
  BY <1>8, GradeLife
<1>9. ASSUME NEW ids \in SUBSET Ids, Fire(ids) PROVE LifeInv' /\ StepOK
  BY <1>9, FireLife
<1>10. ASSUME NEW id \in Ids, Delete(id) PROVE LifeInv' /\ StepOK
  BY <1>10, DeleteLife
<1>11. CASE Forget
  BY <1>11, ForgetLife
<1>12. ASSUME NEW order \in Orders, Consolidate(order) PROVE LifeInv' /\ StepOK
  BY <1>12, ConsolidateLife
<1>13. CASE Sweep
  BY <1>13, SweepLife
<1>14. ASSUME NEW id \in Ids, Age(id) PROVE LifeInv' /\ StepOK
  BY <1>14, AgeLife
<1>15. CASE NewDay
  BY <1>15, NewDayLife
<1>16. CASE Crash
  BY <1>16, CrashLife
<1>17. CASE EvictShapes
  BY <1>17, EvictShapesLife
<1> QED
  BY <1>1, <1>2, <1>3, <1>4, <1>5, <1>6, <1>7, <1>8, <1>9, <1>10, <1>11, <1>12, <1>13,
     <1>14, <1>15, <1>16, <1>17 DEF Next

LEMMA LifeStutters ==
  ASSUME LifeInv, UNCHANGED vars
  PROVE  LifeInv'
<1>1. UNCHANGED <<hold, store, shapes, shaped, swept, proposals, call, answer, calls, past>>
  BY DEF vars
<1>2. RestOK'
  BY <1>1 DEF LifeInv, RestOK
<1> QED
  BY <1>1, <1>2, ShapesStay, ProposalsStay, CallStays, StillLife

(* Every reachable state satisfies the inductive invariant, and every step *)
(* keeps what is retired and forgets nothing recalled for neglect.         *)
THEOREM LifeInvariance == Spec => []LifeInv /\ [][StepOK]_vars
<1>1. Init => LifeInv
  BY LifeInit
<1>2. LifeInv /\ [Next]_vars => LifeInv'
  BY LifeNext, LifeStutters
<1>3. LifeInv /\ [Next]_vars => [StepOK]_vars
  BY LifeNext
<1> QED
  BY <1>1, <1>2, <1>3, PTL DEF Spec

(* What holds of the records and the proposals at every point: their       *)
(* types, that no claim is live that waits for a person unless a client    *)
(* wrote over it, and that no write waits twice.                           *)
THEOREM LifeHolds == Spec => []Inv
  BY LifeInvariance, LifeInvImplies, PTL

(* No record's floor is above what it has stood on since it was made or    *)
(* last accepted, whatever raised its origin since.                        *)
THEOREM FloorAlwaysHolds == Spec => []FloorHolds
  BY LifeInvariance, LifeInvImplies, PTL

(* No claim is stored twice unless a client wrote over one of the two.     *)
THEOREM NoOtherDuplicates == Spec => []DuplicatesComeFromEdits
  BY LifeInvariance, LifeInvImplies, PTL

(* A retired record stays as it was, through every later step.             *)
THEOREM RetiredStays == Spec => RetiredForever
<1>1. StepOK => \A i \in Ids : Retired(i) => store'[i] = store[i]
  BY DEF StepOK
<1> QED
  BY <1>1, LifeInvariance, PTL DEF RetiredForever

(* No step forgets for neglect what a review recalled.                     *)
THEOREM NeglectAlwaysEarned == Spec => NeglectIsEarned
<1>1. StepOK => \A i \in Stored : /\ store[i].forgotten # "neglect"
                                  /\ Retired(i)' /\ store'[i].forgotten = "neglect"
                                  => ~past[i].recalled
  BY DEF StepOK
<1> QED
  BY <1>1, LifeInvariance, PTL DEF NeglectIsEarned

-----------------------------------------------------------------------------
(***************************************************************************)
(* ProposalLog.                                                            *)
(***************************************************************************)

-----------------------------------------------------------------------------
(* Greatest elements. *)

\* One that is bounded has a greatest, which is its Max.
LEMMA MaxOf ==
    ASSUME NEW n \in Nat, NEW S \in SUBSET (0..n), S # {}
    PROVE  Max(S) \in S /\ \A x \in S : x <= Max(S)
<1> DEFINE T == {k \in Nat : k <= n /\ n - k \in S}
<1>1. PICK s \in S : TRUE
  OBVIOUS
<1>2. n - s \in T
  BY <1>1
<1>3. PICK m \in T : \A k \in T : m <= k
  BY <1>2, LeastOf
<1>4. n - m \in S
  OBVIOUS
<1>5. ASSUME NEW x \in S PROVE n - m >= x
  <2>1. n - x \in T
    OBVIOUS
  <2>2. QED
    <3>1. m \in Nat /\ x \in 0..n /\ m <= n - x
      BY <1>3, <2>1
    <3>2. QED
      BY <3>1
<1>6. QED
  BY <1>4, <1>5 DEF Max

-----------------------------------------------------------------------------
(* What the file says. *)

\* The bounds are numbers, and nothing is no claim and no thread.
LEMMA Constants ==
    /\ MaxIds \in Nat /\ MaxLog \in Nat /\ MaxStops \in Nat /\ DayLen \in Nat
    /\ Gap \notin Mineable /\ Gap \notin Clerks
BY ProposalLogAssumption

\* The end of a line is a record, of no proposal.
LEMMA EndIs ==
    /\ EndOfLine \in Records
    /\ EndOfLine.id = 0 /\ EndOfLine.claim = Gap /\ EndOfLine.held = FALSE
    /\ EndOfLine.verdict = "NEI" /\ EndOfLine.status = "end"
BY Constants DEF EndOfLine, Records

\* What a thread does, by its parts.
LEMMA ClerkIs ==
    ASSUME LogTypeOK, NEW t \in Clerks
    PROVE  /\ clerk[t] \in ClerkStates
           /\ clerk[t].pc \in {"rest"} \cup WriterSteps \cup MinerSteps
           /\ clerk[t].todo \in Seq(Records)
           /\ clerk[t].filed \in SUBSET (1..MaxIds)
           /\ clerk[t].rec \in Records
BY DEF LogTypeOK, ClerkStates

\* The places of the records an id is read of.
LEMMA ReadOfIs ==
    ASSUME LogTypeOK, NEW q
    PROVE  /\ Len(log) \in Nat
           /\ ReadOf(q) \in SUBSET (1..Len(log))
           /\ \A i \in ReadOf(q) : log[i] \in Records /\ log[i].id = q /\ log[i] # EndOfLine
<1>1. log \in Seq(Records)
  BY DEF LogTypeOK
<1>2. QED
  BY <1>1 DEF ReadOf, Readable

(* An id is open when all its records that are read say so: there is then  *)
(* one of them. It is marked when one of them does.                        *)
OpenRead(q) == ReadOf(q) # {} /\ \A i \in ReadOf(q) : log[i].status = "open"
MarkRead(q) == \E i \in ReadOf(q) : log[i].status = "accepted"
HeldRead(q, c) == OpenRead(q) /\ \A i \in ReadOf(q) : log[i].held /\ log[i].claim = c

\* What the last record of an id says of it.
LEMMA LatestIs ==
    ASSUME LogTypeOK, RecordsInTurn, NEW q \in 1..MaxIds, ReadOf(q) # {}
    PROVE  \E m \in ReadOf(q) :
             /\ Latest(q) = log[m]
             /\ log[m].status \in {"open", "accepted"}
             /\ \A i \in ReadOf(q) : i = m \/ log[m].status = "accepted"
<1> DEFINE m == Max(ReadOf(q))
<1>1. Len(log) \in Nat /\ ReadOf(q) \in SUBSET (0..Len(log))
  BY ReadOfIs
<1>2. m \in ReadOf(q) /\ \A i \in ReadOf(q) : i <= m
  BY <1>1, MaxOf
<1>3. Latest(q) = log[m]
  BY DEF Latest
<1> HIDE DEF m
<1>4. \A i \in ReadOf(q) : i \in 1..Len(log) /\ log[i].id = q /\ log[i] # EndOfLine
  BY ReadOfIs
<1>5. log[m].status \in {"open", "accepted"}
  BY <1>2, <1>4 DEF RecordsInTurn
<1>6. ASSUME NEW i \in ReadOf(q), i # m PROVE log[m].status = "accepted"
  <2>1. i < m
    BY <1>2, <1>4, <1>6
  <2>2. log[i].id = log[m].id /\ log[i].id # 0
    BY <1>2, <1>4
  <2>3. QED
    BY <1>2, <1>4, <2>1, <2>2 DEF RecordsInTurn
<1>7. QED
  BY <1>2, <1>3, <1>5, <1>6

LatestReads ==
  /\ \A q \in 1..MaxIds : q \in ListOpen <=> OpenRead(q)
  /\ \A q \in 1..MaxIds : q \in Marked <=> MarkRead(q)
  /\ \A q \in 1..MaxIds : ReadOf(q) # {} => \E i \in ReadOf(q) : Latest(q) = log[i]
  /\ \A c : OpenHeld(c) = {q \in 1..MaxIds : HeldRead(q, c)}

\* What is open, what is marked and what waits, said without the last record.
LEMMA Reads == LogTypeOK /\ RecordsInTurn => LatestReads
<1> SUFFICES ASSUME LogTypeOK, RecordsInTurn PROVE LatestReads
  OBVIOUS
<1>1. ASSUME NEW q \in 1..MaxIds
      PROVE  /\ q \in ListOpen <=> OpenRead(q)
             /\ q \in Marked <=> MarkRead(q)
             /\ ReadOf(q) # {} => \E i \in ReadOf(q) : Latest(q) = log[i]
             /\ \A c : (q \in ListOpen /\ Latest(q).held /\ Latest(q).claim = c) <=> HeldRead(q, c)
  <2>1. CASE ReadOf(q) = {}
    BY <2>1 DEF ListOpen, Marked, OpenRead, MarkRead, HeldRead
  <2>2. CASE ReadOf(q) # {}
    <3>1. PICK m \in ReadOf(q) :
             /\ Latest(q) = log[m]
             /\ log[m].status \in {"open", "accepted"}
             /\ \A i \in ReadOf(q) : i = m \/ log[m].status = "accepted"
      BY <2>2, LatestIs
    <3>2. QED
      BY <2>2, <3>1 DEF ListOpen, Marked, OpenRead, MarkRead, HeldRead
  <2>3. QED
    BY <2>1, <2>2
<1>2. \A c : OpenHeld(c) = {q \in 1..MaxIds : HeldRead(q, c)}
  BY <1>1 DEF OpenHeld, ListOpen
<1>3. QED
  BY <1>1, <1>2 DEF LatestReads

\* The same of the next state.
LEMMA ReadsNext == LogTypeOK' /\ RecordsInTurn' => LatestReads'
BY Reads, PTL

\* What waits for one claim is one proposal.
LEMMA WaitsOnce ==
    LogTypeOK /\ RecordsInTurn =>
      (HeldWaitsOnce <=> (Unbroken => \A c : \A p, q \in OpenHeld(c) : p = q))
BY DEF HeldWaitsOnce, OpenHeld

-----------------------------------------------------------------------------
(* How the file grows. *)

\* A record leaves the last one alone when its line was ended, and unread when not.
LEMMA ReadWrite ==
    ASSUME LogTypeOK, NEW r \in Records, r.id # 0, log' = Append(log, r), NEW q
    PROVE  LET n == Len(log)
               here == IF r.id = q /\ (log = <<>> \/ log[n] = EndOfLine) THEN {n + 1} ELSE {}
           IN ReadOf(q)' = (ReadOf(q) \ {n}) \cup here
<1>0. PICK n \in Nat : n = Len(log)
  BY DEF LogTypeOK
<1>1. log \in Seq(Records) /\ Len(log) = n /\ (log = <<>> <=> n = 0)
  BY <1>0, EmptySeq DEF LogTypeOK
<1>2. /\ Len(log') = n + 1 /\ log'[n + 1] = r
      /\ \A i \in 1..n : log'[i] = log[i]
  BY <1>1, AppendProperties
<1>3. r # EndOfLine /\ EndOfLine' = EndOfLine
  BY EndIs DEF EndOfLine
<1>4. ASSUME NEW i \in 1..n PROVE Readable(i)' <=> Readable(i) /\ i # n
  <2>1. CASE i = n
    <3>1. log'[i + 1] # EndOfLine /\ i < Len(log')
      BY <1>1, <1>2, <1>3, <2>1
    <3>2. QED
      BY <1>3, <2>1, <3>1 DEF Readable
  <2>2. CASE i # n
    <3>1. i < n /\ i + 1 \in 1..n /\ (i > 1 => i - 1 \in 1..n)
      BY <1>1, <2>2
    <3>2. log'[i] = log[i] /\ log'[i + 1] = log[i + 1] /\ (i > 1 => log'[i - 1] = log[i - 1])
      BY <1>2, <3>1
    <3>3. i < Len(log') /\ i < Len(log)
      BY <1>1, <1>2, <3>1
    <3>4. QED
      BY <1>3, <2>2, <3>2, <3>3 DEF Readable
  <2>3. QED
    BY <2>1, <2>2
<1>5. Readable(n + 1)' <=> (log = <<>> \/ log[n] = EndOfLine)
  <2>1. log'[n + 1] = r /\ ~ (n + 1 < Len(log')) /\ (n + 1 > 1 <=> n # 0) /\ n + 1 - 1 = n
    BY <1>1, <1>2
  <2>2. n # 0 => log'[n] = log[n]
    BY <1>1, <1>2
  <2>3. QED
    BY <1>1, <1>3, <2>1, <2>2 DEF Readable
<1>6. 1..Len(log') = (1..n) \cup {n + 1} /\ n + 1 \notin 1..n
  BY <1>1, <1>2
<1>7. ReadOf(q)' = {i \in 1..Len(log') : log'[i].id = q /\ Readable(i)'}
  BY DEF ReadOf
<1>8. ReadOf(q) = {i \in 1..n : log[i].id = q /\ Readable(i)}
  BY <1>1 DEF ReadOf
<1>9. ReadOf(q)' = (ReadOf(q) \ {n}) \cup
                   (IF r.id = q /\ (log = <<>> \/ log[n] = EndOfLine) THEN {n + 1} ELSE {})
  BY <1>2, <1>4, <1>5, <1>6, <1>7, <1>8
<1>10. QED
  BY <1>1, <1>9

\* The end of a line changes nothing of what is read.
LEMMA ReadEnd ==
    ASSUME LogTypeOK, EndsLine, NEW q
    PROVE  ReadOf(q)' = ReadOf(q)
<1>0. PICK n \in Nat : n = Len(log)
  BY DEF LogTypeOK
<1>1. log \in Seq(Records) /\ Len(log) = n /\ EndOfLine \in Records
  BY <1>0, EndIs DEF LogTypeOK
<1>2. /\ Len(log') = n + 1 /\ log'[n + 1] = EndOfLine
      /\ \A i \in 1..n : log'[i] = log[i]
  BY <1>1, AppendProperties DEF EndsLine
<1>3. EndOfLine' = EndOfLine
  BY DEF EndOfLine
<1>4. ASSUME NEW i \in 1..n PROVE Readable(i)' <=> Readable(i)
  <2>1. log'[i] = log[i] /\ (i > 1 => log'[i - 1] = log[i - 1]) /\ i < Len(log')
    BY <1>1, <1>2
  <2>2. CASE i = n
    BY <1>1, <1>2, <1>3, <2>1, <2>2 DEF Readable
  <2>3. CASE i # n
    <3>1. i < n /\ log'[i + 1] = log[i + 1]
      BY <1>1, <1>2, <2>3
    <3>2. QED
      BY <1>1, <1>2, <1>3, <2>1, <3>1 DEF Readable
  <2>4. QED
    BY <2>2, <2>3
<1>5. ~ Readable(n + 1)'
  BY <1>2, <1>3 DEF Readable
<1>6. 1..Len(log') = (1..n) \cup {n + 1}
  BY <1>1, <1>2
<1>7. ReadOf(q)' = {i \in 1..Len(log') : log'[i].id = q /\ Readable(i)'}
  BY DEF ReadOf
<1>8. ReadOf(q) = {i \in 1..n : log[i].id = q /\ Readable(i)}
  BY <1>1 DEF ReadOf
<1>9. QED
  BY <1>2, <1>4, <1>5, <1>6, <1>7, <1>8
-----------------------------------------------------------------------------
(* What a step does to the thread that takes it. *)

\* A thread at rest has nothing in hand.
LEMMA RestIs ==
    /\ AtRest \in ClerkStates
    /\ AtRest.pc = "rest" /\ AtRest.todo = <<>> /\ AtRest.filed = {} /\ AtRest.rec = EndOfLine
<1>1. EndOfLine \in Records /\ <<>> \in Seq(Records) /\ {} \in SUBSET (1..MaxIds)
  BY EndIs
<1>2. QED
  BY <1>1 DEF AtRest, ClerkStates

States == {"rest"} \cup WriterSteps \cup MinerSteps

\* A thread goes to its next step with what it has.
LEMMA GoesTo ==
    ASSUME LogTypeOK, NEW t \in Clerks, NEW step \in States, GoTo(t, step)
    PROVE  /\ clerk' \in [Clerks -> ClerkStates]
           /\ clerk'[t].pc = step /\ clerk'[t].todo = clerk[t].todo
           /\ clerk'[t].filed = clerk[t].filed /\ clerk'[t].rec = clerk[t].rec
           /\ \A u \in Clerks \ {t} : clerk'[u] = clerk[u]
BY DEF LogTypeOK, ClerkStates, GoTo, States

\* Or with a record of its own.
LEMMA CarriesIt ==
    ASSUME LogTypeOK, NEW t \in Clerks, NEW step \in States, NEW r \in Records, Carries(t, step, r)
    PROVE  /\ clerk' \in [Clerks -> ClerkStates]
           /\ clerk'[t].pc = step /\ clerk'[t].todo = clerk[t].todo
           /\ clerk'[t].filed = clerk[t].filed /\ clerk'[t].rec = r
           /\ \A u \in Clerks \ {t} : clerk'[u] = clerk[u]
BY DEF LogTypeOK, ClerkStates, Carries, States

\* Or is done.
LEMMA ItRests ==
    ASSUME LogTypeOK, NEW t \in Clerks, Rests(t)
    PROVE  /\ clerk' \in [Clerks -> ClerkStates]
           /\ clerk'[t] = AtRest
           /\ \A u \in Clerks \ {t} : clerk'[u] = clerk[u]
BY RestIs DEF LogTypeOK, Rests

\* The ids on file are the first ones, and a new id is the next.
LEMMA NewIdIs ==
    ASSUME RecordsInTurn
    PROVE  \E n \in 0..MaxIds : IdsOnFile = 1..n /\ NewId = n + 1
<1>1. PICK n \in 0..MaxIds : IdsOnFile = 1..n
  BY DEF RecordsInTurn
<1>2. Cardinality(1..n) = n
  BY <1>1, Constants, FS_Interval
<1>3. QED
  BY <1>1, <1>2 DEF NewId, IdsOnFile

\* A new id is one that nothing on file has, and of those there may be.
LEMMA NewIdIsNew ==
    ASSUME LogTypeOK, RecordsInTurn
    PROVE  /\ NewId \in Nat \ {0} /\ NewId \notin IdsOnFile
           /\ NewId <= MaxIds => NewId \in 1..MaxIds /\ IdsOnFile \cup {NewId} = 1..NewId
           /\ IdsOnFile \subseteq 1..MaxIds
<1>1. PICK n \in 0..MaxIds : IdsOnFile = 1..n /\ NewId = n + 1
  BY NewIdIs
<1>2. QED
  BY <1>1, Constants

\* What a miner files next: a claim that no hold made.
LEMMA HeadIs ==
    ASSUME LogTypeOK, NEW t \in Clerks, InHand(t), clerk[t].pc \in MinerSteps
    PROVE  /\ Head(clerk[t].todo) \in Records
           /\ ~ Head(clerk[t].todo).held /\ Head(clerk[t].todo).status = "open"
           /\ Tail(clerk[t].todo) \in Seq(Records)
           /\ \A n \in 1..Len(Tail(clerk[t].todo)) :
                ~ Tail(clerk[t].todo)[n].held /\ Tail(clerk[t].todo)[n].status = "open"
<1> DEFINE todo == clerk[t].todo
<1>1. todo \in Seq(Records) /\ todo # <<>>
  BY ClerkIs DEF InHand
<1>2. \A n \in 1..Len(todo) : ~ todo[n].held /\ todo[n].status = "open"
  BY DEF InHand
<1> HIDE DEF todo
<1>3. Len(todo) \in Nat \ {0} /\ 1 \in 1..Len(todo) /\ Head(todo) = todo[1] /\ todo[1] \in Records
  BY <1>1, EmptySeq, HeadTailProperties, ElementOfSeq
<1>4. /\ Tail(todo) \in Seq(Records) /\ Len(Tail(todo)) = Len(todo) - 1
      /\ \A n \in 1..Len(Tail(todo)) : Tail(todo)[n] = todo[n + 1]
  BY <1>1, HeadTailProperties
<1>5. \A n \in 1..Len(Tail(todo)) : n + 1 \in 1..Len(todo)
  BY <1>3, <1>4
<1>6. QED
  BY <1>2, <1>3, <1>4, <1>5 DEF todo

\* What a miner takes from a day to file, in the order of its entries.
LEMMA ProposedAre ==
    ASSUME NEW day \in BoundedSeq(Mineable \cup {Gap}, DayLen), NEW said \in Transcripts,
           LogTypeOK, Proposable(day) # {}, NEW turn \in InTurn(Proposable(day))
    PROVE  LET todo == [n \in DOMAIN turn |-> Proposed(day[turn[n]], said)]
           IN /\ todo \in Seq(Records) /\ todo # <<>>
              /\ \A n \in 1..Len(todo) : ~ todo[n].held /\ todo[n].status = "open"
<1> DEFINE P == Proposable(day)
           todo == [n \in DOMAIN turn |-> Proposed(day[turn[n]], said)]
<1>1. PICK m \in 0..DayLen : day \in [1..m -> Mineable \cup {Gap}]
  BY Constants DEF BoundedSeq, SeqOf
<1>2. Len(day) = m /\ m \in Nat
  BY <1>1, Constants
<1>3. P \in SUBSET (1..m) /\ \A i \in P : day[i] \in Mineable
  BY <1>1, <1>2 DEF Proposable, Entries
<1>4. IsFiniteSet(P) /\ Cardinality(P) \in Nat /\ Cardinality(P) # 0
  <2>1. IsFiniteSet(1..m)
    BY <1>2, FS_Interval
  <2>2. IsFiniteSet(P)
    BY <1>3, <2>1, FS_Subset
  <2>3. QED
    BY <2>2, FS_CardinalityType, FS_EmptySet
<1>5. turn \in [1..Cardinality(P) -> P]
  BY DEF InTurn
<1> HIDE DEF P
<1>6. \A n \in 1..Cardinality(P) : day[turn[n]] \in Mineable
  BY <1>3, <1>5
<1>7. ASSUME NEW c \in Mineable
      PROVE  Proposed(c, said) \in Records /\ ~ Proposed(c, said).held /\ Proposed(c, said).status = "open"
  <2>1. Verdict(c, said) \in {"SUPPORTED", "NEI"}
    BY DEF Verdict
  <2>2. Proposed(c, said) = [id |-> 0, claim |-> c, held |-> FALSE, verdict |-> Verdict(c, said), status |-> "open"]
    BY DEF Proposed
  <2>3. Proposed(c, said) \in Records
    <3>1. PICK v \in {"SUPPORTED", "NEI"} : v = Verdict(c, said)
      BY <2>1
    <3>2. [id |-> 0, claim |-> c, held |-> FALSE, verdict |-> v, status |-> "open"] \in Records
      BY Constants DEF Records
    <3>3. QED
      BY <2>2, <3>1, <3>2
  <2>4. Proposed(c, said).held = FALSE /\ Proposed(c, said).status = "open"
    BY <2>2
  <2>5. QED
    BY <2>3, <2>4
<1>8. todo \in [1..Cardinality(P) -> Records]
  BY <1>5, <1>6, <1>7
<1>9. \A n \in 1..Cardinality(P) : ~ todo[n].held /\ todo[n].status = "open"
  BY <1>5, <1>6, <1>7
<1> HIDE DEF todo
<1>10. todo \in Seq(Records) /\ Len(todo) = Cardinality(P)
  BY <1>4, <1>8
<1>11. QED
  BY <1>4, <1>9, <1>10, EmptySeq DEF todo
-----------------------------------------------------------------------------
(* Types. *)

\* Everything a step needs to know of the state it leaves.
Sound == LogTypeOK /\ RecordsInTurn /\ \A t \in Clerks : InHand(t)

\* What a record that is written is of.
LEMMA RecordsWritten ==
    ASSUME Sound, NEW t \in Clerks
    PROVE  /\ FileMined(t) => [Head(clerk[t].todo) EXCEPT !.id = NewId] \in Records
           /\ HoldFiles(t) => [id |-> NewId, claim |-> clerk[t].rec.claim, held |-> TRUE,
                               verdict |-> "SUPPORTED", status |-> "open"] \in Records
           /\ \A id \in ListOpen : [Latest(id) EXCEPT !.status = "accepted"] \in Records
<1>1. NewId <= MaxIds => NewId \in 0..MaxIds
  BY NewIdIsNew, Constants DEF Sound
<1>2. FileMined(t) => [Head(clerk[t].todo) EXCEPT !.id = NewId] \in Records
  <2>1. SUFFICES ASSUME FileMined(t) PROVE [Head(clerk[t].todo) EXCEPT !.id = NewId] \in Records
    OBVIOUS
  <2>2. NewId \in 0..MaxIds /\ clerk[t].pc = "mine"
    BY <1>1, <2>1 DEF FileMined
  <2>3. Head(clerk[t].todo) \in Records
    BY <2>2, HeadIs DEF Sound, MinerSteps
  <2>4. QED
    BY <2>2, <2>3 DEF Records
<1>3. HoldFiles(t) => [id |-> NewId, claim |-> clerk[t].rec.claim, held |-> TRUE,
                       verdict |-> "SUPPORTED", status |-> "open"] \in Records
  <2>1. SUFFICES ASSUME HoldFiles(t)
                 PROVE  [id |-> NewId, claim |-> clerk[t].rec.claim, held |-> TRUE,
                         verdict |-> "SUPPORTED", status |-> "open"] \in Records
    OBVIOUS
  <2>2. NewId \in 0..MaxIds
    BY <1>1, <2>1 DEF HoldFiles
  <2>3. clerk[t].rec.claim \in Mineable \cup {Gap}
    BY ClerkIs DEF Sound, Records
  <2>4. QED
    BY <2>2, <2>3 DEF Records
<1>4. ASSUME NEW id \in ListOpen PROVE [Latest(id) EXCEPT !.status = "accepted"] \in Records
  <2>1. id \in 1..MaxIds /\ ReadOf(id) # {}
    BY DEF ListOpen
  <2>2. PICK i \in ReadOf(id) : Latest(id) = log[i]
    BY <2>1, LatestIs DEF Sound
  <2>3. Latest(id) \in Records
    BY <2>2, ReadOfIs DEF Sound
  <2>4. QED
    BY <2>3 DEF Records
<1>5. QED
  BY <1>2, <1>3, <1>4

\* An id that is open is on file.
LEMMA OpenOnFile ==
    ASSUME LogTypeOK, NEW id \in 1..MaxIds, ReadOf(id) # {}
    PROVE  id \in IdsOnFile
<1>1. PICK i \in ReadOf(id) : TRUE
  OBVIOUS
<1>2. i \in 1..Len(log) /\ log[i].id = id
  BY ReadOfIs
<1>3. QED
  BY <1>2, Constants DEF IdsOnFile

\* Every step leaves every variable of its kind.
LEMMA TypesNext ==
    ASSUME Sound, LogNext
    PROVE  LogTypeOK'
<1> USE DEF Sound
<1>1. log \in Seq(Records) /\ EndOfLine \in Records
  BY EndIs DEF LogTypeOK
<1>2. \A r \in Records : Append(log, r) \in Seq(Records)
  BY <1>1
<1>3. EndsLine => log' \in Seq(Records)
  BY <1>1 DEF EndsLine
<1>4. /\ writing \in Clerks \cup {Gap} /\ told \subseteq (1..MaxIds) \X {"open", "accepted"}
      /\ clean \in BOOLEAN /\ stops \in Nat /\ clerk \in [Clerks -> ClerkStates]
  BY DEF LogTypeOK
<1>5. IdsOnFile \subseteq 1..MaxIds
  BY NewIdIsNew
<1>6. ASSUME NEW t \in Clerks, Mine(t) PROVE LogTypeOK'
  <2>1. PICK day \in BoundedSeq(Mineable \cup {Gap}, DayLen), said \in Transcripts :
          /\ Proposable(day) # {}
          /\ \E turn \in InTurn(Proposable(day)) :
               clerk' = [clerk EXCEPT ![t].pc = "mine",
                                      ![t].todo = [n \in DOMAIN turn |-> Proposed(day[turn[n]], said)]]
    BY <1>6 DEF Mine
  <2>2. PICK turn \in InTurn(Proposable(day)) :
          clerk' = [clerk EXCEPT ![t].pc = "mine",
                                 ![t].todo = [n \in DOMAIN turn |-> Proposed(day[turn[n]], said)]]
    BY <2>1
  <2>3. [n \in DOMAIN turn |-> Proposed(day[turn[n]], said)] \in Seq(Records)
    BY <2>1, ProposedAre
  <2>4. clerk' \in [Clerks -> ClerkStates]
    BY <1>4, <2>2, <2>3 DEF ClerkStates, MinerSteps
  <2>5. QED
    BY <1>1, <1>4, <1>6, <2>4 DEF LogTypeOK, Mine
<1>7. ASSUME NEW t \in Clerks, FileMined(t) PROVE LogTypeOK'
  <2> DEFINE r == [Head(clerk[t].todo) EXCEPT !.id = NewId]
  <2>1. r \in Records
    BY <1>7, RecordsWritten
  <2>2. Carries(t, "mined", r) /\ log' = Append(log, r)
        /\ clean' = (clean /\ \A u \in Clerks \ {t} : ~MidLine(u))
    BY <1>7 DEF FileMined, Writes
  <2> HIDE DEF r
  <2>3. clerk' \in [Clerks -> ClerkStates]
    BY <2>1, <2>2, CarriesIt DEF States, MinerSteps
  <2>4. QED
    BY <1>2, <1>4, <1>7, <2>1, <2>2, <2>3 DEF LogTypeOK, FileMined
<1>8. ASSUME NEW t \in Clerks, EndMined(t) PROVE LogTypeOK'
  <2> DEFINE filed == clerk[t].filed \cup {clerk[t].rec.id}
             rest  == Tail(clerk[t].todo)
  <2>1. filed \in SUBSET (1..MaxIds)
    BY <1>5, <1>8, ClerkIs DEF EndMined, InHand
  <2>2. rest \in Seq(Records)
    BY <1>8, HeadIs DEF EndMined, MinerSteps
  <2>3. IF rest = <<>> THEN Rests(t) /\ told' = told \cup (filed \X {"open"})
        ELSE told' = told /\ clerk' = [clerk EXCEPT ![t] = [AtRest EXCEPT !.pc = "mine", !.todo = rest, !.filed = filed]]
    BY <1>8 DEF EndMined
  <2> HIDE DEF filed, rest
  <2>4. [AtRest EXCEPT !.pc = "mine", !.todo = rest, !.filed = filed] \in ClerkStates
    BY <2>1, <2>2, RestIs DEF ClerkStates, MinerSteps
  <2>5. clerk' \in [Clerks -> ClerkStates]
    BY <1>4, <2>3, <2>4, ItRests
  <2>6. told' \subseteq (1..MaxIds) \X {"open", "accepted"}
    BY <1>4, <2>1, <2>3
  <2>7. QED
    BY <1>3, <1>4, <1>8, <2>5, <2>6 DEF LogTypeOK, EndMined
<1>9. ASSUME NEW t \in Clerks, TakeMutex(t) PROVE LogTypeOK'
  <2>1. \A c \in Mineable : [EndOfLine EXCEPT !.claim = c] \in Records
    BY <1>1 DEF Records
  <2>2. ASSUME NEW id \in 1..MaxIds PROVE [EndOfLine EXCEPT !.id = id] \in Records
    <3>1. MaxIds \in Nat
      BY Constants
    <3>2. id \in 0..MaxIds
      BY <3>1
    <3>3. EndOfLine \in Records
      BY EndIs
    <3> QED
      BY <3>2, <3>3 DEF Records
  <2>3. clerk' \in [Clerks -> ClerkStates]
    BY <1>9, <2>1, <2>2, CarriesIt DEF TakeMutex, States, WriterSteps
  <2>4. QED
    BY <1>1, <1>4, <1>9, <2>3 DEF LogTypeOK, TakeMutex
<1>10. ASSUME NEW t \in Clerks, StoreClaim(t) PROVE LogTypeOK'
  BY <1>1, <1>4, <1>10, ItRests DEF LogTypeOK, StoreClaim
<1>11. ASSUME NEW t \in Clerks, HoldLooks(t) PROVE LogTypeOK'
  <2> DEFINE held == {id \in ListOpen : Latest(id).held /\ Latest(id).claim = clerk[t].rec.claim}
  <2>1. IF held = {} THEN GoTo(t, "hold_file") /\ UNCHANGED <<writing, told>>
        ELSE Rests(t) /\ writing' = Gap /\ told' = told \cup (held \X {"open"})
    BY <1>11 DEF HoldLooks
  <2>2. held \subseteq 1..MaxIds
    BY DEF ListOpen
  <2> HIDE DEF held
  <2>3. clerk' \in [Clerks -> ClerkStates]
    BY <2>1, GoesTo, ItRests DEF States, WriterSteps
  <2>4. writing' \in Clerks \cup {Gap} /\ told' \subseteq (1..MaxIds) \X {"open", "accepted"}
    <3>1. writing' \in Clerks \cup {Gap} /\ told' \subseteq told \cup (held \X {"open"})
      BY <1>4, <2>1
    <3>2. QED
      BY <1>4, <2>2, <3>1
  <2>5. QED
    BY <1>1, <1>4, <1>11, <2>3, <2>4 DEF LogTypeOK, HoldLooks
<1>12. ASSUME NEW t \in Clerks, HoldFiles(t) PROVE LogTypeOK'
  <2> DEFINE r == [id |-> NewId, claim |-> clerk[t].rec.claim, held |-> TRUE, verdict |-> "SUPPORTED", status |-> "open"]
  <2>1. r \in Records
    BY <1>12, RecordsWritten
  <2>2. Carries(t, "hold_end", r) /\ log' = Append(log, r)
        /\ clean' = (clean /\ \A u \in Clerks \ {t} : ~MidLine(u))
    BY <1>12 DEF HoldFiles, Writes
  <2> HIDE DEF r
  <2>3. clerk' \in [Clerks -> ClerkStates]
    BY <2>1, <2>2, CarriesIt DEF States, WriterSteps
  <2>4. QED
    BY <1>2, <1>4, <1>12, <2>1, <2>2, <2>3 DEF LogTypeOK, HoldFiles
<1>13. ASSUME NEW t \in Clerks, EndHeld(t) PROVE LogTypeOK'
  <2>1. clerk[t].rec.id \in 1..MaxIds
    BY <1>5, <1>13 DEF EndHeld, InHand
  <2>2. told' \subseteq (1..MaxIds) \X {"open", "accepted"}
    BY <1>4, <1>13, <2>1 DEF EndHeld
  <2>3. QED
    BY <1>3, <1>4, <1>13, <2>2, ItRests DEF LogTypeOK, EndHeld
<1>14. ASSUME NEW t \in Clerks, AcceptLooks(t) PROVE LogTypeOK'
  <2>1. clerk' \in [Clerks -> ClerkStates]
    BY <1>14, GoesTo, ItRests DEF AcceptLooks, States, WriterSteps
  <2>2. writing' \in Clerks \cup {Gap}
    BY <1>4, <1>14 DEF AcceptLooks
  <2>3. QED
    BY <1>1, <1>4, <1>14, <2>1, <2>2 DEF LogTypeOK, AcceptLooks
<1>15. ASSUME NEW t \in Clerks, AcceptStores(t) PROVE LogTypeOK'
  <2>1. clerk[t].rec.id \in ListOpen => [Latest(clerk[t].rec.id) EXCEPT !.status = "accepted"] \in Records
    BY RecordsWritten
  <2>2. clerk' \in [Clerks -> ClerkStates]
    BY <1>15, <2>1, CarriesIt, ItRests DEF AcceptStores, States, WriterSteps
  <2>3. writing' \in Clerks \cup {Gap}
    BY <1>4, <1>15 DEF AcceptStores
  <2>4. QED
    BY <1>1, <1>4, <1>15, <2>2, <2>3 DEF LogTypeOK, AcceptStores
<1>16. ASSUME NEW t \in Clerks, MarkFiles(t) PROVE LogTypeOK'
  <2>1. clerk' \in [Clerks -> ClerkStates]
    BY <1>16, GoesTo DEF MarkFiles, States, WriterSteps
  <2>2. clerk[t].rec \in Records /\ log' = Append(log, clerk[t].rec)
        /\ clean' = (clean /\ \A u \in Clerks \ {t} : ~MidLine(u))
    BY <1>16, ClerkIs DEF MarkFiles, Writes
  <2>3. QED
    BY <1>2, <1>4, <1>16, <2>1, <2>2 DEF LogTypeOK, MarkFiles
<1>17. ASSUME NEW t \in Clerks, EndMark(t) PROVE LogTypeOK'
  <2>1. clerk[t].rec.id \in 1..MaxIds
    <3>1. clerk[t].rec.id # 0 /\ clerk[t].rec \in Records
      BY <1>17, ClerkIs DEF EndMark, InHand
    <3>2. QED
      BY <3>1, Constants DEF Records
  <2>2. told' \subseteq (1..MaxIds) \X {"open", "accepted"}
    BY <1>4, <1>17, <2>1 DEF EndMark
  <2>3. QED
    BY <1>3, <1>4, <1>17, <2>2, ItRests DEF LogTypeOK, EndMark
<1>18. ASSUME Stop PROVE LogTypeOK'
  <2>1. clerk' \in [Clerks -> ClerkStates]
    BY <1>18, RestIs DEF Stop
  <2>2. QED
    BY <1>1, <1>4, <1>18, <2>1 DEF LogTypeOK, Stop
<1>19. QED
  BY <1>6, <1>7, <1>8, <1>9, <1>10, <1>11, <1>12, <1>13, <1>14, <1>15, <1>16, <1>17, <1>18 DEF LogNext
-----------------------------------------------------------------------------
(* The ways a step may leave the file. *)

\* A thread writes a record: a new id's, or the mark of one on file.
Files(t, r) ==
  /\ log' = Append(log, r) /\ r \in Records /\ r.id # 0
  /\ ~ MidLine(t) /\ clerk'[t].pc \in {"mined", "hold_end", "mark_end"} /\ clerk'[t].rec = r
  /\ \A u \in Clerks \ {t} : clerk'[u] = clerk[u]
  /\ clean' = (clean /\ \A u \in Clerks \ {t} : ~MidLine(u)) /\ stops' = stops
  /\ kept' = kept /\ labelled' = labelled /\ told' = told /\ writing' = writing
  /\ \/ /\ r.id = NewId /\ NewId <= MaxIds /\ r.status = "open"
        /\ r.held => clerk[t].pc = "hold_file" /\ clerk'[t].pc = "hold_end" /\ clerk[t].rec.claim = r.claim
     \/ /\ clerk[t].pc = "mark" /\ r.status = "accepted" /\ IsStored(r)
        /\ \E i \in 1..Len(log) : SaysTheSame(log[i], r)

\* It ends the line.
Ends(t) ==
  /\ EndsLine /\ MidLine(t) /\ clerk'[t].pc \notin {"mined", "hold_end", "mark_end"}
  /\ \A u \in Clerks \ {t} : clerk'[u] = clerk[u]
  /\ clean' = clean /\ stops' = stops /\ kept' = kept /\ labelled' = labelled

\* Or it does neither, and nobody who is at a line leaves it.
Leaves ==
  /\ log' = log /\ clean' = clean /\ stops' = stops
  /\ \A u \in Clerks :
       /\ MidLine(u) => clerk'[u] = clerk[u]
       /\ clerk'[u].pc \in {"mined", "hold_end", "mark_end"} => MidLine(u)

\* A step is one of these, or a stop.
LEMMA StepIs ==
    ASSUME Sound, LogNext
    PROVE  \/ \E t \in Clerks, r \in Records : Files(t, r)
           \/ \E t \in Clerks : Ends(t)
           \/ Leaves
           \/ Stop
<1> USE DEF Sound
<1>1. ASSUME NEW t \in Clerks, Mine(t) PROVE Leaves
  <2>1. clerk[t].pc = "rest" /\ UNCHANGED <<log, clean, stops>>
    BY <1>1 DEF Mine
  <2>2. clerk'[t].pc = "mine" /\ \A u \in Clerks \ {t} : clerk'[u] = clerk[u]
    BY <1>1 DEF Mine, LogTypeOK, ClerkStates
  <2>3. QED
    BY <2>1, <2>2 DEF Leaves, MidLine
<1>2. ASSUME NEW t \in Clerks, FileMined(t) PROVE \E r \in Records : Files(t, r)
  <2> DEFINE h == Head(clerk[t].todo)
             r == [h EXCEPT !.id = NewId]
  <2>1. /\ clerk[t].pc = "mine" /\ NewId <= MaxIds /\ Carries(t, "mined", r)
        /\ log' = Append(log, r) /\ clean' = (clean /\ \A u \in Clerks \ {t} : ~MidLine(u))
        /\ UNCHANGED <<kept, labelled, writing, told, stops>>
    BY <1>2 DEF FileMined, Writes
  <2>2. r \in Records
    BY <1>2, RecordsWritten
  <2>3. h \in Records /\ ~ h.held /\ h.status = "open"
    BY <2>1, HeadIs DEF MinerSteps
  <2> HIDE DEF h
  <2>4. r.id = NewId /\ r.held = h.held /\ r.status = h.status
    BY <2>3 DEF Records
  <2> HIDE DEF r
  <2>5. /\ clerk'[t].pc = "mined" /\ clerk'[t].rec = r
        /\ \A u \in Clerks \ {t} : clerk'[u] = clerk[u]
    BY <2>1, <2>2, CarriesIt DEF States, MinerSteps
  <2>6. r.id # 0 /\ ~ r.held /\ r.status = "open"
    BY <2>3, <2>4, NewIdIsNew
  <2>7. Files(t, r)
    BY <2>1, <2>2, <2>4, <2>5, <2>6 DEF Files, MidLine
  <2>8. QED
    BY <2>2, <2>7
<1>3. ASSUME NEW t \in Clerks, EndMined(t) PROVE Ends(t)
  <2>1. clerk[t].pc = "mined" /\ EndsLine /\ UNCHANGED <<kept, labelled, clean, stops>>
    BY <1>3 DEF EndMined
  <2>2. clerk'[t].pc \in {"rest", "mine"} /\ \A u \in Clerks \ {t} : clerk'[u] = clerk[u]
    <3> DEFINE filed == clerk[t].filed \cup {clerk[t].rec.id}
               rest  == Tail(clerk[t].todo)
    <3>1. \/ Rests(t)
          \/ clerk' = [clerk EXCEPT ![t] = [AtRest EXCEPT !.pc = "mine", !.todo = rest, !.filed = filed]]
      BY <1>3 DEF EndMined
    <3> HIDE DEF filed, rest
    <3>2. CASE Rests(t)
      BY <3>2, ItRests, RestIs
    <3>3. CASE clerk' = [clerk EXCEPT ![t] = [AtRest EXCEPT !.pc = "mine", !.todo = rest, !.filed = filed]]
      <4>1. [AtRest EXCEPT !.pc = "mine", !.todo = rest, !.filed = filed].pc = "mine"
        BY DEF AtRest
      <4>2. QED
        BY <3>3, <4>1 DEF LogTypeOK
    <3>4. QED
      BY <3>1, <3>2, <3>3
  <2>3. QED
    BY <2>1, <2>2 DEF Ends, MidLine
<1>4. ASSUME NEW t \in Clerks, TakeMutex(t) PROVE Leaves
  <2>1. clerk[t].pc = "rest" /\ UNCHANGED <<log, clean, stops>>
    BY <1>4 DEF TakeMutex
  <2>2. clerk'[t].pc \in {"hold", "store", "accept"} /\ \A u \in Clerks \ {t} : clerk'[u] = clerk[u]
    BY <1>4 DEF TakeMutex, Carries, LogTypeOK, ClerkStates
  <2>3. QED
    BY <2>1, <2>2 DEF Leaves, MidLine
<1>5. ASSUME NEW t \in Clerks, StoreClaim(t) PROVE Leaves
  BY <1>5, ItRests, RestIs DEF StoreClaim, Leaves, MidLine
<1>6. ASSUME NEW t \in Clerks, HoldLooks(t) PROVE Leaves
  <2>1. clerk[t].pc = "hold" /\ UNCHANGED <<log, clean, stops>> /\ (GoTo(t, "hold_file") \/ Rests(t))
    BY <1>6 DEF HoldLooks
  <2>2. clerk'[t].pc \in {"hold_file", "rest"} /\ \A u \in Clerks \ {t} : clerk'[u] = clerk[u]
    BY <2>1, ItRests, RestIs, GoesTo DEF States, WriterSteps
  <2>3. QED
    BY <2>1, <2>2 DEF Leaves, MidLine
<1>7. ASSUME NEW t \in Clerks, HoldFiles(t) PROVE \E r \in Records : Files(t, r)
  <2> DEFINE r == [id |-> NewId, claim |-> clerk[t].rec.claim, held |-> TRUE, verdict |-> "SUPPORTED", status |-> "open"]
  <2>1. /\ clerk[t].pc = "hold_file" /\ NewId <= MaxIds /\ Carries(t, "hold_end", r)
        /\ log' = Append(log, r) /\ clean' = (clean /\ \A u \in Clerks \ {t} : ~MidLine(u))
        /\ UNCHANGED <<kept, labelled, writing, told, stops>>
    BY <1>7 DEF HoldFiles, Writes
  <2>2. r \in Records /\ r.id = NewId /\ r.status = "open" /\ r.claim = clerk[t].rec.claim /\ r.id # 0
    BY <1>7, RecordsWritten, NewIdIsNew
  <2> HIDE DEF r
  <2>3. /\ clerk'[t].pc = "hold_end" /\ clerk'[t].rec = r
        /\ \A u \in Clerks \ {t} : clerk'[u] = clerk[u]
    BY <2>1, <2>2, CarriesIt DEF States, WriterSteps
  <2>4. Files(t, r)
    BY <2>1, <2>2, <2>3 DEF Files, MidLine
  <2>5. QED
    BY <2>2, <2>4
<1>8. ASSUME NEW t \in Clerks, EndHeld(t) PROVE Ends(t)
  BY <1>8, ItRests, RestIs DEF EndHeld, Ends, MidLine
<1>9. ASSUME NEW t \in Clerks, AcceptLooks(t) PROVE Leaves
  <2>1. clerk[t].pc = "accept" /\ UNCHANGED <<log, clean, stops>> /\ (GoTo(t, "accept_open") \/ Rests(t))
    BY <1>9 DEF AcceptLooks
  <2>2. clerk'[t].pc \in {"accept_open", "rest"} /\ \A u \in Clerks \ {t} : clerk'[u] = clerk[u]
    BY <2>1, ItRests, RestIs, GoesTo DEF States, WriterSteps
  <2>3. QED
    BY <2>1, <2>2 DEF Leaves, MidLine
<1>10. ASSUME NEW t \in Clerks, AcceptStores(t) PROVE Leaves
  <2>1. clerk[t].pc = "accept_open" /\ UNCHANGED <<log, clean, stops>>
    BY <1>10 DEF AcceptStores
  <2>2. clerk'[t].pc \in {"mark", "rest"} /\ \A u \in Clerks \ {t} : clerk'[u] = clerk[u]
    BY <1>10, ItRests, RestIs DEF AcceptStores, Carries, LogTypeOK, ClerkStates
  <2>3. QED
    BY <2>1, <2>2 DEF Leaves, MidLine
<1>11. ASSUME NEW t \in Clerks, MarkFiles(t) PROVE \E r \in Records : Files(t, r)
  <2> DEFINE r == clerk[t].rec
  <2>1. /\ clerk[t].pc = "mark" /\ GoTo(t, "mark_end")
        /\ log' = Append(log, r) /\ clean' = (clean /\ \A u \in Clerks \ {t} : ~MidLine(u))
        /\ UNCHANGED <<kept, labelled, writing, told, stops>>
    BY <1>11 DEF MarkFiles, Writes
  <2>2. r \in Records
    BY ClerkIs
  <2>3. r.status = "accepted" /\ IsStored(r) /\ r.id # 0 /\ \E i \in 1..Len(log) : SaysTheSame(log[i], r)
    BY <2>1 DEF InHand
  <2>4. /\ clerk'[t].pc = "mark_end" /\ clerk'[t].rec = r
        /\ \A u \in Clerks \ {t} : clerk'[u] = clerk[u]
    BY <2>1, GoesTo DEF States, WriterSteps
  <2> HIDE DEF r
  <2>5. Files(t, r)
    BY <2>1, <2>2, <2>3, <2>4 DEF Files, MidLine
  <2>6. QED
    BY <2>2, <2>5
<1>12. ASSUME NEW t \in Clerks, EndMark(t) PROVE Ends(t)
  BY <1>12, ItRests, RestIs DEF EndMark, Ends, MidLine
<1>13. QED
  BY <1>1, <1>2, <1>3, <1>4, <1>5, <1>6, <1>7, <1>8, <1>9, <1>10, <1>11, <1>12 DEF LogNext

\* Nothing that was written or stored is lost, and no later step mends a broken line.
LEMMA Grows ==
    ASSUME Sound, LogNext
    PROVE  /\ Len(log') \in Nat /\ Len(log) <= Len(log')
           /\ \A i \in 1..Len(log) : i \in 1..Len(log') /\ log'[i] = log[i]
           /\ IdsOnFile \subseteq IdsOnFile'
           /\ kept \subseteq kept' /\ labelled \subseteq labelled'
           /\ Unbroken' => Unbroken
           /\ clean' => clean
<1>1. log \in Seq(Records) /\ EndOfLine \in Records /\ Len(log) \in Nat
  BY EndIs DEF Sound, LogTypeOK
<1>2. log' = log \/ \E r \in Records : log' = Append(log, r)
  BY <1>1, StepIs DEF Files, Ends, EndsLine, Leaves, Stop
<1>3. /\ Len(log') \in Nat /\ Len(log) <= Len(log')
      /\ \A i \in 1..Len(log) : i \in 1..Len(log') /\ log'[i] = log[i]
  <2>1. CASE log' = log
    BY <1>1, <2>1
  <2>2. CASE \E r \in Records : log' = Append(log, r)
    BY <1>1, <2>2, AppendProperties
  <2>3. QED
    BY <1>2, <2>1, <2>2
<1>4. IdsOnFile \subseteq IdsOnFile'
  BY <1>3 DEF IdsOnFile
<1>5. kept \subseteq kept' /\ labelled \subseteq labelled'
  BY DEF LogNext, Mine, FileMined, EndMined, TakeMutex, StoreClaim, HoldLooks, HoldFiles, EndHeld,
         AcceptLooks, AcceptStores, MarkFiles, EndMark, Stop
<1>6. /\ clean' => clean
      /\ stops' = stops \/ stops' = stops + 1
  <2>1. CASE \E t \in Clerks, r \in Records : Files(t, r)
    BY <2>1 DEF Files
  <2>2. CASE \E t \in Clerks : Ends(t)
    BY <2>2 DEF Ends
  <2>3. CASE Leaves
    BY <2>3 DEF Leaves
  <2>4. CASE Stop
    BY <2>4 DEF Stop
  <2>5. QED
    BY <2>1, <2>2, <2>3, <2>4, StepIs
<1>7. Unbroken' => Unbroken
  <2>1. stops \in Nat
    BY DEF Sound, LogTypeOK
  <2>2. stops' = 0 => stops = 0
    BY <1>6, <2>1
  <2>3. QED
    BY <1>6, <2>2 DEF Unbroken
<1>8. QED
  BY <1>3, <1>4, <1>5, <1>6, <1>7
-----------------------------------------------------------------------------
(* The mutex, the lines and the ids. *)

\* What a step without the file does to a thread's place, and the mutex.
LEMMA OneWriterNext ==
    ASSUME LogTypeOK, OneWriter, LogNext
    PROVE  OneWriter'
<1> DEFINE W == WriterSteps
<1>1. clerk \in [Clerks -> ClerkStates] /\ Gap \notin Clerks
  BY Constants DEF LogTypeOK
<1>2. SUFFICES ASSUME NEW u \in Clerks, clerk'[u].pc \in WriterSteps PROVE writing' = u
  BY DEF OneWriter
<1>3. AtRest.pc \notin WriterSteps /\ "mine" \notin WriterSteps /\ "mined" \notin WriterSteps
  BY RestIs DEF WriterSteps
<1>4. ASSUME NEW t \in Clerks, Mine(t) \/ FileMined(t) \/ EndMined(t) PROVE writing' = u
  <2>1. writing' = writing
    BY <1>4 DEF Mine, FileMined, EndMined
  <2>2. \A v \in Clerks \ {t} : clerk'[v] = clerk[v]
    BY <1>1, <1>4 DEF Mine, FileMined, EndMined, Carries, Rests
  <2>3. clerk'[t].pc \notin WriterSteps
    <3>1. CASE Mine(t)
      <4>1. clerk'[t].pc = "mine"
        BY <1>1, <3>1 DEF Mine, ClerkStates
      <4>2. QED
        BY <1>3, <4>1
    <3>2. CASE FileMined(t)
      <4>1. clerk'[t].pc = "mined"
        BY <1>1, <3>2 DEF FileMined, Carries, ClerkStates
      <4>2. QED
        BY <1>3, <4>1
    <3>3. CASE EndMined(t)
      <4> DEFINE filed == clerk[t].filed \cup {clerk[t].rec.id}
                 rest  == Tail(clerk[t].todo)
      <4>1. \/ clerk' = [clerk EXCEPT ![t] = AtRest]
            \/ clerk' = [clerk EXCEPT ![t] = [AtRest EXCEPT !.pc = "mine", !.todo = rest, !.filed = filed]]
        BY <3>3 DEF EndMined, Rests
      <4> HIDE DEF filed, rest
      <4>2. [AtRest EXCEPT !.pc = "mine", !.todo = rest, !.filed = filed].pc = "mine"
        BY DEF AtRest
      <4>3. QED
        BY <1>1, <1>3, <4>1, <4>2
    <3>4. QED
      BY <1>4, <3>1, <3>2, <3>3
  <2>4. QED
    BY <1>2, <2>1, <2>2, <2>3 DEF OneWriter
<1>5. ASSUME NEW t \in Clerks, TakeMutex(t) PROVE writing' = u
  <2>1. writing = Gap /\ writing' = t
    BY <1>5 DEF TakeMutex
  <2>2. \A v \in Clerks \ {t} : clerk'[v] = clerk[v]
    BY <1>1, <1>5 DEF TakeMutex, Carries
  <2>3. QED
    BY <1>1, <1>2, <2>1, <2>2 DEF OneWriter
<1>6. ASSUME NEW t \in Clerks, StoreClaim(t) \/ HoldLooks(t) \/ HoldFiles(t) \/ EndHeld(t) \/ AcceptLooks(t)
                               \/ AcceptStores(t) \/ MarkFiles(t) \/ EndMark(t)
      PROVE  writing' = u
  <2>1. writing = t
    BY <1>6 DEF OneWriter, WriterSteps, StoreClaim, HoldLooks, HoldFiles, EndHeld, AcceptLooks,
                AcceptStores, MarkFiles, EndMark
  <2>2. \A v \in Clerks \ {t} : clerk'[v] = clerk[v]
    BY <1>1, <1>6 DEF StoreClaim, HoldLooks, HoldFiles, EndHeld, AcceptLooks, AcceptStores, MarkFiles, EndMark,
                      GoTo, Carries, Rests
  <2>3. writing' = writing \/ clerk'[t] = AtRest
    BY <1>1, <1>6 DEF StoreClaim, HoldLooks, HoldFiles, EndHeld, AcceptLooks, AcceptStores, MarkFiles, EndMark, Rests
  <2>4. \A v \in Clerks \ {t} : clerk[v].pc \notin WriterSteps
    BY <2>1 DEF OneWriter
  <2>5. u = t
    BY <1>2, <2>2, <2>4
  <2>6. QED
    BY <1>2, <1>3, <2>1, <2>3, <2>5
<1>7. ASSUME Stop PROVE writing' = u
  BY <1>2, <1>3, <1>7 DEF Stop
<1>8. QED
  BY <1>4, <1>5, <1>6, <1>7 DEF LogNext

\* Ids are given in turn, and a mark is of what is on file.
LEMMA TurnNext ==
    ASSUME Sound, LogNext
    PROVE  RecordsInTurn'
<1>1. log \in Seq(Records) /\ EndOfLine \in Records /\ EndOfLine.id = 0
  BY EndIs DEF Sound, LogTypeOK
<1>2. PICK n \in 0..MaxIds : IdsOnFile = 1..n /\ NewId = n + 1
  BY NewIdIs DEF Sound
<1>3. PICK k \in Nat : k = Len(log)
  BY <1>1
<1>4. RecordsInTurn /\ n \in Nat /\ EndOfLine' = EndOfLine
  BY <1>2, Constants DEF Sound, EndOfLine
<1>5. CASE log' = log
  BY <1>4, <1>5 DEF RecordsInTurn, IdsOnFile
<1>6. CASE EndsLine
  <2>1. /\ Len(log') = k + 1 /\ log'[k + 1] = EndOfLine
        /\ \A i \in 1..k : log'[i] = log[i]
    BY <1>1, <1>3, <1>6, AppendProperties DEF EndsLine
  <2>2. 1..Len(log') = (1..k) \cup {k + 1}
    BY <1>3, <2>1
  <2>3. IdsOnFile' = IdsOnFile
    BY <1>1, <1>3, <2>1, <2>2 DEF IdsOnFile
  <2>4. \A i \in 1..Len(log') : log'[i] # EndOfLine => log'[i].id # 0 /\ log'[i].status \in {"open", "accepted"}
    BY <1>3, <1>4, <2>1, <2>2 DEF RecordsInTurn
  <2>5. \A i, j \in 1..Len(log') :
          log'[i].id = log'[j].id /\ log'[i].id # 0 =>
            SaysTheSame(log'[i], log'[j]) /\ (i < j => log'[j].status = "accepted")
    <3>1. SUFFICES ASSUME NEW i \in 1..Len(log'), NEW j \in 1..Len(log'), log'[i].id = log'[j].id, log'[i].id # 0
                   PROVE  SaysTheSame(log'[i], log'[j]) /\ (i < j => log'[j].status = "accepted")
      OBVIOUS
    <3>2. i \in 1..k /\ j \in 1..k
      BY <1>1, <2>1, <2>2, <3>1
    <3>3. QED
      BY <1>3, <1>4, <2>1, <3>1, <3>2 DEF RecordsInTurn
  <2>6. QED
    BY <1>2, <1>4, <2>3, <2>4, <2>5 DEF RecordsInTurn
<1>7. ASSUME NEW t \in Clerks, NEW r \in Records, Files(t, r) PROVE RecordsInTurn'
  <2>1. /\ Len(log') = k + 1 /\ log'[k + 1] = r
        /\ \A i \in 1..k : log'[i] = log[i]
    BY <1>1, <1>3, <1>7, AppendProperties DEF Files
  <2>2. 1..Len(log') = (1..k) \cup {k + 1} /\ r.id # 0
    BY <1>3, <1>7, <2>1 DEF Files
  <2>3. IdsOnFile' = IdsOnFile \cup {r.id}
    BY <1>3, <2>1, <2>2 DEF IdsOnFile
  <2>4. r.status \in {"open", "accepted"}
    BY <1>7 DEF Files
  <2>5. \A i \in 1..Len(log') : log'[i] # EndOfLine => log'[i].id # 0 /\ log'[i].status \in {"open", "accepted"}
    BY <1>3, <1>4, <2>1, <2>2, <2>4 DEF RecordsInTurn
  <2>6. CASE r.id = NewId /\ NewId <= MaxIds
    <3>1. IdsOnFile' = 1..(n + 1) /\ n + 1 \in 0..MaxIds
      BY <1>2, <1>4, <2>3, <2>6, Constants
    <3>2. \A i \in 1..k : log[i].id # r.id
      <4>1. r.id \notin IdsOnFile /\ r.id # 0
        BY <1>2, <1>4, <2>6
      <4>2. QED
        BY <1>3, <4>1 DEF IdsOnFile
    <3>3. \A i, j \in 1..Len(log') :
            log'[i].id = log'[j].id /\ log'[i].id # 0 =>
              SaysTheSame(log'[i], log'[j]) /\ (i < j => log'[j].status = "accepted")
      <4>1. SUFFICES ASSUME NEW i \in 1..Len(log'), NEW j \in 1..Len(log'), log'[i].id = log'[j].id, log'[i].id # 0
                     PROVE  SaysTheSame(log'[i], log'[j]) /\ (i < j => log'[j].status = "accepted")
        OBVIOUS
      <4>2. CASE i \in 1..k /\ j \in 1..k
        BY <1>3, <1>4, <2>1, <4>1, <4>2 DEF RecordsInTurn
      <4>3. CASE i = k + 1 /\ j = k + 1
        BY <4>3 DEF SaysTheSame
      <4>4. QED
        BY <2>1, <2>2, <3>2, <4>1, <4>2, <4>3
    <3>4. QED
      BY <1>4, <2>5, <3>1, <3>3 DEF RecordsInTurn
  <2>7. CASE r.status = "accepted" /\ \E i \in 1..Len(log) : SaysTheSame(log[i], r)
    <3>1. PICK m \in 1..k : SaysTheSame(log[m], r)
      BY <1>3, <2>7
    <3>2. IdsOnFile' = 1..n
      <4>1. r.id \in IdsOnFile
        BY <1>3, <2>2, <3>1 DEF IdsOnFile, SaysTheSame
      <4>2. QED
        BY <1>2, <2>3, <4>1
    <3>3. \A i \in 1..k : log[i].id = r.id => SaysTheSame(log[i], r)
      BY <1>3, <1>4, <2>2, <3>1 DEF RecordsInTurn, SaysTheSame
    <3>4. \A i, j \in 1..Len(log') :
            log'[i].id = log'[j].id /\ log'[i].id # 0 =>
              SaysTheSame(log'[i], log'[j]) /\ (i < j => log'[j].status = "accepted")
      <4>1. SUFFICES ASSUME NEW i \in 1..Len(log'), NEW j \in 1..Len(log'), log'[i].id = log'[j].id, log'[i].id # 0
                     PROVE  SaysTheSame(log'[i], log'[j]) /\ (i < j => log'[j].status = "accepted")
        OBVIOUS
      <4>2. CASE i \in 1..k /\ j \in 1..k
        BY <1>3, <1>4, <2>1, <4>1, <4>2 DEF RecordsInTurn
      <4>3. CASE j = k + 1
        <5>1. SaysTheSame(log'[i], r)
          BY <2>1, <2>2, <3>3, <4>1, <4>3 DEF SaysTheSame
        <5>2. QED
          BY <2>1, <2>7, <4>3, <5>1
      <4>4. CASE i = k + 1 /\ j \in 1..k
        <5>1. SaysTheSame(log[j], r) /\ ~ (i < j)
          BY <1>3, <2>1, <3>3, <4>1, <4>4
        <5>2. QED
          BY <2>1, <4>4, <5>1 DEF SaysTheSame
      <4>5. QED
        BY <2>2, <4>2, <4>3, <4>4
    <3>5. QED
      BY <1>2, <1>4, <2>5, <3>2, <3>4 DEF RecordsInTurn
  <2>8. QED
    BY <1>7, <2>6, <2>7 DEF Files
<1>8. QED
  BY <1>5, <1>6, <1>7, StepIs DEF Ends, Leaves, Stop

\* A line that is open has somebody to end it.
LEMMA LinesNext ==
    ASSUME Sound, LastLine, LogNext
    PROVE  LastLine'
<1>1. log \in Seq(Records) /\ EndOfLine \in Records /\ EndOfLine.id = 0
  BY EndIs DEF Sound, LogTypeOK
<1>2. PICK k \in Nat : k = Len(log)
  BY <1>1
<1>3. (log = <<>> <=> k = 0) /\ EndOfLine' = EndOfLine
  BY <1>1, <1>2, EmptySeq DEF EndOfLine
<1>4. (Unbroken' => Unbroken) /\ (clean' => clean) /\ (clean => Unbroken)
  BY Grows DEF Unbroken
<1>5. ASSUME NEW t \in Clerks, NEW r \in Records, Files(t, r) PROVE LastLine'
  <2>1. /\ Len(log') = k + 1 /\ log'[k + 1] = r /\ log' # <<>>
        /\ \A i \in 1..k : log'[i] = log[i]
    BY <1>1, <1>2, <1>5, AppendProperties, EmptySeq DEF Files
  <2>2. MidLine(t)' /\ clerk'[t].rec = r /\ ~ MidLine(t)
    BY <1>5 DEF Files, MidLine
  <2>3. \A u \in Clerks : u # t => (MidLine(u)' <=> MidLine(u))
    BY <1>5 DEF Files, MidLine
  <2>4. ASSUME clean'
        PROVE  /\ \A i \in 1..Len(log') : log'[i] # EndOfLine' => Readable(i)'
               /\ \A u, v \in Clerks : MidLine(u)' /\ MidLine(v)' => u = v
               /\ \A u \in Clerks : MidLine(u)' => log' # <<>> /\ log'[Len(log')] = clerk'[u].rec
    <3>1. clean /\ \A u \in Clerks : ~ MidLine(u)
      BY <1>5, <2>2, <2>4 DEF Files
    <3>2. \A u \in Clerks : MidLine(u)' => u = t
      BY <2>3, <3>1
    <3>3. log = <<>> \/ log[k] = EndOfLine
      BY <1>2, <1>4, <3>1 DEF LastLine
    <3>4. ASSUME NEW i \in 1..(k + 1), log'[i] # EndOfLine PROVE Readable(i)'
      <4>1. CASE i = k + 1
        <5>1. i > 1 => log'[i - 1] = EndOfLine
          BY <1>2, <1>3, <2>1, <3>3, <4>1
        <5>2. QED
          BY <1>3, <2>1, <3>4, <4>1, <5>1 DEF Readable
      <4>2. CASE i # k + 1
        <5>1. i \in 1..k /\ Readable(i) /\ i # k
          BY <1>2, <1>3, <2>1, <3>1, <3>3, <3>4, <4>2 DEF LastLine
        <5>2. i < Len(log) /\ log[i + 1] = EndOfLine /\ (i > 1 => log[i - 1] = EndOfLine)
          BY <1>2, <5>1 DEF Readable
        <5>3. log'[i + 1] = log[i + 1] /\ (i > 1 => log'[i - 1] = log[i - 1])
          BY <2>1, <5>1
        <5>4. QED
          BY <1>3, <3>4, <5>2, <5>3 DEF Readable
      <4>3. QED
        BY <4>1, <4>2
    <3>5. QED
      BY <1>3, <2>1, <2>2, <3>2, <3>4
  <2>5. QED
    BY <2>1, <2>2, <2>4 DEF LastLine
<1>6. ASSUME NEW t \in Clerks, Ends(t) PROVE LastLine'
  <2>1. /\ Len(log') = k + 1 /\ log'[k + 1] = EndOfLine
        /\ \A i \in 1..k : log'[i] = log[i]
    BY <1>1, <1>2, <1>6, AppendProperties DEF Ends, EndsLine
  <2>2. MidLine(t) /\ ~ MidLine(t)'
    BY <1>6 DEF Ends, MidLine
  <2>3. \A u \in Clerks : u # t => (MidLine(u)' <=> MidLine(u))
    BY <1>6 DEF Ends, MidLine
  <2>4. ASSUME clean'
        PROVE  /\ \A i \in 1..Len(log') : log'[i] # EndOfLine' => Readable(i)'
               /\ \A u \in Clerks : ~ MidLine(u)'
    <3>1. \A u \in Clerks : ~ MidLine(u)'
      BY <1>4, <2>2, <2>3, <2>4 DEF LastLine
    <3>2. ASSUME NEW i \in 1..(k + 1), log'[i] # EndOfLine PROVE Readable(i)'
      <4>1. i \in 1..k /\ Readable(i)
        BY <1>2, <1>4, <2>1, <2>4, <3>2 DEF LastLine
      <4>2. /\ i < k => log[i + 1] = EndOfLine
            /\ i > 1 => log[i - 1] = EndOfLine
        BY <1>2, <4>1 DEF Readable
      <4>3. /\ log'[i + 1] = EndOfLine
            /\ i > 1 => log'[i - 1] = EndOfLine
        BY <2>1, <4>1, <4>2
      <4>4. QED
        BY <1>3, <3>2, <4>3 DEF Readable
    <3>3. QED
      BY <1>3, <2>1, <3>1, <3>2
  <2>5. log'[Len(log')] = EndOfLine'
    BY <1>3, <2>1
  <2>6. QED
    BY <2>4, <2>5 DEF LastLine
<1>7. CASE Leaves
  <2>1. \A u \in Clerks : (MidLine(u)' <=> MidLine(u)) /\ (MidLine(u) => clerk'[u] = clerk[u])
    BY <1>7 DEF Leaves, MidLine
  <2>2. \A i : Readable(i)' <=> Readable(i)
    BY <1>3, <1>7 DEF Leaves, Readable
  <2>3. log' = log
    BY <1>7 DEF Leaves
  <2>4. QED
    BY <1>3, <1>4, <2>1, <2>2, <2>3 DEF LastLine
<1>8. CASE Stop
  <2>1. /\ log' = log /\ clean' = (clean /\ \A u \in Clerks : ~ MidLine(u))
        /\ stops' = stops + 1 /\ \A u \in Clerks : clerk'[u] = AtRest
    BY <1>8 DEF Stop
  <2>2. \A u \in Clerks : ~ MidLine(u)'
    BY <2>1, RestIs DEF MidLine
  <2>3. \A i : Readable(i)' <=> Readable(i)
    BY <1>3, <2>1 DEF Readable
  <2>4. Unbroken' => clean /\ \A u \in Clerks : ~ MidLine(u)
    <3>1. stops' # 0
      BY <2>1 DEF Sound, LogTypeOK
    <3>2. QED
      BY <2>1, <3>1 DEF Unbroken
  <2>5. Unbroken' => log = <<>> \/ log[Len(log)] = EndOfLine
    BY <1>4, <2>4 DEF LastLine
  <2>6. QED
    BY <1>3, <1>4, <2>1, <2>2, <2>3, <2>5 DEF LastLine
<1>9. QED
  BY <1>5, <1>6, <1>7, <1>8, StepIs
-----------------------------------------------------------------------------
(* What waits for a claim.                                                 *)

\* What comes to wait for a claim is what waited before, a proposal whose
\* mark another record spoils, or what a hold files now.
LEMMA HeldNext ==
    ASSUME Sound, LastLine, LogNext, Unbroken', NEW c, NEW q \in 1..MaxIds, HeldRead(q, c)'
    PROVE  \/ HeldRead(q, c)
           \/ \E u \in Clerks :
                /\ clerk[u].pc = "mark_end"
                /\ clerk[u].rec.id = q /\ clerk[u].rec.held /\ clerk[u].rec.claim = c
           \/ \E u \in Clerks :
                /\ clerk[u].pc = "hold_file" /\ clerk'[u].pc = "hold_end"
                /\ clerk[u].rec.claim = c /\ q = NewId
<1>1. log \in Seq(Records) /\ LogTypeOK /\ RecordsInTurn
  BY DEF Sound, LogTypeOK
<1>2. PICK n \in Nat : n = Len(log)
  BY <1>1
<1>3. Unbroken /\ EndOfLine' = EndOfLine /\ q # 0 /\ (log = <<>> <=> n = 0)
  BY <1>1, <1>2, Grows, Constants, EmptySeq DEF EndOfLine
<1>4. \A i \in 1..n : log'[i] = log[i]
  BY <1>2, Grows
<1>5. ReadOf(q) \subseteq 1..n /\ \A i \in ReadOf(q) : log[i].id = q /\ log[i] # EndOfLine
  BY <1>1, <1>2, ReadOfIs
<1>6. /\ ReadOf(q)' # {}
      /\ \A i \in ReadOf(q)' : log'[i].status = "open" /\ log'[i].held /\ log'[i].claim = c
  BY DEF HeldRead, OpenRead
<1>7. ReadOf(q)' = ReadOf(q) => HeldRead(q, c)
  BY <1>4, <1>5, <1>6 DEF HeldRead, OpenRead
<1>8. ASSUME NEW t \in Clerks, NEW r \in Records, Files(t, r)
      PROVE  \/ HeldRead(q, c)
             \/ \E u \in Clerks :
                  /\ clerk[u].pc = "mark_end"
                  /\ clerk[u].rec.id = q /\ clerk[u].rec.held /\ clerk[u].rec.claim = c
             \/ \E u \in Clerks :
                  /\ clerk[u].pc = "hold_file" /\ clerk'[u].pc = "hold_end"
                  /\ clerk[u].rec.claim = c /\ q = NewId
  <2>1. log' = Append(log, r) /\ r.id # 0
    BY <1>8 DEF Files
  <2>2. ReadOf(q)' = (ReadOf(q) \ {n}) \cup (IF r.id = q /\ (log = <<>> \/ log[n] = EndOfLine) THEN {n + 1} ELSE {})
    BY <1>1, <1>2, <2>1, ReadWrite
  <2>3. log'[n + 1] = r
    BY <1>1, <1>2, <2>1, AppendProperties
  <2>4. CASE r.id = q /\ (log = <<>> \/ log[n] = EndOfLine)
    <3>1. r.status = "open" /\ r.held /\ r.claim = c
      BY <1>6, <2>2, <2>3, <2>4
    <3>2. clerk[t].pc = "hold_file" /\ clerk'[t].pc = "hold_end" /\ clerk[t].rec.claim = c /\ q = NewId
      BY <1>8, <2>4, <3>1 DEF Files
    <3>3. QED
      BY <3>2
  <2>5. CASE ~ (r.id = q /\ (log = <<>> \/ log[n] = EndOfLine)) /\ n \notin ReadOf(q)
    BY <1>7, <2>2, <2>5
  <2>6. CASE ~ (r.id = q /\ (log = <<>> \/ log[n] = EndOfLine)) /\ n \in ReadOf(q)
    <3>1. PICK u \in Clerks : MidLine(u) /\ clerk[u].rec = log[n]
      BY <1>2, <1>3, <1>5, <2>6 DEF LastLine
    <3>2. PICK i \in ReadOf(q) : i # n /\ i \in ReadOf(q)'
      BY <1>6, <2>2, <2>6
    <3>3. i \in 1..n /\ n \in 1..n /\ i < n /\ log[i].id = q /\ log[n].id = q
      BY <1>5, <2>6, <3>2
    <3>4. SaysTheSame(log[i], log[n]) /\ log[n].status = "accepted"
      BY <1>1, <1>2, <1>3, <3>3 DEF RecordsInTurn
    <3>5. log[i].held /\ log[i].claim = c
      BY <1>4, <1>6, <3>2, <3>3
    <3>6. clerk[u].pc = "mark_end"
      BY <3>1, <3>4 DEF Sound, InHand, MidLine
    <3>7. QED
      BY <3>1, <3>3, <3>4, <3>5, <3>6 DEF SaysTheSame
  <2>7. QED
    BY <2>4, <2>5, <2>6
<1>9. ASSUME NEW t \in Clerks, Ends(t) PROVE HeldRead(q, c)
  BY <1>1, <1>7, <1>9, ReadEnd DEF Ends
<1>10. CASE log' = log
  <2>1. ReadOf(q)' = ReadOf(q)
    BY <1>3, <1>10 DEF ReadOf, Readable
  <2>2. QED
    BY <1>7, <2>1
<1>11. QED
  BY <1>8, <1>9, <1>10, StepIs DEF Leaves, Stop

(* What a thread has in hand, said without the last record of an id.       *)
HandRead(t) ==
  LET c == clerk[t]
      ByMiner(r) == ~r.held /\ r.status = "open"
  IN /\ c.filed \subseteq IdsOnFile
     /\ c.pc \in MinerSteps => c.todo # <<>> /\ \A n \in 1..Len(c.todo) : ByMiner(c.todo[n])
     /\ c.pc = "mined" => ByMiner(c.rec)
     /\ c.pc = "hold_end" => c.rec.status = "open"
     /\ c.pc \in {"mined", "hold_end"} => c.rec.id \in IdsOnFile
     /\ Unbroken /\ c.pc = "hold_file" => \A q \in 1..MaxIds : ~ HeldRead(q, c.rec.claim)
     /\ c.pc \in {"mark", "mark_end"} =>
          /\ c.rec.status = "accepted" /\ IsStored(c.rec) /\ c.rec.id # 0
          /\ \E i \in 1..Len(log) : SaysTheSame(log[i], c.rec)
          /\ Unbroken /\ c.rec.held => \A q \in 1..MaxIds : HeldRead(q, c.rec.claim) => q = c.rec.id
     /\ c.pc = "mark_end" => \E i \in 1..Len(log) : log[i] = c.rec

LEMMA HandReads ==
    LogTypeOK /\ RecordsInTurn => ((\A t \in Clerks : InHand(t)) <=> (\A t \in Clerks : HandRead(t)))
<1> SUFFICES ASSUME LogTypeOK, RecordsInTurn, NEW t \in Clerks PROVE InHand(t) <=> HandRead(t)
  OBVIOUS
<1>1. OpenHeld(clerk[t].rec.claim) = {q \in 1..MaxIds : HeldRead(q, clerk[t].rec.claim)}
  BY Reads DEF LatestReads
<1>2. QED
  BY <1>1 DEF InHand, HandRead

\* The same of the next state.
LEMMA HandReadsNext ==
    LogTypeOK' /\ RecordsInTurn' => ((\A t \in Clerks : InHand(t))' <=> (\A t \in Clerks : HandRead(t))')
BY HandReads, PTL

\* One write waits once, and the same of the next state.
LEMMA WaitsOnceNext ==
    LogTypeOK' /\ RecordsInTurn' =>
      (HeldWaitsOnce' <=> (Unbroken => \A c : \A p, q \in OpenHeld(c) : p = q)')
BY WaitsOnce, PTL

\* A write that waits does not come to wait twice.
LEMMA OnceNext ==
    ASSUME LogInv, LogNext
    PROVE  HeldWaitsOnce'
<1>1. Sound /\ LastLine /\ OneWriter /\ HeldWaitsOnce
  BY DEF LogInv, Sound
<1>2. LogTypeOK' /\ RecordsInTurn'
  BY <1>1, TypesNext, TurnNext
<1>3. LatestReads /\ LatestReads'
  BY <1>1, <1>2, Reads, ReadsNext DEF Sound
<1>4. ASSUME Unbroken', NEW c, NEW p \in 1..MaxIds, NEW q \in 1..MaxIds, HeldRead(p, c)', HeldRead(q, c)'
      PROVE  p = q
  <2> DEFINE Marks(u, i) == clerk[u].pc = "mark_end" /\ clerk[u].rec.id = i /\ clerk[u].rec.held /\ clerk[u].rec.claim = c
             Held(u, i) == clerk[u].pc = "hold_file" /\ clerk'[u].pc = "hold_end" /\ clerk[u].rec.claim = c /\ i = NewId
  <2>1. \A i \in {p, q} : HeldRead(i, c) \/ (\E u \in Clerks : Marks(u, i)) \/ (\E u \in Clerks : Held(u, i))
    <3>1. HeldRead(p, c) \/ (\E u \in Clerks : Marks(u, p)) \/ (\E u \in Clerks : Held(u, p))
      BY <1>1, <1>4, HeldNext
    <3>2. HeldRead(q, c) \/ (\E u \in Clerks : Marks(u, q)) \/ (\E u \in Clerks : Held(u, q))
      BY <1>1, <1>4, HeldNext
    <3>3. QED
      BY <3>1, <3>2
  <2>2. Unbroken
    BY <1>1, <1>4, Grows
  <2>3. \A i, j \in {p, q} : HeldRead(i, c) /\ HeldRead(j, c) => i = j
    BY <1>1, <1>3, <2>2, WaitsOnce DEF Sound, LatestReads
  <2>4. \A u, v \in Clerks, i, j \in {p, q} :
           (Marks(u, i) \/ Held(u, i)) /\ (Marks(v, j) \/ Held(v, j)) => i = j
    BY <1>1 DEF OneWriter, WriterSteps
  <2>5. \A u \in Clerks : HandRead(u)
    BY <1>1, HandReads DEF Sound
  <2>6. \A u \in Clerks, i, j \in {p, q} : Marks(u, i) /\ HeldRead(j, c) => i = j
    BY <2>2, <2>5 DEF HandRead
  <2>7. \A u \in Clerks, i, j \in {p, q} : ~ (Held(u, i) /\ HeldRead(j, c))
    BY <2>2, <2>5 DEF HandRead
  <2> HIDE DEF Marks, Held
  <2>8. QED
    BY <2>1, <2>3, <2>4, <2>6, <2>7
<1>5. (Unbroken => \A c : \A p, q \in OpenHeld(c) : p = q)'
  BY <1>3, <1>4 DEF LatestReads
<1>6. QED
  BY <1>2, <1>5, WaitsOnceNext
-----------------------------------------------------------------------------
(* What a thread has in hand.                                              *)

\* A thread with nothing in hand.
LEMMA RestsInHand ==
    ASSUME NEW u \in Clerks, clerk'[u] = AtRest
    PROVE  HandRead(u)'
BY RestIs DEF HandRead, MinerSteps

\* What is stored stays so.
LEMMA StoredStays ==
    ASSUME Sound, LogNext, NEW r, IsStored(r)
    PROVE  IsStored(r)'
BY Grows DEF IsStored

\* No other thread's step takes from what one has in hand.
LEMMA HandStays ==
    ASSUME LogInv, LogNext, NEW u \in Clerks, clerk'[u] = clerk[u]
    PROVE  HandRead(u)'
<1>1. Sound /\ LastLine /\ OneWriter
  BY DEF LogInv, Sound
<1>2. HandRead(u)
  BY <1>1, HandReads DEF Sound
<1>3. /\ IdsOnFile \subseteq IdsOnFile' /\ (Unbroken' => Unbroken)
      /\ \A i \in 1..Len(log) : i \in 1..Len(log') /\ log'[i] = log[i]
  BY <1>1, Grows
<1>4. PICK c : c = clerk[u]
  OBVIOUS
<1>5. clerk'[u] = c
  BY <1>4
<1>6. ASSUME Unbroken', NEW d, NEW q \in 1..MaxIds, HeldRead(q, d)',
             c.pc \in {"hold_file", "mark", "mark_end"}
      PROVE  HeldRead(q, d) \/ (c.pc = "mark_end" /\ c.rec.id = q)
  <2>1. \A v \in Clerks : clerk[v].pc \in {"mark_end", "hold_file"} => v = u
    BY <1>1, <1>4, <1>6 DEF OneWriter, WriterSteps
  <2>2. ~ \E v \in Clerks : clerk[v].pc = "hold_file" /\ clerk'[v].pc = "hold_end"
    BY <1>4, <1>5, <2>1
  <2>3. QED
    BY <1>1, <1>4, <1>6, <2>1, <2>2, HeldNext
<1>7. c.pc \in {"mark", "mark_end"} => IsStored(c.rec)'
  <2>1. c.pc \in {"mark", "mark_end"} => IsStored(c.rec)
    BY <1>2, <1>4 DEF HandRead
  <2>2. QED
    BY <1>1, <2>1, StoredStays
<1>8. /\ Unbroken' /\ c.pc = "hold_file" => \A q \in 1..MaxIds : ~ HeldRead(q, c.rec.claim)'
      /\ c.pc \in {"mark", "mark_end"} /\ Unbroken' /\ c.rec.held =>
           \A q \in 1..MaxIds : HeldRead(q, c.rec.claim)' => q = c.rec.id
  BY <1>2, <1>3, <1>4, <1>6 DEF HandRead
<1>9. /\ c.filed \subseteq IdsOnFile'
      /\ c.pc \in {"mined", "hold_end"} => c.rec.id \in IdsOnFile'
      /\ c.pc \in {"mark", "mark_end"} => \E i \in 1..Len(log') : SaysTheSame(log'[i], c.rec)
      /\ c.pc = "mark_end" => \E i \in 1..Len(log') : log'[i] = c.rec
  BY <1>2, <1>3, <1>4 DEF HandRead
<1>10. /\ c.pc \in MinerSteps => c.todo # <<>> /\ \A n \in 1..Len(c.todo) : ~ c.todo[n].held /\ c.todo[n].status = "open"
       /\ c.pc = "mined" => ~ c.rec.held /\ c.rec.status = "open"
       /\ c.pc = "hold_end" => c.rec.status = "open"
       /\ c.pc \in {"mark", "mark_end"} => c.rec.status = "accepted" /\ c.rec.id # 0
  BY <1>2, <1>4 DEF HandRead
<1>11. QED
  BY <1>5, <1>7, <1>8, <1>9, <1>10 DEF HandRead, MinerSteps, SaysTheSame

\* The one that writes has the mutex, so nothing else comes to wait for its
\* claim but by its own step.
LEMMA NoOtherHolds ==
    ASSUME LogInv, LogNext, Unbroken', NEW t \in Clerks,
           clerk[t].pc \in {"hold", "accept_open", "mark"},
           NEW c, NEW q \in 1..MaxIds, HeldRead(q, c)'
    PROVE  HeldRead(q, c)
<1>1. Sound /\ LastLine /\ OneWriter
  BY DEF LogInv, Sound
<1>2. \A v \in Clerks : clerk[v].pc \in {"mark_end", "hold_file"} => v = t
  BY <1>1 DEF OneWriter, WriterSteps
<1>3. \A v \in Clerks : clerk[v].pc \notin {"mark_end", "hold_file"}
  BY <1>2
<1>4. QED
  BY <1>1, <1>3, HeldNext

\* A new record's id is on file when it is written.
LEMMA FiledIds ==
    ASSUME Sound, LogNext, NEW r \in Records, log' = Append(log, r), r.id # 0
    PROVE  r.id \in IdsOnFile' /\ \E i \in 1..Len(log') : log'[i] = r
<1>1. log \in Seq(Records)
  BY DEF Sound, LogTypeOK
<1>2. Len(log) + 1 \in 1..Len(log') /\ log'[Len(log) + 1] = r
  BY <1>1, AppendProperties
<1>3. QED
  BY <1>2 DEF IdsOnFile

\* What a miner does with its hand.
LEMMA MinerHand ==
    ASSUME LogInv, LogNext, NEW t \in Clerks, Mine(t) \/ FileMined(t) \/ EndMined(t)
    PROVE  \A u \in Clerks : HandRead(u)'
<1>1. Sound /\ LogTypeOK /\ HandRead(t) /\ InHand(t)
  <2>1. Sound
    BY DEF LogInv, Sound
  <2>2. QED
    BY <2>1, HandReads DEF Sound
<1>2. IdsOnFile \subseteq IdsOnFile'
  BY <1>1, Grows
<1>3. clerk[t].filed \subseteq IdsOnFile
  BY <1>1 DEF HandRead
<1>4. CASE Mine(t)
  <2>1. PICK day \in BoundedSeq(Mineable \cup {Gap}, DayLen), said \in Transcripts :
          /\ Proposable(day) # {}
          /\ \E turn \in InTurn(Proposable(day)) :
               clerk' = [clerk EXCEPT ![t].pc = "mine",
                                      ![t].todo = [n \in DOMAIN turn |-> Proposed(day[turn[n]], said)]]
    BY <1>4 DEF Mine
  <2>2. PICK turn \in InTurn(Proposable(day)) :
          clerk' = [clerk EXCEPT ![t].pc = "mine",
                                 ![t].todo = [n \in DOMAIN turn |-> Proposed(day[turn[n]], said)]]
    BY <2>1
  <2>3. PICK todo \in Seq(Records) : todo = [n \in DOMAIN turn |-> Proposed(day[turn[n]], said)]
    BY <1>1, <2>1, ProposedAre
  <2>4. todo # <<>> /\ \A n \in 1..Len(todo) : ~ todo[n].held /\ todo[n].status = "open"
    <3> DEFINE made == [n \in DOMAIN turn |-> Proposed(day[turn[n]], said)]
    <3>1. made # <<>> /\ \A n \in 1..Len(made) : ~ made[n].held /\ made[n].status = "open"
      BY <1>1, <2>1, ProposedAre
    <3>2. made = todo
      BY <2>3
    <3> HIDE DEF made
    <3>3. QED
      BY <3>1, <3>2
  <2>5. clerk' = [clerk EXCEPT ![t].pc = "mine", ![t].todo = todo]
    BY <2>2, <2>3
  <2>6. /\ clerk'[t].pc = "mine" /\ clerk'[t].todo = todo /\ clerk'[t].filed = clerk[t].filed
        /\ \A u \in Clerks \ {t} : clerk'[u] = clerk[u]
    BY <1>1, <2>5 DEF LogTypeOK, ClerkStates
  <2>7. HandRead(t)'
    BY <1>2, <1>3, <2>4, <2>6 DEF HandRead, MinerSteps
  <2>8. QED
    BY <2>6, <2>7, HandStays
<1>5. CASE FileMined(t)
  <2> DEFINE h == Head(clerk[t].todo)
             r == [h EXCEPT !.id = NewId]
  <2>1. clerk[t].pc = "mine" /\ Carries(t, "mined", r) /\ log' = Append(log, r)
    BY <1>5 DEF FileMined, Writes
  <2>2. r \in Records
    BY <1>1, <1>5, RecordsWritten
  <2>3. h \in Records /\ ~ h.held /\ h.status = "open"
    BY <1>1, <2>1, HeadIs DEF MinerSteps
  <2> HIDE DEF h
  <2>4. r.id = NewId /\ r.held = h.held /\ r.status = h.status
    BY <2>3 DEF Records
  <2> HIDE DEF r
  <2>5. /\ clerk'[t].pc = "mined" /\ clerk'[t].rec = r /\ clerk'[t].todo = clerk[t].todo
        /\ clerk'[t].filed = clerk[t].filed
        /\ \A u \in Clerks \ {t} : clerk'[u] = clerk[u]
    BY <1>1, <2>1, <2>2, CarriesIt DEF States, MinerSteps
  <2>6. r.id \in IdsOnFile'
    BY <1>1, <2>1, <2>2, <2>4, NewIdIsNew, FiledIds DEF Sound
  <2>7. clerk[t].todo # <<>> /\ \A n \in 1..Len(clerk[t].todo) : ~ clerk[t].todo[n].held /\ clerk[t].todo[n].status = "open"
    BY <1>1, <2>1 DEF HandRead, MinerSteps
  <2>8. HandRead(t)'
    BY <1>2, <1>3, <2>3, <2>4, <2>5, <2>6, <2>7 DEF HandRead, MinerSteps
  <2>9. QED
    BY <2>5, <2>8, HandStays
<1>6. CASE EndMined(t)
  <2> DEFINE filed == clerk[t].filed \cup {clerk[t].rec.id}
             rest  == Tail(clerk[t].todo)
  <2>1. /\ clerk[t].pc = "mined"
        /\ \/ Rests(t)
           \/ rest # <<>> /\ clerk' = [clerk EXCEPT ![t] = [AtRest EXCEPT !.pc = "mine", !.todo = rest, !.filed = filed]]
    BY <1>6 DEF EndMined
  <2>2. filed \subseteq IdsOnFile'
    BY <1>1, <1>2, <1>3, <2>1 DEF HandRead
  <2>3. rest \in Seq(Records) /\ \A n \in 1..Len(rest) : ~ rest[n].held /\ rest[n].status = "open"
    BY <1>1, <2>1, HeadIs DEF MinerSteps
  <2> HIDE DEF filed, rest
  <2>4. CASE Rests(t)
    BY <1>1, <2>4, ItRests, RestsInHand, HandStays
  <2>5. CASE rest # <<>> /\ clerk' = [clerk EXCEPT ![t] = [AtRest EXCEPT !.pc = "mine", !.todo = rest, !.filed = filed]]
    <3>1. PICK c : c = [AtRest EXCEPT !.pc = "mine", !.todo = rest, !.filed = filed]
      OBVIOUS
    <3>2. c.pc = "mine" /\ c.todo = rest /\ c.filed = filed
      BY <3>1 DEF AtRest
    <3>3. clerk'[t] = c /\ \A u \in Clerks \ {t} : clerk'[u] = clerk[u]
      BY <1>1, <2>5, <3>1 DEF LogTypeOK
    <3>4. HandRead(t)'
      BY <2>2, <2>3, <2>5, <3>2, <3>3 DEF HandRead, MinerSteps
    <3>5. QED
      BY <3>3, <3>4, HandStays
  <2>6. QED
    BY <2>1, <2>4, <2>5
<1>7. QED
  BY <1>4, <1>5, <1>6

\* What a thread with the mutex does with its hand.
LEMMA WriterHand ==
    ASSUME LogInv, LogNext, NEW t \in Clerks,
           \/ TakeMutex(t) \/ StoreClaim(t) \/ HoldLooks(t) \/ HoldFiles(t) \/ EndHeld(t)
           \/ AcceptLooks(t) \/ AcceptStores(t) \/ MarkFiles(t) \/ EndMark(t)
    PROVE  \A u \in Clerks : HandRead(u)'
<1>1. Sound /\ LogTypeOK /\ RecordsInTurn /\ HeldWaitsOnce
  BY DEF LogInv, Sound
<1>2. HandRead(t) /\ LatestReads /\ LatestReads'
  BY <1>1, HandReads, Reads, ReadsNext, TypesNext, TurnNext DEF Sound
<1>3. IdsOnFile \subseteq IdsOnFile' /\ clerk[t].filed \subseteq IdsOnFile'
  BY <1>1, <1>2, Grows DEF HandRead
<1>4. Unbroken' => Unbroken
  BY <1>1, Grows
<1>5. CASE Rests(t)
  BY <1>1, <1>5, ItRests, RestsInHand, HandStays
<1>6. CASE TakeMutex(t)
  <2>1. PICK step \in {"hold", "store", "accept"}, r \in Records : Carries(t, step, r)
    <3>1. \A c \in Mineable : [EndOfLine EXCEPT !.claim = c] \in Records
      BY EndIs DEF Records
    <3>2. \A id \in 1..MaxIds : [EndOfLine EXCEPT !.id = id] \in Records
      BY EndIs, Constants DEF Records
    <3>3. QED
      BY <1>6, <3>1, <3>2 DEF TakeMutex
  <2>2. /\ clerk'[t].pc = step /\ clerk'[t].filed = clerk[t].filed
        /\ \A u \in Clerks \ {t} : clerk'[u] = clerk[u]
    BY <1>1, <2>1, CarriesIt DEF States, WriterSteps
  <2>3. HandRead(t)'
    BY <1>3, <2>2 DEF HandRead, MinerSteps
  <2>4. QED
    BY <2>2, <2>3, HandStays
<1>7. CASE HoldLooks(t) /\ ~ Rests(t)
  <2>1. clerk[t].pc = "hold" /\ GoTo(t, "hold_file") /\ OpenHeld(clerk[t].rec.claim) = {}
    BY <1>7 DEF HoldLooks, OpenHeld
  <2>2. /\ clerk'[t].pc = "hold_file" /\ clerk'[t].filed = clerk[t].filed /\ clerk'[t].rec = clerk[t].rec
        /\ \A u \in Clerks \ {t} : clerk'[u] = clerk[u]
    BY <1>1, <2>1, GoesTo DEF States, WriterSteps
  <2>3. PICK d : d = clerk[t].rec.claim
    OBVIOUS
  <2>4. \A q \in 1..MaxIds : ~ HeldRead(q, d)
    BY <1>2, <2>1, <2>3 DEF LatestReads
  <2>5. Unbroken' => \A q \in 1..MaxIds : ~ HeldRead(q, d)'
    BY <2>1, <2>4, NoOtherHolds
  <2>6. HandRead(t)'
    BY <1>3, <2>2, <2>3, <2>5 DEF HandRead, MinerSteps
  <2>7. QED
    BY <2>2, <2>6, HandStays
<1>8. CASE HoldFiles(t)
  <2> DEFINE r == [id |-> NewId, claim |-> clerk[t].rec.claim, held |-> TRUE, verdict |-> "SUPPORTED", status |-> "open"]
  <2>1. Carries(t, "hold_end", r) /\ log' = Append(log, r)
    BY <1>8 DEF HoldFiles, Writes
  <2>2. r \in Records /\ r.id = NewId /\ r.status = "open"
    BY <1>1, <1>8, RecordsWritten
  <2> HIDE DEF r
  <2>3. /\ clerk'[t].pc = "hold_end" /\ clerk'[t].rec = r /\ clerk'[t].filed = clerk[t].filed
        /\ \A u \in Clerks \ {t} : clerk'[u] = clerk[u]
    BY <1>1, <2>1, <2>2, CarriesIt DEF States, WriterSteps
  <2>4. r.id \in IdsOnFile'
    BY <1>1, <2>1, <2>2, NewIdIsNew, FiledIds
  <2>5. HandRead(t)'
    BY <1>3, <2>2, <2>3, <2>4 DEF HandRead, MinerSteps
  <2>6. QED
    BY <2>3, <2>5, HandStays
<1>9. CASE AcceptLooks(t) /\ ~ Rests(t)
  <2>1. GoTo(t, "accept_open")
    BY <1>9 DEF AcceptLooks
  <2>2. /\ clerk'[t].pc = "accept_open" /\ clerk'[t].filed = clerk[t].filed
        /\ \A u \in Clerks \ {t} : clerk'[u] = clerk[u]
    BY <1>1, <2>1, GoesTo DEF States, WriterSteps
  <2>3. HandRead(t)'
    BY <1>3, <2>2 DEF HandRead, MinerSteps
  <2>4. QED
    BY <2>2, <2>3, HandStays
<1>10. CASE AcceptStores(t) /\ ~ Rests(t)
  <2>1. PICK id \in 1..MaxIds : id = clerk[t].rec.id /\ id \in ListOpen
    BY <1>10 DEF AcceptStores, ListOpen
  <2> DEFINE of == Latest(id)
  <2>12. PICK l, r : l = of /\ r = [l EXCEPT !.status = "accepted"]
    OBVIOUS
  <2>2. /\ clerk[t].pc = "accept_open" /\ Carries(t, "mark", r) /\ log' = log
        /\ kept' = kept \cup {l.claim}
        /\ labelled' = IF l.verdict = "SUPPORTED" THEN labelled ELSE labelled \cup {l.claim}
    BY <1>10, <2>1, <2>12 DEF AcceptStores
  <2>3. PICK i \in ReadOf(id) : l = log[i]
    BY <1>2, <2>1, <2>12 DEF LatestReads, ListOpen
  <2>4. i \in 1..Len(log) /\ l \in Records /\ l.id = id
    BY <1>1, <2>3, ReadOfIs
  <2> HIDE DEF of
  <2>5. /\ r \in Records /\ r.status = "accepted" /\ r.id = id /\ r.claim = l.claim
        /\ r.held = l.held /\ r.verdict = l.verdict
    BY <2>4, <2>12 DEF Records
  <2>6. /\ clerk'[t].pc = "mark" /\ clerk'[t].rec = r /\ clerk'[t].filed = clerk[t].filed
        /\ \A u \in Clerks \ {t} : clerk'[u] = clerk[u]
    BY <1>1, <2>2, <2>5, CarriesIt DEF States, WriterSteps
  <2>7. IsStored(r)'
    BY <2>2, <2>5 DEF IsStored
  <2>8. i \in 1..Len(log') /\ SaysTheSame(log'[i], r) /\ r.id # 0
    BY <2>2, <2>3, <2>4, <2>5, Constants DEF SaysTheSame
  <2>9. Unbroken' /\ r.held => \A q \in 1..MaxIds : HeldRead(q, r.claim)' => q = r.id
    <3>1. SUFFICES ASSUME Unbroken', r.held, NEW q \in 1..MaxIds, HeldRead(q, r.claim)' PROVE q = id
      BY <2>5
    <3>2. PICK d : d = r.claim
      OBVIOUS
    <3>3. HeldRead(q, d)'
      BY <3>1, <3>2
    <3>4. HeldRead(q, d)
      BY <2>2, <3>1, <3>3, NoOtherHolds
    <3>5. id \in OpenHeld(d)
      BY <2>1, <2>5, <2>12, <3>1, <3>2 DEF OpenHeld, of
    <3>6. q \in OpenHeld(d)
      BY <1>2, <3>4 DEF LatestReads
    <3>7. QED
      BY <1>1, <1>4, <3>1, <3>5, <3>6, WaitsOnce
  <2>10. HandRead(t)'
    BY <1>3, <2>5, <2>6, <2>7, <2>8, <2>9 DEF HandRead, MinerSteps, SaysTheSame
  <2>11. QED
    BY <2>6, <2>10, HandStays
<1>11. CASE MarkFiles(t)
  <2>1. PICK r \in Records : r = clerk[t].rec
    BY <1>1, ClerkIs
  <2>2. clerk[t].pc = "mark" /\ GoTo(t, "mark_end") /\ log' = Append(log, r)
    BY <1>11, <2>1 DEF MarkFiles, Writes
  <2>3. /\ r.status = "accepted" /\ IsStored(r) /\ r.id # 0
        /\ \E i \in 1..Len(log) : SaysTheSame(log[i], r)
        /\ Unbroken /\ r.held => \A q \in 1..MaxIds : HeldRead(q, r.claim) => q = r.id
    BY <1>2, <2>1, <2>2 DEF HandRead
  <2>4. /\ clerk'[t].pc = "mark_end" /\ clerk'[t].rec = r /\ clerk'[t].filed = clerk[t].filed
        /\ \A u \in Clerks \ {t} : clerk'[u] = clerk[u]
    BY <1>1, <2>1, <2>2, GoesTo DEF States, WriterSteps
  <2>5. IsStored(r)' /\ (\E i \in 1..Len(log') : log'[i] = r)
    BY <1>1, <2>2, <2>3, StoredStays, FiledIds
  <2>6. \E i \in 1..Len(log') : SaysTheSame(log'[i], r)
    BY <2>5 DEF SaysTheSame
  <2>7. Unbroken' /\ r.held => \A q \in 1..MaxIds : HeldRead(q, r.claim)' => q = r.id
    <3>1. SUFFICES ASSUME Unbroken', r.held, NEW q \in 1..MaxIds, HeldRead(q, r.claim)' PROVE q = r.id
      OBVIOUS
    <3>2. HeldRead(q, r.claim)
      BY <2>2, <3>1, NoOtherHolds
    <3>3. QED
      BY <1>4, <2>3, <3>1, <3>2
  <2>8. HandRead(t)'
    BY <1>3, <2>3, <2>4, <2>5, <2>6, <2>7 DEF HandRead, MinerSteps, SaysTheSame
  <2>9. QED
    BY <2>4, <2>8, HandStays
<1>12. QED
  BY <1>5, <1>6, <1>7, <1>8, <1>9, <1>10, <1>11 DEF StoreClaim, EndHeld, EndMark

\* So what each has in hand is right after every step.
LEMMA HandsNext ==
    ASSUME LogInv, LogNext
    PROVE  (\A t \in Clerks : InHand(t))'
<1>1. \A t \in Clerks : HandRead(t)'
  <2>1. ASSUME Stop, NEW t \in Clerks PROVE clerk'[t] = AtRest
    BY <2>1 DEF Stop
  <2>2. CASE Stop
    BY <2>1, <2>2, RestsInHand
  <2>3. QED
    BY <2>2, MinerHand, WriterHand DEF LogNext
<1>2. LogTypeOK' /\ RecordsInTurn'
  BY TypesNext, TurnNext DEF LogInv, Sound
<1>3. QED
  BY <1>1, <1>2, HandReadsNext
-----------------------------------------------------------------------------
(* What was accepted and what was answered.                                *)

\* What was accepted is stored, and what was answered is on file.
LEMMA OnFileNext ==
    ASSUME LogInv, LogNext
    PROVE  OnFile'
<1>1. Sound /\ LogTypeOK /\ OnFile /\ log \in Seq(Records)
  BY DEF LogInv, Sound, LogTypeOK
<1>2. /\ IdsOnFile \subseteq IdsOnFile'
      /\ \A i \in 1..Len(log) : i \in 1..Len(log') /\ log'[i] = log[i]
  BY <1>1, Grows
<1>3. \A i \in 1..Len(log') : log'[i].status = "accepted" => IsStored(log[i])'
  <2>1. SUFFICES ASSUME NEW i \in 1..Len(log'), log'[i].status = "accepted" PROVE IsStored(log[i])'
    OBVIOUS
  <2>2. PICK r : r = log'[i]
    OBVIOUS
  <2>3. IsStored(r)
    <3>1. CASE i \in 1..Len(log)
      BY <1>1, <1>2, <2>1, <2>2, <3>1 DEF OnFile
    <3>2. CASE i \notin 1..Len(log)
      <4>1. \A x \in Records : log' = Append(log, x) => log'[i] = x
        BY <1>1, <2>1, <3>2, AppendProperties
      <4>2. log' # log
        BY <2>1, <3>2
      <4>3. ~ EndsLine
        BY <2>1, <4>1, EndIs DEF EndsLine
      <4>4. PICK t \in Clerks, x \in Records : Files(t, x)
        BY <1>1, <4>2, <4>3, StepIs DEF Ends, Leaves, Stop
      <4>5. x = r /\ r.status = "accepted"
        BY <2>1, <2>2, <4>1, <4>4 DEF Files
      <4>6. QED
        BY <4>4, <4>5 DEF Files
    <3>3. QED
      BY <3>1, <3>2
  <2>4. IsStored(r)'
    BY <1>1, <2>3, StoredStays
  <2>5. QED
    BY <2>2, <2>4 DEF IsStored
<1> DEFINE Known(said) ==
             /\ said[1] \in IdsOnFile
             /\ said[2] = "accepted" => \E i \in 1..Len(log) : log[i].id = said[1] /\ log[i].status = "accepted"
<1>4. \A said \in told' : Known(said)
  <2>1. \A said \in told : Known(said)
    BY <1>1 DEF OnFile
  <2>2. ASSUME NEW ids, ids \subseteq IdsOnFile, NEW said \in ids \X {"open"} PROVE Known(said)
    BY <2>2
  <2>3. ASSUME NEW t \in Clerks, EndMined(t) PROVE \A said \in told' : Known(said)
    <3> DEFINE filed == clerk[t].filed \cup {clerk[t].rec.id}
    <3>1. filed \subseteq IdsOnFile
      BY <1>1, <2>3 DEF Sound, InHand, EndMined
    <3>2. told' \subseteq told \cup (filed \X {"open"})
      BY <2>3 DEF EndMined
    <3> HIDE DEF filed, Known
    <3>3. QED
      BY <2>1, <2>2, <3>1, <3>2
  <2>4. ASSUME NEW t \in Clerks, HoldLooks(t) PROVE \A said \in told' : Known(said)
    <3> DEFINE held == {id \in ListOpen : Latest(id).held /\ Latest(id).claim = clerk[t].rec.claim}
    <3>1. held \subseteq IdsOnFile
      BY <1>1, OpenOnFile DEF ListOpen
    <3>2. told' \subseteq told \cup (held \X {"open"})
      BY <2>4 DEF HoldLooks
    <3> HIDE DEF held, Known
    <3>3. QED
      BY <2>1, <2>2, <3>1, <3>2
  <2>5. ASSUME NEW t \in Clerks, EndHeld(t) PROVE \A said \in told' : Known(said)
    <3>1. clerk[t].rec.id \in IdsOnFile
      BY <1>1, <2>5 DEF Sound, InHand, EndHeld
    <3>2. \A said \in told' : said \in told \/ said = <<clerk[t].rec.id, "open">>
      BY <2>5 DEF EndHeld
    <3>3. Known(<<clerk[t].rec.id, "open">>)
      BY <3>1
    <3> HIDE DEF Known
    <3>4. QED
      BY <2>1, <3>2, <3>3
  <2>6. ASSUME NEW t \in Clerks, EndMark(t) PROVE \A said \in told' : Known(said)
    <3>1. PICK i \in 1..Len(log) : log[i] = clerk[t].rec
      BY <1>1, <2>6 DEF Sound, InHand, EndMark
    <3>2. clerk[t].rec.status = "accepted" /\ clerk[t].rec.id # 0
      BY <1>1, <2>6 DEF Sound, InHand, EndMark
    <3>3. clerk[t].rec.id \in IdsOnFile
      BY <3>1, <3>2 DEF IdsOnFile
    <3>4. \A said \in told' : said \in told \/ said = <<clerk[t].rec.id, "accepted">>
      BY <2>6 DEF EndMark
    <3>5. Known(<<clerk[t].rec.id, "accepted">>)
      BY <3>1, <3>2, <3>3
    <3> HIDE DEF Known
    <3>6. QED
      BY <2>1, <3>4, <3>5
  <2>7. CASE told' = told
    BY <2>1, <2>7
  <2>8. QED
    BY <2>3, <2>4, <2>5, <2>6, <2>7
    DEF LogNext, Mine, FileMined, TakeMutex, StoreClaim, HoldFiles, AcceptLooks, AcceptStores, MarkFiles, Stop
<1>5. \A said \in told' :
        /\ said[1] \in IdsOnFile'
        /\ said[2] = "accepted" => \E i \in 1..Len(log') : log'[i].id = said[1] /\ log'[i].status = "accepted"
  BY <1>2, <1>4
<1>6. QED
  BY <1>3, <1>5 DEF OnFile

\* What reads as accepted is stored.
LEMMA MarkedAreStored == LogTypeOK /\ RecordsInTurn /\ OnFile => MarkedIsStored
<1> SUFFICES ASSUME LogTypeOK, RecordsInTurn, OnFile, NEW id \in Marked PROVE IsStored(Latest(id))
  BY DEF MarkedIsStored
<1>1. id \in 1..MaxIds /\ ReadOf(id) # {} /\ Latest(id).status = "accepted"
  BY DEF Marked
<1>2. PICK i \in ReadOf(id) : Latest(id) = log[i]
  BY <1>1, LatestIs
<1>3. i \in 1..Len(log)
  BY ReadOfIs
<1>4. QED
  BY <1>1, <1>2, <1>3 DEF OnFile

\* While records come one at a time, what was answered is read.
LEMMA ToldAreRead == LogTypeOK /\ RecordsInTurn /\ OnFile /\ LastLine => ToldIsRead
<1> SUFFICES ASSUME LogTypeOK, RecordsInTurn, OnFile, LastLine, clean, NEW said \in told
             PROVE  IF said[2] = "accepted" THEN said[1] \in Marked ELSE said[1] \in Marked \cup ListOpen
  BY DEF ToldIsRead
<1>1. PICK id \in IdsOnFile : id = said[1]
  BY DEF OnFile
<1>2. id \in 1..MaxIds /\ id # 0
  BY NewIdIsNew, Constants
<1>3. \A i \in 1..Len(log) : log[i].id = id => i \in ReadOf(id)
  BY <1>2, EndIs DEF LastLine, ReadOf
<1>4. PICK i \in 1..Len(log) : log[i].id = id
  BY DEF IdsOnFile
<1>5. ReadOf(id) # {}
  BY <1>3, <1>4
<1>6. PICK m \in ReadOf(id) : Latest(id) = log[m] /\ log[m].status \in {"open", "accepted"}
  BY <1>2, <1>5, LatestIs
<1>7. id \in Marked \cup ListOpen
  BY <1>2, <1>5, <1>6 DEF Marked, ListOpen
<1>8. said[2] = "accepted" => id \in Marked
  <2>1. SUFFICES ASSUME said[2] = "accepted" PROVE MarkRead(id)
    BY <1>2, Reads DEF LatestReads
  <2>2. PICK j \in 1..Len(log) : log[j].id = id /\ log[j].status = "accepted"
    BY <1>1, <2>1 DEF OnFile
  <2>3. QED
    BY <1>3, <2>2 DEF MarkRead
<1>9. QED
  BY <1>1, <1>7, <1>8

-----------------------------------------------------------------------------
\* Nothing is on file at the start.
LEMMA LogInitOK == LogInit => LogInv
<1> SUFFICES ASSUME LogInit PROVE LogInv
  OBVIOUS
<1>1. log = <<>> /\ Len(log) = 0 /\ 1..Len(log) = {} /\ told = {} /\ \A t \in Clerks : clerk[t] = AtRest
  BY DEF LogInit
<1>2. LogTypeOK
  BY <1>1, RestIs, EmptySeq DEF LogInit, LogTypeOK
<1>3. OneWriter
  BY <1>1, RestIs DEF OneWriter, WriterSteps
<1>4. LastLine
  BY <1>1, RestIs DEF LastLine, MidLine
<1>5. RecordsInTurn
  <2>1. 0 \in 0..MaxIds /\ IdsOnFile = 1..0
    BY <1>1, Constants DEF IdsOnFile
  <2>2. QED
    BY <1>1, <2>1 DEF RecordsInTurn
<1>6. \A t \in Clerks : InHand(t)
  BY <1>1, RestIs DEF InHand, MinerSteps
<1>7. OnFile
  BY <1>1 DEF OnFile
<1>8. HeldWaitsOnce
  <2>1. \A q : ReadOf(q) = {}
    BY <1>1 DEF ReadOf
  <2>2. ListOpen = {}
    BY <2>1 DEF ListOpen
  <2>3. QED
    BY <2>2 DEF HeldWaitsOnce
<1>9. QED
  BY <1>2, <1>3, <1>4, <1>5, <1>6, <1>7, <1>8, MarkedAreStored, ToldAreRead DEF LogInv

\* Every step keeps the invariant.
LEMMA LogInvNext == LogInv /\ LogNext => LogInv'
<1> SUFFICES ASSUME LogInv, LogNext PROVE LogInv'
  OBVIOUS
<1>1. Sound /\ LastLine /\ OneWriter
  BY DEF LogInv, Sound
<1>2. LogTypeOK' /\ RecordsInTurn' /\ LastLine' /\ OneWriter'
  BY <1>1, TypesNext, TurnNext, LinesNext, OneWriterNext DEF Sound
<1>3. (\A t \in Clerks : InHand(t))' /\ OnFile' /\ HeldWaitsOnce'
  BY HandsNext, OnFileNext, OnceNext
<1>4. MarkedIsStored' /\ ToldIsRead'
  <2>1. (LogTypeOK' /\ RecordsInTurn' /\ OnFile' => MarkedIsStored')
        /\ (LogTypeOK' /\ RecordsInTurn' /\ OnFile' /\ LastLine' => ToldIsRead')
    BY MarkedAreStored, ToldAreRead, PTL
  <2>2. QED
    BY <1>2, <1>3, <2>1
<1>5. QED
  BY <1>2, <1>3, <1>4 DEF LogInv

(***************************************************************************)
(* However many threads mine, hold and accept over the one file, and       *)
(* wherever the process stops: a write waits for its person as one open    *)
(* proposal until a stop leaves a line open, what reads as accepted is     *)
(* stored with its warning, and while records were written one at a time   *)
(* what an answer said of a proposal can be read (proposals.rs: append,    *)
(* list_open, hold; service.rs: compact, accept).                          *)
(***************************************************************************)
THEOREM LogInvariance == LogSpec => []LogInv
<1>1. LogInv /\ UNCHANGED logVars => LogInv'
  <2>1. SUFFICES ASSUME LogInv, UNCHANGED logVars PROVE LogInv'
    OBVIOUS
  <2>2. /\ log' = log /\ kept' = kept /\ labelled' = labelled /\ writing' = writing
        /\ clerk' = clerk /\ told' = told /\ clean' = clean /\ stops' = stops
    BY <2>1 DEF logVars
  <2>3. LogTypeOK' /\ OneWriter' /\ IdsOnFile' = IdsOnFile /\ Unbroken' = Unbroken
    BY <2>1, <2>2 DEF LogInv, LogTypeOK, OneWriter, IdsOnFile, Unbroken
  <2>4. /\ \A q : ReadOf(q)' = ReadOf(q) /\ Latest(q)' = Latest(q)
        /\ \A i : Readable(i)' = Readable(i)
    BY <2>2 DEF ReadOf, Readable, Latest, EndOfLine
  <2>5. ListOpen' = ListOpen /\ Marked' = Marked
    BY <2>4 DEF ListOpen, Marked
  <2>6. (\A r : IsStored(r)' = IsStored(r)) /\ (\A c : OpenHeld(c)' = OpenHeld(c))
    BY <2>2, <2>4, <2>5 DEF IsStored, OpenHeld
  <2>7. LastLine' /\ RecordsInTurn'
    BY <2>1, <2>2, <2>3, <2>4 DEF LogInv, LastLine, MidLine, RecordsInTurn, EndOfLine
  <2>8. OnFile'
    BY <2>1, <2>2, <2>3, <2>6 DEF LogInv, OnFile, IsStored
  <2>9. (\A t \in Clerks : InHand(t))'
    <3>1. SUFFICES ASSUME NEW t \in Clerks PROVE InHand(t)'
      OBVIOUS
    <3>2. OpenHeld(clerk[t].rec.claim)' = OpenHeld(clerk[t].rec.claim)
      BY <2>2, <2>4, <2>5 DEF OpenHeld
    <3>3. IsStored(clerk[t].rec)' = IsStored(clerk[t].rec)
      BY <2>2 DEF IsStored
    <3>4. InHand(t)
      BY <2>1 DEF LogInv
    <3>5. QED
      BY <2>2, <2>3, <3>2, <3>3, <3>4 DEF InHand, SaysTheSame
  <2>10. HeldWaitsOnce' /\ MarkedIsStored' /\ ToldIsRead'
    BY <2>1, <2>2, <2>3, <2>4, <2>5 DEF LogInv, HeldWaitsOnce, MarkedIsStored, ToldIsRead, IsStored
  <2>11. QED
    BY <2>3, <2>7, <2>8, <2>9, <2>10 DEF LogInv
<1>2. QED
  BY <1>1, LogInitOK, LogInvNext, PTL DEF LogSpec

-----------------------------------------------------------------------------
(***************************************************************************)
(* LinkGraph. First what a claim chooses: peers have an order, so each a   *)
(* place, and no more are taken than there are places. Then what a         *)
(* relinking and a fire do to any links, and each action.                  *)
(***************************************************************************)

\* A claim has finitely many topics.
Topical(topics) == \A c \in Claims : IsFiniteSet(topics[c])

\* What the assumptions on the constants say of their kinds.
LEMMA ClaimsCounted ==
    /\ Cardinality(Claims) \in Nat /\ IsFiniteSet(Claims)
    /\ Claims \subseteq Nat \ {0}
    /\ LinkMax \in Nat \ {0}
BY LinksAssumption, FS_CardinalityType

\* An overlap is a fraction.
LEMMA FractionTyped ==
    ASSUME NEW s, NEW t, IsFiniteSet(s), IsFiniteSet(t)
    PROVE  Shared(s, t) \in Nat /\ Union(s, t) \in Nat \ {0}
<1>1. IsFiniteSet(s \cap t) /\ IsFiniteSet(s \cup t)
  <2>1. s \cap t \subseteq s
    OBVIOUS
  <2>2. QED
    BY <2>1, FS_Subset, FS_Union
<1>2. Cardinality(s \cap t) \in Nat /\ Cardinality(s \cup t) \in Nat
  BY <1>1, FS_CardinalityType
<1>3. s \cup t # {} => Cardinality(s \cup t) # 0
  BY <1>1, FS_EmptySet
<1>4. QED
  BY <1>2, <1>3 DEF Shared, Union

\* Of three fractions: the order of the first and the last.
LEMMA FractionsOrder ==
    ASSUME NEW a \in Nat, NEW c \in Nat, NEW e \in Nat,
           NEW b \in Nat \ {0}, NEW d \in Nat \ {0}, NEW f \in Nat \ {0},
           a * d >= c * b, c * f >= e * d
    PROVE  /\ a * f >= e * b
           /\ a * d > c * b => a * f > e * b
           /\ c * f > e * d => a * f > e * b
<1>1. (a * d) * f >= (c * b) * f /\ (c * f) * b >= (e * d) * b
  <2>1. ASSUME NEW x \in Nat, NEW y \in Nat, NEW z \in Nat, x >= y PROVE x * z >= y * z
    BY <2>1
  <2>2. a * d \in Nat /\ c * b \in Nat /\ c * f \in Nat /\ e * d \in Nat
    OBVIOUS
  <2>3. QED
    BY <2>1, <2>2
<1>2. /\ a * d > c * b => (a * d) * f > (c * b) * f
      /\ c * f > e * d => (c * f) * b > (e * d) * b
  <2>1. ASSUME NEW x \in Nat, NEW y \in Nat, NEW z \in Nat \ {0}, x > y PROVE x * z > y * z
    BY <2>1
  <2>2. a * d \in Nat /\ c * b \in Nat /\ c * f \in Nat /\ e * d \in Nat
    OBVIOUS
  <2>3. QED
    BY <2>1, <2>2
<1>3. /\ (a * d) * f = (a * f) * d
      /\ (c * b) * f = (c * f) * b
      /\ (e * d) * b = (e * b) * d
  OBVIOUS
<1>4. a * f \in Nat /\ e * b \in Nat /\ (a * f) * d \in Nat /\ (e * b) * d \in Nat /\ (c * f) * b \in Nat
  OBVIOUS
<1>5. ASSUME NEW x \in Nat, NEW y \in Nat PROVE (x * d >= y * d => x >= y) /\ (x * d > y * d => x > y)
  <2>1. x < y => x * d < y * d
    OBVIOUS
  <2>2. x = y => x * d = y * d
    OBVIOUS
  <2>3. x * d \in Nat /\ y * d \in Nat
    OBVIOUS
  <2>4. QED
    BY <2>1, <2>2, <2>3
<1>6. (a * f) * d >= (e * b) * d
  BY <1>1, <1>3, <1>4
<1>7. (a * d > c * b => (a * f) * d > (e * b) * d) /\ (c * f > e * d => (a * f) * d > (e * b) * d)
  BY <1>1, <1>2, <1>3, <1>4
<1>8. QED
  BY <1>4, <1>5, <1>6, <1>7

\* Two claims are never each before the other, and one of them is before.
LEMMA BeforeOrders ==
    ASSUME NEW topics, Topical(topics), NEW base \in Claims
    PROVE  /\ \A p, q \in Claims : Before(topics, base, p, q) => ~Before(topics, base, q, p)
           /\ \A p, q \in Claims : p # q => Before(topics, base, p, q) \/ Before(topics, base, q, p)
           /\ \A p, q, r \in Claims : Before(topics, base, p, q) /\ Before(topics, base, q, r)
                                        => Before(topics, base, p, r)
<1> DEFINE over(p)  == Shared(topics[base], topics[p])
           under(p) == Union(topics[base], topics[p])
<1>1. \A p \in Claims : over(p) \in Nat /\ under(p) \in Nat \ {0}
  BY FractionTyped DEF Topical
<1>2. \A p, q \in Claims :
        Before(topics, base, p, q) <=> \/ over(p) * under(q) > over(q) * under(p)
                                       \/ /\ ~ (over(q) * under(p) > over(p) * under(q))
                                          /\ Tie(<<base, p>>, <<base, q>>)
  BY DEF Before, Nearer
<1> HIDE DEF over, under
<1>3. \A p, q \in Claims : over(p) * under(q) \in Nat
  BY <1>1
<1>4. ASSUME NEW p \in Claims, NEW q \in Claims, Before(topics, base, p, q)
      PROVE  ~Before(topics, base, q, p)
  <2>1. over(p) * under(q) \in Nat /\ over(q) * under(p) \in Nat
    BY <1>3
  <2>2. ~ (Tie(<<base, p>>, <<base, q>>) /\ Tie(<<base, q>>, <<base, p>>))
    BY LinksAssumption
  <2>3. \/ over(p) * under(q) > over(q) * under(p)
        \/ ~ (over(q) * under(p) > over(p) * under(q)) /\ Tie(<<base, p>>, <<base, q>>)
    BY <1>2, <1>4
  <2>4. Before(topics, base, q, p) =>
          \/ over(q) * under(p) > over(p) * under(q)
          \/ ~ (over(p) * under(q) > over(q) * under(p)) /\ Tie(<<base, q>>, <<base, p>>)
    BY <1>2
  <2>5. QED
    BY <2>1, <2>2, <2>3, <2>4
<1>5. ASSUME NEW p \in Claims, NEW q \in Claims, p # q
      PROVE  Before(topics, base, p, q) \/ Before(topics, base, q, p)
  BY <1>2, <1>3, <1>5, LinksAssumption
<1>6. ASSUME NEW p \in Claims, NEW q \in Claims, NEW r \in Claims,
             Before(topics, base, p, q), Before(topics, base, q, r)
      PROVE  Before(topics, base, p, r)
  <2>1. over(p) * under(q) >= over(q) * under(p) /\ over(q) * under(r) >= over(r) * under(q)
    <3>1. /\ over(p) * under(q) \in Nat /\ over(q) * under(p) \in Nat
          /\ over(q) * under(r) \in Nat /\ over(r) * under(q) \in Nat
      BY <1>3
    <3>2. /\ over(p) * under(q) > over(q) * under(p) \/ ~ (over(q) * under(p) > over(p) * under(q))
          /\ over(q) * under(r) > over(r) * under(q) \/ ~ (over(r) * under(q) > over(q) * under(r))
      BY <1>2, <1>6
    <3>3. QED
      BY <3>1, <3>2
  <2>2. /\ over(p) * under(r) >= over(r) * under(p)
        /\ over(p) * under(q) > over(q) * under(p) => over(p) * under(r) > over(r) * under(p)
        /\ over(q) * under(r) > over(r) * under(q) => over(p) * under(r) > over(r) * under(p)
    BY <1>1, <2>1, FractionsOrder
  <2>3. \/ over(p) * under(r) > over(r) * under(p)
        \/ Tie(<<base, p>>, <<base, q>>) /\ Tie(<<base, q>>, <<base, r>>)
    BY <1>2, <1>6, <2>2
  <2>4. QED
    BY <1>2, <1>3, <2>2, <2>3, LinksAssumption
<1>7. QED
  BY <1>4, <1>5, <1>6

\* No two of some claims have one place.
LEMMA PlacesApart ==
    ASSUME NEW topics, Topical(topics), NEW base \in Claims, NEW some \in SUBSET Claims
    PROVE  /\ \A p \in some : Place(topics, base, some, p) \in Nat
           /\ \A p, q \in some : Place(topics, base, some, p) = Place(topics, base, some, q) => p = q
<1> DEFINE ahead(p) == {q \in some : Before(topics, base, q, p)}
<1>1. IsFiniteSet(some)
  BY ClaimsCounted, FS_Subset
<1>2. \A p \in some : IsFiniteSet(ahead(p)) /\ Cardinality(ahead(p)) \in Nat
  <2>1. \A p \in some : ahead(p) \subseteq some
    OBVIOUS
  <2>2. QED
    BY <1>1, <2>1, FS_Subset, FS_CardinalityType
<1>3. ASSUME NEW p \in some, NEW q \in some, Before(topics, base, p, q)
      PROVE  Cardinality(ahead(p)) < Cardinality(ahead(q))
  <2>1. p \in Claims /\ q \in Claims
    OBVIOUS
  <2>2. ahead(p) \subseteq ahead(q)
    BY <1>3, <2>1, BeforeOrders
  <2>3. p \in ahead(q) /\ p \notin ahead(p)
    BY <1>3, <2>1, BeforeOrders
  <2>4. ahead(p) # ahead(q)
    BY <2>3
  <2> HIDE DEF ahead
  <2>5. QED
    BY <1>2, <2>2, <2>4, FS_Subset
<1>4. ASSUME NEW p \in some, NEW q \in some, Cardinality(ahead(p)) = Cardinality(ahead(q)) PROVE p = q
  <2>1. SUFFICES ASSUME p # q PROVE FALSE
    OBVIOUS
  <2>2. Before(topics, base, p, q) \/ Before(topics, base, q, p)
    BY <2>1, BeforeOrders
  <2>3. Cardinality(ahead(p)) < Cardinality(ahead(q)) \/ Cardinality(ahead(q)) < Cardinality(ahead(p))
    BY <1>3, <2>2
  <2> HIDE DEF ahead
  <2>4. QED
    BY <1>2, <1>4, <2>3
<1>5. QED
  BY <1>2, <1>4 DEF Place

\* As many have a place below k as there are places, at most.
LEMMA PlacesBelow ==
    ASSUME NEW topics, Topical(topics), NEW base \in Claims, NEW some \in SUBSET Claims, NEW k \in Nat
    PROVE  Cardinality({p \in some : Place(topics, base, some, p) < k}) <= k
<1> DEFINE first == {p \in some : Place(topics, base, some, p) < k}
           at == [p \in first |-> Place(topics, base, some, p)]
<1>1. at \in [first -> 0..(k - 1)]
  BY PlacesApart
<1>2. \A p, q \in first : at[p] = at[q] => p = q
  BY PlacesApart
<1>3. at \in Injection(first, 0..(k - 1))
  BY <1>1, <1>2 DEF Injection, IsInjective
<1> HIDE DEF first, at
<1>4. IsFiniteSet(0..(k - 1)) /\ Cardinality(0..(k - 1)) = k
  <2>1. 0 \in Int /\ k - 1 \in Int
    OBVIOUS
  <2>2. IsFiniteSet(0..(k - 1)) /\ Cardinality(0..(k - 1)) = IF 0 > k - 1 THEN 0 ELSE (k - 1) - 0 + 1
    BY <2>1, FS_Interval
  <2>3. QED
    BY <2>2
<1>5. Cardinality(first) <= Cardinality(0..(k - 1))
  BY <1>3, <1>4, FS_Injection
<1>6. QED
  BY <1>4, <1>5 DEF first

\* The places of a claim go to peers, and there are LinkMax of them.
LEMMA DiversifiedBound ==
    ASSUME NEW topics, Topical(topics), NEW base \in Claims, NEW peers \in SUBSET Claims
    PROVE  /\ Diversified(topics, base, peers) \subseteq peers
           /\ Cardinality(Diversified(topics, base, peers)) <= LinkMax
<1> DEFINE N == Cardinality(peers)
           Next1(sofar, n) ==
             {p \in peers :
                /\ Cardinality(sofar) < LinkMax
                /\ Place(topics, base, peers, p) = n - 1
                /\ \A k \in sofar : Nearer(topics[base], topics[p], topics[p], topics[k])}
           step == [m \in 1..N |-> [v \in SUBSET peers |-> v \cup Next1(v, m)]]
           Eq(h) == h = [n \in 0..N |->
                           IF n = 0 THEN {}
                           ELSE LET sofar == h[n - 1] IN sofar \cup Next1(sofar, n)]
           gained == CHOOSE h : Eq(h)
           earned == gained[N]
           rest == peers \ earned
           fill == {p \in rest : Place(topics, base, rest, p) < LinkMax - Cardinality(earned)}
<1>1. Diversified(topics, base, peers) = earned \cup fill
  BY DEF Diversified
<1>2. IsFiniteSet(peers) /\ N \in Nat
  BY ClaimsCounted, FS_Subset, FS_CardinalityType
<1>3. \A v \in SUBSET peers, m \in 1..N : v \cup Next1(v, m) \in SUBSET peers
  OBVIOUS
<1> HIDE DEF Next1, N
<1>4. \E h : Eq(h)
  <2>1. \A m \in 1..N : \A v \in SUBSET peers : step[m][v] \in SUBSET peers
    BY <1>3
  <2>2. {} \in SUBSET peers
    OBVIOUS
  <2> DEFINE V == SUBSET peers
             none == {}
  <2> HIDE DEF step, V, none
  <2>3. none \in V /\ \A m \in 1..N : \A v \in V : step[m][v] \in V
    BY <2>1, <2>2 DEF V, none
  <2>4. \E f : RunsBy(f, N, V, none, step)
    BY <1>2, <2>3, RunsFrom
  <2>5. PICK f \in [0..N -> SUBSET peers] : f[0] = {} /\ \A m \in 1..N : f[m] = step[m][f[m - 1]]
    BY <2>4 DEF V, none, RunsBy
  <2>6. ASSUME NEW n \in 0..N
        PROVE  f[n] = IF n = 0 THEN {} ELSE f[n - 1] \cup Next1(f[n - 1], n)
    <3>1. CASE n = 0
      BY <2>5, <3>1
    <3>2. CASE n # 0
      <4>1. n \in 1..N /\ n - 1 \in 0..N /\ f[n - 1] \in SUBSET peers /\ f[n] = step[n][f[n - 1]]
        BY <1>2, <2>5, <3>2
      <4>2. QED
        BY <3>2, <4>1 DEF step
    <3>3. QED
      BY <3>1, <3>2
  <2>7. Eq(f)
    BY <2>6
  <2> HIDE DEF Eq
  <2>8. QED
    BY <2>7
<1>5. Eq(gained)
  <2> HIDE DEF Eq
  <2>1. QED
    BY <1>4
<1> HIDE DEF gained
<1> DEFINE P == {n \in 0..N : gained[n] \subseteq peers /\ Cardinality(gained[n]) <= LinkMax}
<1>6. 0 \in P
  <2>1. gained[0] = {} /\ 0 \in 0..N
    BY <1>2, <1>5
  <2>2. Cardinality(gained[0]) = 0
    BY <2>1, FS_EmptySet
  <2>3. QED
    BY <2>1, <2>2, ClaimsCounted
<1>7. ASSUME NEW n \in 0..(N - 1), n \in P PROVE n + 1 \in P
  <2>1. n + 1 \in 0..N /\ n + 1 # 0 /\ (n + 1) - 1 = n
    BY <1>2
  <2>2. gained[n + 1] = gained[n] \cup Next1(gained[n], n + 1)
    BY <1>5, <2>1
  <2>3. gained[n] \subseteq peers /\ Cardinality(gained[n]) <= LinkMax
    BY <1>7
  <2>4. gained[n + 1] \subseteq peers
    BY <2>1, <2>2, <2>3 DEF Next1
  <2>5. IsFiniteSet(gained[n]) /\ Cardinality(gained[n]) \in Nat
    BY <1>2, <2>3, FS_Subset, FS_CardinalityType
  <2>6. CASE Next1(gained[n], n + 1) = {}
    BY <2>1, <2>2, <2>3, <2>4, <2>6
  <2>7. CASE Next1(gained[n], n + 1) # {}
    <3>1. PICK p : p \in Next1(gained[n], n + 1)
      BY <2>7
    <3>2. p \in peers /\ Cardinality(gained[n]) < LinkMax /\ Place(topics, base, peers, p) = n
      BY <2>1, <3>1 DEF Next1
    <3>3. ASSUME NEW q \in Next1(gained[n], n + 1) PROVE q = p
      <4>1. q \in peers /\ Place(topics, base, peers, q) = n
        BY <2>1 DEF Next1
      <4>2. QED
        BY <3>2, <4>1, PlacesApart
    <3>4. gained[n + 1] = gained[n] \cup {p}
      BY <2>2, <3>1, <3>3
    <3>5. Cardinality(gained[n + 1]) <= Cardinality(gained[n]) + 1
      <4> DEFINE sofar == gained[n]
      <4>1. IsFiniteSet(sofar) /\ Cardinality(sofar) \in Nat
        BY <2>5
      <4> HIDE DEF sofar
      <4>2. Cardinality(sofar \cup {p}) = IF p \in sofar THEN Cardinality(sofar) ELSE Cardinality(sofar) + 1
        BY <4>1, FS_AddElement
      <4>3. Cardinality(sofar \cup {p}) <= Cardinality(sofar) + 1
        BY <4>1, <4>2
      <4>4. QED
        BY <3>4, <4>3 DEF sofar
    <3>6. IsFiniteSet(gained[n + 1]) /\ Cardinality(gained[n + 1]) \in Nat
      BY <1>2, <2>4, FS_Subset, FS_CardinalityType
    <3>7. QED
      BY <2>1, <2>4, <2>5, <3>2, <3>5, <3>6, ClaimsCounted
  <2>8. QED
    BY <2>6, <2>7
<1> HIDE DEF P, Eq
<1>8. \A n \in 0..N : n \in P
  BY <1>2, <1>6, <1>7, UpTo
<1>9. earned \subseteq peers /\ Cardinality(earned) <= LinkMax
  <2>1. N \in P
    BY <1>2, <1>8
  <2>2. QED
    BY <2>1 DEF P
<1> HIDE DEF earned
<1>10. IsFiniteSet(earned) /\ Cardinality(earned) \in Nat /\ LinkMax - Cardinality(earned) \in Nat
  <2>1. IsFiniteSet(earned) /\ Cardinality(earned) \in Nat
    BY <1>2, <1>9, FS_Subset, FS_CardinalityType
  <2>2. QED
    BY <1>9, <2>1, ClaimsCounted
<1>11. Cardinality(fill) <= LinkMax - Cardinality(earned)
  <2>1. rest \in SUBSET Claims
    OBVIOUS
  <2> HIDE DEF rest
  <2>2. QED
    BY <1>10, <2>1, PlacesBelow
<1>12. fill \subseteq peers
  OBVIOUS
<1> HIDE DEF fill
<1>13. IsFiniteSet(fill) /\ Cardinality(fill) \in Nat
  BY <1>2, <1>12, FS_Subset, FS_CardinalityType
<1>14. Cardinality(earned \cup fill) <= Cardinality(earned) + Cardinality(fill)
  <2>1. /\ Cardinality(earned \cup fill) = Cardinality(earned) + Cardinality(fill) - Cardinality(earned \cap fill)
    BY <1>10, <1>13, FS_Union
  <2>2. earned \cap fill \subseteq earned
    OBVIOUS
  <2>3. Cardinality(earned \cap fill) \in Nat
    BY <1>10, <2>2, FS_Subset, FS_CardinalityType
  <2>4. QED
    BY <1>10, <1>13, <2>1, <2>3
<1>15. IsFiniteSet(earned \cup fill) /\ Cardinality(earned \cup fill) \in Nat
  BY <1>10, <1>13, FS_Union, FS_CardinalityType
<1>16. Cardinality(earned \cup fill) <= LinkMax
  BY <1>10, <1>11, <1>13, <1>14, <1>15, ClaimsCounted
<1>17. QED
  BY <1>1, <1>9, <1>12, <1>16

\* What is linked is alike: it shares a topic.
LEMMA TargetsAreAlike ==
    ASSUME NEW topics, Topical(topics), NEW a \in Claims, NEW peers \in SUBSET Claims
    PROVE  /\ LinkTargets(topics, a, peers) \subseteq peers
           /\ Cardinality(LinkTargets(topics, a, peers)) <= LinkMax
           /\ \A p \in LinkTargets(topics, a, peers) : topics[p] \cap topics[a] # {}
<1> DEFINE near == {p \in peers : AtThreshold(topics[a], topics[p])}
<1>1. near \in SUBSET Claims /\ LinkTargets(topics, a, peers) = Diversified(topics, a, near)
  BY DEF LinkTargets
<1>2. LinkTargets(topics, a, peers) \subseteq near /\ Cardinality(LinkTargets(topics, a, peers)) <= LinkMax
  <2> HIDE DEF near
  <2>1. QED
    BY <1>1, DiversifiedBound
<1>3. ASSUME NEW p \in near PROVE topics[p] \cap topics[a] # {}
  <2>1. IsFiniteSet(topics[a]) /\ IsFiniteSet(topics[p])
    BY DEF Topical
  <2>2. Shared(topics[a], topics[p]) \in Nat /\ Union(topics[a], topics[p]) \in Nat \ {0}
    BY <2>1, FractionTyped
  <2>3. 10 * Shared(topics[a], topics[p]) >= 3 * Union(topics[a], topics[p])
    BY DEF AtThreshold
  <2>4. Shared(topics[a], topics[p]) # 0
    BY <2>2, <2>3
  <2>5. SUFFICES ASSUME topics[p] \cap topics[a] = {} PROVE FALSE
    OBVIOUS
  <2>6. topics[a] \cap topics[p] = {}
    BY <2>5
  <2>7. Shared(topics[a], topics[p]) = 0
    BY <2>6, FS_EmptySet DEF Shared
  <2>8. QED
    BY <2>4, <2>7
<1>4. QED
  BY <1>2, <1>3

\* A dropped edge goes from both ends.
LEMMA DroppedFromBoth ==
    ASSUME NEW cut \in SUBSET (Claims \X Claims), NEW c, NEW d
    PROVE  d \in Dropped(cut, c) <=> <<c, d>> \in cut \/ <<d, c>> \in cut
<1>1. \A e \in cut : e = <<e[1], e[2]>>
  OBVIOUS
<1>2. <<c, d>>[1] = c /\ <<c, d>>[2] = d /\ <<d, c>>[1] = d /\ <<d, c>>[2] = c
  OBVIOUS
<1>3. ASSUME d \in Dropped(cut, c) PROVE <<c, d>> \in cut \/ <<d, c>> \in cut
  BY <1>1, <1>3 DEF Dropped
<1>4. ASSUME <<c, d>> \in cut \/ <<d, c>> \in cut PROVE d \in Dropped(cut, c)
  BY <1>2, <1>4 DEF Dropped
<1>5. QED
  BY <1>3, <1>4

\* What a relinking is, of what was chosen and what was cut.
Relinks(held, topics, a, peers, targets, cut) ==
  /\ targets \subseteq peers /\ Cardinality(targets) <= LinkMax
  /\ \A p \in targets : topics[p] \cap topics[a] # {}
  /\ cut \subseteq Claims \X Claims
  /\ \A c, d \in Claims : <<c, d>> \in cut => c \in peers /\ d \in peers \cup {a}
  /\ held \in [Claims -> SUBSET Claims]
  /\ held[a] = targets \ Dropped(cut, a)
  /\ \A c \in peers : held[c] = (IF c \in targets THEN links[c] \cup {a} ELSE links[c] \ {a}) \ Dropped(cut, c)
  /\ \A c \in Claims \ (peers \cup {a}) : held[c] = links[c]
  /\ \A c \in peers : Cardinality(held[c] \cap (peers \cup {a})) <= LinkMax

\* Relinked is one, whatever it chose and cut.
LEMMA RelinkedRelinks ==
    ASSUME links \in [Claims -> SUBSET Claims],
           NEW topics, Topical(topics), NEW a \in Claims, NEW peers \in SUBSET (Claims \ {a})
    PROVE  \E targets, cut : Relinks(Relinked(topics, a, peers), topics, a, peers, targets, cut)
<1> DEFINE targets == LinkTargets(topics, a, peers)
           known   == peers \cup {a}
           joined  == [p \in peers |->
                         IF p \in targets THEN links[p] \cup {a} ELSE links[p] \ {a}]
           KeptBy(p) == Diversified(topics, p, joined[p] \cap known)
           cut     == {e \in peers \X known :
                         /\ Cardinality(joined[e[1]]) > LinkMax
                         /\ e[2] \in joined[e[1]]
                         /\ e[2] \notin KeptBy(e[1])}
           held == [c \in Claims |->
                      IF c = a THEN targets \ Dropped(cut, a)
                      ELSE IF c \in peers THEN joined[c] \ Dropped(cut, c)
                      ELSE links[c]]
<1>1. Relinked(topics, a, peers) = held
  BY DEF Relinked
<1>2. targets \subseteq peers /\ Cardinality(targets) <= LinkMax
      /\ \A p \in targets : topics[p] \cap topics[a] # {}
  BY TargetsAreAlike
<1>3. \A p \in peers : joined[p] = (IF p \in targets THEN links[p] \cup {a} ELSE links[p] \ {a})
                       /\ joined[p] \in SUBSET Claims
  OBVIOUS
<1>4. \A c, d : <<c, d>> \in cut <=> /\ c \in peers /\ d \in known
                                   /\ Cardinality(joined[c]) > LinkMax
                                   /\ d \in joined[c] /\ d \notin KeptBy(c)
  <2> HIDE DEF joined, KeptBy, known
  <2>1. \A c, d : <<c, d>>[1] = c /\ <<c, d>>[2] = d
    OBVIOUS
  <2>2. QED
    BY <2>1
<1>5. cut \subseteq Claims \X Claims
  OBVIOUS
<1>6. \A c \in peers : KeptBy(c) \subseteq Claims /\ Cardinality(KeptBy(c)) <= LinkMax
  <2> HIDE DEF targets, joined
  <2>1. \A c \in peers : c \in Claims /\ joined[c] \cap known \in SUBSET Claims
    BY <1>3
  <2> HIDE DEF known
  <2>2. QED
    BY <2>1, DiversifiedBound
<1> HIDE DEF targets, KeptBy, joined, cut
<1>7. held \in [Claims -> SUBSET Claims]
  BY <1>2, <1>3
<1>8. held[a] = targets \ Dropped(cut, a)
  OBVIOUS
<1>9. \A c \in peers : held[c] = joined[c] \ Dropped(cut, c)
  OBVIOUS
<1>10. \A c \in Claims \ (peers \cup {a}) : held[c] = links[c]
  OBVIOUS
<1> HIDE DEF held
<1>11. ASSUME NEW c \in peers PROVE Cardinality(held[c] \cap known) <= LinkMax
  <2>1. IsFiniteSet(joined[c]) /\ Cardinality(joined[c]) \in Nat
    BY <1>3, ClaimsCounted, FS_Subset, FS_CardinalityType
  <2>2. CASE ~ (Cardinality(joined[c]) > LinkMax)
    <3>1. held[c] \cap known \subseteq joined[c]
      BY <1>9
    <3>2. Cardinality(held[c] \cap known) <= Cardinality(joined[c])
      BY <2>1, <3>1, FS_Subset
    <3>3. Cardinality(held[c] \cap known) \in Nat
      BY <2>1, <3>1, FS_Subset, FS_CardinalityType
    <3>4. QED
      BY <2>1, <2>2, <3>2, <3>3, ClaimsCounted
  <2>3. CASE Cardinality(joined[c]) > LinkMax
    <3>1. held[c] \cap known \subseteq KeptBy(c)
      <4>1. SUFFICES ASSUME NEW d \in held[c], d \in known PROVE d \in KeptBy(c)
        OBVIOUS
      <4>2. d \in joined[c] /\ d \notin Dropped(cut, c)
        BY <1>9
      <4>3. <<c, d>> \notin cut
        BY <1>5, <4>2, DroppedFromBoth
      <4>4. QED
        BY <1>4, <2>3, <4>1, <4>2, <4>3
    <3>2. IsFiniteSet(KeptBy(c))
      BY <1>6, ClaimsCounted, FS_Subset
    <3>3. Cardinality(held[c] \cap known) <= Cardinality(KeptBy(c))
      BY <3>1, <3>2, FS_Subset
    <3>4. Cardinality(KeptBy(c)) \in Nat /\ Cardinality(held[c] \cap known) \in Nat
      BY <3>1, <3>2, FS_Subset, FS_CardinalityType
    <3>5. QED
      BY <1>6, <3>3, <3>4, ClaimsCounted
  <2>4. QED
    BY <2>2, <2>3
<1>12. Relinks(held, topics, a, peers, targets, cut)
  BY <1>2, <1>3, <1>4, <1>5, <1>7, <1>8, <1>9, <1>10, <1>11 DEF Relinks
<1>13. QED
  BY <1>1, <1>12

-----------------------------------------------------------------------------
\* Of any links in the making, between some claims.
SymmetricIn(held, some) == \A c, d \in some : d \in held[c] <=> c \in held[d]

BoundedIn(held, some, in) ==
  \A c \in some, set \in Sets : Cardinality({d \in held[c] \cap some : in[d] = set}) <= LinkMax

(* The inductive invariant. The links of a claim that closed are left as    *)
(* they were, so the two parts about live claims need an id posted again to *)
(* be kept out, and need to know that an id not yet posted is in no record. *)
LinksIInv ==
  /\ LinksTypeOK
  /\ \A c \in Claims : links[c] \subseteq stored
  /\ ~Reposts => Symmetric /\ Bounded

\* A part of at most LinkMax claims has at most as many.
LEMMA FewerStayWithin ==
    ASSUME NEW T \in SUBSET Claims, NEW S \in SUBSET T, Cardinality(T) <= LinkMax
    PROVE  Cardinality(S) <= LinkMax
<1>1. IsFiniteSet(T) /\ Cardinality(T) \in Nat
  BY ClaimsCounted, FS_Subset, FS_CardinalityType
<1>2. Cardinality(S) <= Cardinality(T) /\ Cardinality(S) \in Nat
  BY <1>1, FS_Subset, FS_CardinalityType
<1>3. QED
  BY <1>1, <1>2, ClaimsCounted

\* What a fire may not disturb, of the links in the making.
Fireable(held) ==
  /\ held \in [Claims -> SUBSET Claims]
  /\ \A c \in Claims : c \notin held[c] /\ held[c] \subseteq stored
  /\ ~Reposts => SymmetricIn(held, live) /\ BoundedIn(held, live, inset)

\* Two claims that fire are linked where both have room.
LEMMA PairKeeps ==
    ASSUME LinksTypeOK, NEW held, Fireable(held), NEW i \in live, NEW j \in live, i # j
    PROVE  Fireable(FirePair(held, i, j))
<1> DEFINE after == [held EXCEPT ![i] = @ \cup {j}, ![j] = @ \cup {i}]
<1>1. i \in Claims /\ j \in Claims /\ live \subseteq stored /\ stored \subseteq Claims
  BY DEF LinksTypeOK
<1>2. held \in [Claims -> SUBSET Claims]
  BY DEF Fireable
<1>3. /\ after \in [Claims -> SUBSET Claims]
      /\ after[i] = held[i] \cup {j} /\ after[j] = held[j] \cup {i}
      /\ \A c \in Claims \ {i, j} : after[c] = held[c]
  BY <1>1, <1>2
<1> HIDE DEF after
<1>4. \A c \in Claims : c \notin after[c] /\ after[c] \subseteq stored
  BY <1>1, <1>3 DEF Fireable
<1>5. ASSUME i \in held[j] \/ j \in held[i] PROVE ~Reposts => after = held
  <2>1. SUFFICES ASSUME ~Reposts PROVE after = held
    OBVIOUS
  <2>2. i \in held[j] /\ j \in held[i]
    BY <1>5, <2>1 DEF Fireable, SymmetricIn
  <2>3. \A c \in Claims : after[c] = held[c]
    BY <1>3, <2>2
  <2>4. QED
    BY <1>2, <1>3, <2>3
<1>6. ASSUME Cardinality(held[i]) < LinkMax, Cardinality(held[j]) < LinkMax, ~Reposts
      PROVE  SymmetricIn(after, live) /\ BoundedIn(after, live, inset)
  <2>1. SymmetricIn(held, live) /\ BoundedIn(held, live, inset)
    BY <1>6 DEF Fireable
  <2>2. SymmetricIn(after, live)
    <3>1. SUFFICES ASSUME NEW c \in live, NEW d \in live PROVE d \in after[c] => c \in after[d]
      BY DEF SymmetricIn
    <3>2. d \in held[c] => c \in held[d]
      BY <2>1 DEF SymmetricIn
    <3>3. c \in Claims /\ d \in Claims
      BY <1>1
    <3>4. \A e \in Claims : held[e] \subseteq after[e]
      BY <1>3
    <3>5. d \in after[c] => d \in held[c] \/ (c = i /\ d = j) \/ (c = j /\ d = i)
      BY <1>3, <3>3
    <3>6. QED
      BY <1>3, <3>2, <3>3, <3>4, <3>5
  <2>3. ASSUME NEW x \in Claims, NEW y, Cardinality(held[x]) < LinkMax
        PROVE  Cardinality(held[x] \cup {y}) <= LinkMax
    <3> DEFINE h == held[x]
    <3>1. IsFiniteSet(h) /\ Cardinality(h) \in Nat
      BY <1>2, ClaimsCounted, FS_Subset, FS_CardinalityType
    <3>2. Cardinality(h) < LinkMax
      BY <2>3
    <3> HIDE DEF h
    <3>3. Cardinality(h \cup {y}) = IF y \in h THEN Cardinality(h) ELSE Cardinality(h) + 1
      BY <3>1, FS_AddElement
    <3>4. Cardinality(h \cup {y}) <= LinkMax
      BY <3>1, <3>2, <3>3, ClaimsCounted
    <3>5. QED
      BY <3>4 DEF h
  <2>4. Cardinality(after[i]) <= LinkMax /\ Cardinality(after[j]) <= LinkMax
    BY <1>1, <1>3, <1>6, <2>3
  <2>5. ASSUME NEW c \in live, NEW set \in Sets
        PROVE  Cardinality({d \in after[c] \cap live : inset[d] = set}) <= LinkMax
    <3>1. c \in Claims
      BY <1>1
    <3>2. CASE c \in {i, j}
      <4>1. Cardinality(after[c]) <= LinkMax /\ after[c] \in SUBSET Claims
        BY <1>3, <2>4, <3>1, <3>2
      <4>2. {d \in after[c] \cap live : inset[d] = set} \in SUBSET after[c]
        OBVIOUS
      <4>3. QED
        BY <4>1, <4>2, FewerStayWithin
    <3>3. CASE c \notin {i, j}
      <4>1. after[c] = held[c]
        BY <1>3, <3>1, <3>3
      <4>2. QED
        BY <2>1, <4>1 DEF BoundedIn
    <3>4. QED
      BY <3>2, <3>3
  <2>6. QED
    BY <2>2, <2>5 DEF BoundedIn
<1>7. FirePair(held, i, j) = after \/ FirePair(held, i, j) = held
  BY DEF FirePair, after
<1>8. CASE FirePair(held, i, j) = held
  BY <1>8
<1>9. CASE FirePair(held, i, j) = after /\ FirePair(held, i, j) # held
  <2>1. \/ i \in held[j] \/ j \in held[i]
        \/ Cardinality(held[i]) < LinkMax /\ Cardinality(held[j]) < LinkMax
    BY <1>9 DEF FirePair
  <2>2. ~Reposts => SymmetricIn(after, live) /\ BoundedIn(after, live, inset)
    BY <1>5, <1>6, <1>9, <2>1
  <2>3. QED
    BY <1>3, <1>4, <1>9, <2>2 DEF Fireable
<1>10. QED
  BY <1>7, <1>8, <1>9

\* Of a whole fire, pair after pair.
LEMMA WiredKeeps ==
    ASSUME LinksTypeOK, Fireable(links), NEW fired \in SUBSET live
    PROVE  Fireable(Wired(fired))
<1> DEFINE count == Cardinality(Claims)
           N == count * count
           first(n) == ((n - 1) \div count) + 1
           second(n) == ((n - 1) % count) + 1
           One(h, n) == IF first(n) < second(n) /\ {first(n), second(n)} \subseteq fired
                        THEN FirePair(h, first(n), second(n)) ELSE h
           V == [Claims -> SUBSET Claims]
           step == [m \in 1..N |-> [v \in V |-> One(v, m)]]
           Eq(h) == h = [n \in 0..N |->
                           IF n = 0 THEN links
                           ELSE LET i == ((n - 1) \div count) + 1
                                    j == ((n - 1) % count) + 1
                                IN IF i < j /\ {i, j} \subseteq fired
                                   THEN FirePair(h[n - 1], i, j) ELSE h[n - 1]]
           wired == CHOOSE h : Eq(h)
<1>1. Wired(fired) = wired[N]
  BY DEF Wired
<1>2. N \in Nat
  <2>1. count \in Nat
    BY ClaimsCounted
  <2> HIDE DEF count
  <2>2. QED
    BY <2>1
<1>3. fired \subseteq Claims /\ links \in V
  BY DEF LinksTypeOK
<1>4. \A v \in V, i, j \in fired : FirePair(v, i, j) \in V
  BY <1>3 DEF FirePair
<1>5. \A v \in V, m \in 1..N : One(v, m) \in V
  BY <1>4
<1>6. \A h : Eq(h) <=> h = [n \in 0..N |-> IF n = 0 THEN links ELSE One(h[n - 1], n)]
  OBVIOUS
<1> HIDE DEF One, N
<1>7. \E h : Eq(h)
  <2>1. \A m \in 1..N : \A v \in V : step[m][v] \in V
    BY <1>5
  <2> HIDE DEF step, V
  <2>2. \E f : RunsBy(f, N, V, links, step)
    BY <1>2, <1>3, <2>1, RunsFrom
  <2>3. PICK f : f \in [0..N -> V] /\ f[0] = links /\ \A m \in 1..N : f[m] = step[m][f[m - 1]]
    BY <2>2 DEF RunsBy
  <2>4. ASSUME NEW n \in 0..N
        PROVE  f[n] = IF n = 0 THEN links ELSE One(f[n - 1], n)
    <3>1. CASE n = 0
      BY <2>3, <3>1
    <3>2. CASE n # 0
      <4>1. n \in 1..N /\ n - 1 \in 0..N
        BY <1>2, <3>2
      <4>2. f[n - 1] \in V /\ f[n] = step[n][f[n - 1]]
        BY <2>3, <4>1
      <4>3. QED
        BY <3>2, <4>1, <4>2 DEF step
    <3>3. QED
      BY <3>1, <3>2
  <2>5. f = [n \in 0..N |-> IF n = 0 THEN links ELSE One(f[n - 1], n)]
    BY <2>3, <2>4
  <2> HIDE DEF Eq
  <2>6. QED
    BY <1>6, <2>5
<1>8. Eq(wired)
  <2> HIDE DEF Eq
  <2>1. QED
    BY <1>7
<1> HIDE DEF wired, Eq
<1>9. wired = [n \in 0..N |-> IF n = 0 THEN links ELSE One(wired[n - 1], n)]
  BY <1>6, <1>8
<1> DEFINE P == {n \in 0..N : Fireable(wired[n])}
<1>10. 0 \in P
  <2>1. wired[0] = links /\ 0 \in 0..N
    BY <1>2, <1>9
  <2>2. QED
    BY <2>1
<1>11. ASSUME NEW n \in 0..(N - 1), n \in P PROVE n + 1 \in P
  <2>1. n + 1 \in 0..N /\ n + 1 # 0 /\ (n + 1) - 1 = n
    BY <1>2
  <2>2. wired[n + 1] = One(wired[n], n + 1)
    BY <1>9, <2>1
  <2>3. Fireable(wired[n])
    BY <1>11
  <2> DEFINE i == first(n + 1)
             j == second(n + 1)
  <2>4. One(wired[n], n + 1) = IF i < j /\ {i, j} \subseteq fired
                               THEN FirePair(wired[n], i, j) ELSE wired[n]
    BY DEF One
  <2> HIDE DEF i, j
  <2>5. CASE i < j /\ {i, j} \subseteq fired
    <3>1. i \in live /\ j \in live /\ i # j
      <4>1. i \in fired /\ j \in fired
        BY <2>5
      <4>2. i \in Nat /\ j \in Nat
        BY <1>3, <4>1, ClaimsCounted
      <4>3. QED
        BY <2>5, <4>1, <4>2
    <3>2. Fireable(FirePair(wired[n], i, j))
      BY <2>3, <3>1, PairKeeps
    <3>3. QED
      BY <2>1, <2>2, <2>4, <2>5, <3>2
  <2>6. CASE ~ (i < j /\ {i, j} \subseteq fired)
    BY <2>1, <2>2, <2>3, <2>4, <2>6
  <2>7. QED
    BY <2>5, <2>6
<1> HIDE DEF P
<1>12. \A n \in 0..N : n \in P
  BY <1>2, <1>10, <1>11, UpTo
<1>13. N \in P
  BY <1>2, <1>12
<1>14. QED
  BY <1>1, <1>13 DEF P

\* What a relinking leaves of any links: ids that were posted, and not one's own.
LEMMA RelinkTyped ==
    ASSUME LinksIInv, NEW held, NEW topics, NEW a \in Claims, NEW peers \in SUBSET live,
           NEW targets, NEW cut, a \notin peers, Relinks(held, topics, a, peers, targets, cut)
    PROVE  /\ held \in [Claims -> SUBSET Claims]
           /\ \A c \in Claims : c \notin held[c] /\ held[c] \subseteq stored \cup {a}
<1>1. /\ links \in [Claims -> SUBSET Claims] /\ live \subseteq stored /\ stored \subseteq Claims
      /\ \A c \in Claims : c \notin links[c] /\ links[c] \subseteq stored
  BY DEF LinksIInv, LinksTypeOK
<1>2. held \in [Claims -> SUBSET Claims]
  BY DEF Relinks
<1>3. ASSUME NEW c \in Claims PROVE c \notin held[c] /\ held[c] \subseteq stored \cup {a}
  <2>1. CASE c = a
    BY <1>1, <2>1 DEF Relinks
  <2>2. CASE c \in peers
    BY <1>1, <2>2 DEF Relinks
  <2>3. CASE c \in Claims \ (peers \cup {a})
    BY <1>1, <2>3 DEF Relinks
  <2>4. QED
    BY <2>1, <2>2, <2>3
<1>4. QED
  BY <1>2, <1>3

\* A relinking is the same from both ends, where nobody outside links to a.
LEMMA RelinkSymmetric ==
    ASSUME LinksTypeOK, Symmetric, NEW held, NEW topics, NEW a \in Claims, NEW peers \in SUBSET live,
           NEW targets, NEW cut, a \notin peers, Relinks(held, topics, a, peers, targets, cut),
           NEW some \in SUBSET (live \cup {a}), \A c \in some \ (peers \cup {a}) : a \notin links[c]
    PROVE  SymmetricIn(held, some)
<1>1. live \subseteq Claims /\ links \in [Claims -> SUBSET Claims] /\ some \subseteq Claims
  BY DEF LinksTypeOK
<1>2. /\ cut \in SUBSET (Claims \X Claims)
      /\ \A c, d \in Claims : <<c, d>> \in cut => c \in peers /\ d \in peers \cup {a}
      /\ targets \subseteq peers
  BY DEF Relinks
<1>3. \A c, d \in Claims : d \in Dropped(cut, c) <=> c \in Dropped(cut, d)
  BY <1>2, DroppedFromBoth
<1>4. \A c, d \in Claims : d \in Dropped(cut, c) => c \in peers \cup {a} /\ d \in peers \cup {a}
  BY <1>2, DroppedFromBoth
<1>5. ASSUME NEW d \in some, d # a PROVE d \in held[a] <=> a \in held[d]
  <2>1. d \in live /\ d \in Claims
    BY <1>1, <1>5
  <2>2. CASE d \in peers
    <3>1. a \in held[d] <=> d \in targets /\ a \notin Dropped(cut, d)
      BY <2>2 DEF Relinks
    <3>2. d \in held[a] <=> d \in targets /\ d \notin Dropped(cut, a)
      BY DEF Relinks
    <3>3. QED
      BY <1>3, <2>1, <3>1, <3>2
  <2>3. CASE d \notin peers
    <3>1. held[d] = links[d] /\ a \notin links[d]
      BY <1>5, <2>1, <2>3 DEF Relinks
    <3>2. d \notin held[a]
      BY <1>2, <2>3 DEF Relinks
    <3>3. QED
      BY <3>1, <3>2
  <2>4. QED
    BY <2>2, <2>3
<1>6. ASSUME NEW c \in some, NEW d \in some, c # a, d # a PROVE d \in held[c] => c \in held[d]
  <2>1. c \in live /\ d \in live /\ c \in Claims /\ d \in Claims
    BY <1>1, <1>6
  <2>2. d \in links[c] <=> c \in links[d]
    BY <2>1 DEF Symmetric
  <2>3. ASSUME NEW x \in {c, d}, NEW y \in {c, d}
        PROVE  y \in held[x] <=> y \in links[x] /\ (x \in peers => y \notin Dropped(cut, x))
    <3>1. CASE x \in peers
      BY <1>6, <2>1, <3>1 DEF Relinks
    <3>2. CASE x \notin peers
      <4>1. held[x] = links[x]
        BY <1>6, <2>1, <3>2 DEF Relinks
      <4>2. QED
        BY <3>2, <4>1
    <3>3. QED
      BY <3>1, <3>2
  <2>4. \A x, y \in {c, d} : y \in Dropped(cut, x) => x \in peers
    BY <1>4, <1>6, <2>1
  <2>5. \A x, y \in {c, d} : y \in held[x] <=> y \in links[x] /\ y \notin Dropped(cut, x)
    BY <2>3, <2>4
  <2>6. QED
    BY <1>3, <2>1, <2>2, <2>5
<1>7. QED
  BY <1>5, <1>6 DEF SymmetricIn

\* What claims are about is finite.
LEMMA AboutIsTopical ==
    ASSUME NEW topics \in [Claims -> Abouts \cup {{}}]
    PROVE  Topical(topics)
BY LinksAssumption, FS_EmptySet DEF Topical

\* A post. A peer that has the new claim among its links shares a topic with
\* it, so all its links of that set are among the peers.
LEMMA PostKeeps ==
    ASSUME LinksIInv, NEW a \in Claims, NEW topics \in Abouts, NEW set \in Sets,
           NEW closed \in SUBSET Claims, PostClaim(a, topics, set, closed)
    PROVE  LinksIInv'
<1> DEFINE peers == LinkPeers(a, topics, set, closed) \ {a}
           mine == {p \in live \ closed : inset[p] = set}
           sharing == {p \in mine : about[p] \cap topics # {}}
<1>1. LinksTypeOK /\ \A c \in Claims : links[c] \subseteq stored
  BY DEF LinksIInv
<1>2. /\ about' = [about EXCEPT ![a] = topics] /\ about' \in [Claims -> Abouts \cup {{}}]
      /\ inset' = [inset EXCEPT ![a] = set] /\ inset' \in [Claims -> Sets]
      /\ stored' = stored \cup {a} /\ live' = (live \cup {a}) \ closed
      /\ closed \subseteq live \ {a}
      /\ a \in stored => Reposts
      /\ live \subseteq stored /\ stored \subseteq Claims
      /\ links \in [Claims -> SUBSET Claims]
  BY <1>1 DEF PostClaim, LinksTypeOK
<1>3. LinkPeers(a, topics, set, closed) =
        IF topics = {} THEN {} ELSE sharing \cup (mine \cap UNION {links[p] : p \in sharing})
  BY DEF LinkPeers
<1>4. peers \subseteq mine \ {a} /\ mine \subseteq live \ closed
  BY <1>3
<1>5. peers \in SUBSET live /\ a \notin peers /\ peers \in SUBSET (Claims \ {a})
  BY <1>2, <1>4
<1>6. links' = Relinked(about', a, peers)
  BY DEF PostClaim
<1> HIDE DEF peers
<1> DEFINE topicsNow == about'
<1>7. Topical(topicsNow)
  BY <1>2, AboutIsTopical
<1>8. PICK targets, cut : Relinks(links', topicsNow, a, peers, targets, cut)
  <2> HIDE DEF topicsNow
  <2>1. \E targets, cut : Relinks(Relinked(topicsNow, a, peers), topicsNow, a, peers, targets, cut)
    BY <1>2, <1>5, <1>7, RelinkedRelinks
  <2>2. links' = Relinked(topicsNow, a, peers)
    BY <1>6 DEF topicsNow
  <2>3. QED
    BY <2>1, <2>2
<1>9. /\ links' \in [Claims -> SUBSET Claims]
      /\ \A c \in Claims : c \notin links'[c] /\ links'[c] \subseteq stored'
  <2> DEFINE held == links'
  <2> HIDE DEF held, topicsNow
  <2>1. Relinks(held, topicsNow, a, peers, targets, cut)
    BY <1>8 DEF held
  <2>2. held \in [Claims -> SUBSET Claims] /\ \A c \in Claims : c \notin held[c] /\ held[c] \subseteq stored \cup {a}
    BY <1>5, <2>1, RelinkTyped
  <2>3. QED
    BY <1>2, <2>2 DEF held
<1>10. LinksTypeOK'
  BY <1>2, <1>9 DEF LinksTypeOK
<1>11. ASSUME ~Reposts PROVE Symmetric' /\ Bounded'
  <2>1. a \notin stored /\ \A c \in Claims : a \notin links[c]
    BY <1>1, <1>2, <1>11
  <2>2. Symmetric /\ Bounded
    BY <1>11 DEF LinksIInv
  <2>3. Symmetric'
    <3> DEFINE held == links'
               some == live'
    <3>1. some \in SUBSET (live \cup {a}) /\ \A c \in some \ (peers \cup {a}) : a \notin links[c]
      BY <1>2, <2>1
    <3>2. Relinks(held, topicsNow, a, peers, targets, cut)
      BY <1>8
    <3> HIDE DEF held, some, topicsNow
    <3>3. SymmetricIn(held, some)
      BY <1>1, <1>5, <2>2, <3>1, <3>2, RelinkSymmetric
    <3>4. QED
      BY <3>3 DEF SymmetricIn, Symmetric, held, some
  <2>4. ASSUME NEW c \in live', NEW s \in Sets
        PROVE  Cardinality({d \in links'[c] \cap live' : inset'[d] = s}) <= LinkMax
    <3> DEFINE now == {d \in links'[c] \cap live' : inset'[d] = s}
               old == {d \in links[c] \cap live : inset[d] = s}
    <3>1. c \in Claims /\ (c # a => c \in live)
      BY <1>2
    <3>2. now \in SUBSET Claims
      BY <1>9, <3>1
    <3>3. ASSUME c # a, now \subseteq old PROVE Cardinality(now) <= LinkMax
      <4>1. old \in SUBSET Claims
        BY <1>2, <3>1
      <4>2. Cardinality(old) <= LinkMax
        BY <2>2, <3>1, <3>3 DEF Bounded, Open
      <4> HIDE DEF now, old
      <4>3. QED
        BY <3>3, <4>1, <4>2, FewerStayWithin
    <3>4. \A d \in live' : d # a => d \in live \ closed /\ inset'[d] = inset[d]
      BY <1>1, <1>2 DEF LinksTypeOK
    <3>5. inset'[a] = set
      BY <1>1, <1>2 DEF LinksTypeOK
    <3>6. CASE c = a
      <4>1. now \subseteq targets /\ Cardinality(targets) <= LinkMax /\ targets \subseteq Claims
        BY <1>5, <1>8, <3>6 DEF Relinks
      <4> HIDE DEF now
      <4>2. QED
        BY <4>1, FewerStayWithin DEF now
    <3>7. CASE c \in peers /\ c \in targets /\ s = set
      <4>1. c # a
        BY <1>5, <3>7
      <4>2. c \in sharing /\ topics # {}
        <5>1. about'[c] \cap about'[a] # {}
          BY <1>8, <3>7 DEF Relinks
        <5>2. about'[c] = about[c] /\ about'[a] = topics
          BY <1>1, <1>2, <3>1, <4>1 DEF LinksTypeOK
        <5>3. QED
          BY <1>4, <3>7, <5>1, <5>2
      <4>3. now \subseteq peers \cup {a}
        <5>1. SUFFICES ASSUME NEW d \in now, d # a PROVE d \in peers
          OBVIOUS
        <5>2. d \in mine
          BY <3>4, <3>7, <5>1
        <5>3. d \in links[c]
          BY <1>8, <3>7, <5>1 DEF Relinks
        <5>4. d \in LinkPeers(a, topics, set, closed)
          BY <1>3, <4>2, <5>2, <5>3
        <5>5. QED
          BY <5>1, <5>4 DEF peers
      <4>4. now \subseteq links'[c] \cap (peers \cup {a})
        BY <4>3
      <4>5. Cardinality(links'[c] \cap (peers \cup {a})) <= LinkMax
        BY <1>8, <3>7 DEF Relinks
      <4>6. links'[c] \cap (peers \cup {a}) \in SUBSET Claims
        BY <1>9, <3>1
      <4> HIDE DEF now
      <4>7. QED
        BY <4>4, <4>5, <4>6, FewerStayWithin DEF now
    <3>8. CASE c \in peers /\ ~ (c \in targets /\ s = set)
      <4>1. now \subseteq old
        <5>1. SUFFICES ASSUME NEW d \in now PROVE d \in old
          OBVIOUS
        <5>2. d \in (IF c \in targets THEN links[c] \cup {a} ELSE links[c] \ {a})
          BY <1>8, <3>8 DEF Relinks
        <5>3. d # a
          BY <2>1, <3>5, <3>8, <5>1, <5>2
        <5>4. QED
          BY <3>4, <5>1, <5>2, <5>3
      <4>2. c # a
        BY <1>5, <3>8
      <4>3. QED
        BY <3>3, <4>1, <4>2
    <3>9. CASE c \notin peers \cup {a}
      <4>1. links'[c] = links[c]
        BY <1>8, <3>1, <3>9 DEF Relinks
      <4>2. now \subseteq old
        BY <2>1, <3>1, <3>4, <4>1
      <4>3. QED
        BY <3>3, <3>9, <4>2
    <3>10. QED
      BY <3>6, <3>7, <3>8, <3>9
  <2>5. Bounded'
    BY <2>4 DEF Bounded, Open
  <2>6. QED
    BY <2>3, <2>5
<1>12. QED
  BY <1>9, <1>10, <1>11 DEF LinksIInv

\* An update. Its peers are all that is live.
LEMMA UpdateKeeps ==
    ASSUME LinksIInv, NEW a \in Claims, NEW topics \in Abouts, UpdateClaim(a, topics)
    PROVE  LinksIInv'
<1> DEFINE peers == live \ {a}
<1>1. LinksTypeOK /\ \A c \in Claims : links[c] \subseteq stored
  BY DEF LinksIInv
<1>2. /\ about' \in [Claims -> Abouts \cup {{}}] /\ inset' = inset /\ stored' = stored
      /\ a \in stored /\ live' = live \cup {a}
      /\ live \subseteq stored /\ stored \subseteq Claims
      /\ links \in [Claims -> SUBSET Claims]
      /\ links' = Relinked(about', a, peers)
  BY <1>1 DEF UpdateClaim, LinksTypeOK
<1>3. peers \in SUBSET live /\ a \notin peers /\ peers \in SUBSET (Claims \ {a}) /\ live' = peers \cup {a}
  BY <1>2
<1> HIDE DEF peers
<1> DEFINE topicsNow == about'
<1>4. Topical(topicsNow)
  BY <1>2, AboutIsTopical
<1>5. PICK targets, cut : Relinks(links', topicsNow, a, peers, targets, cut)
  <2> HIDE DEF topicsNow
  <2>1. \E targets, cut : Relinks(Relinked(topicsNow, a, peers), topicsNow, a, peers, targets, cut)
    BY <1>2, <1>3, <1>4, RelinkedRelinks
  <2>2. links' = Relinked(topicsNow, a, peers)
    BY <1>2 DEF topicsNow
  <2>3. QED
    BY <2>1, <2>2
<1>6. /\ links' \in [Claims -> SUBSET Claims]
      /\ \A c \in Claims : c \notin links'[c] /\ links'[c] \subseteq stored'
  <2> DEFINE held == links'
  <2> HIDE DEF held, topicsNow
  <2>1. Relinks(held, topicsNow, a, peers, targets, cut)
    BY <1>5 DEF held
  <2>2. held \in [Claims -> SUBSET Claims] /\ \A c \in Claims : c \notin held[c] /\ held[c] \subseteq stored \cup {a}
    BY <1>3, <2>1, RelinkTyped
  <2>3. QED
    BY <1>2, <2>2 DEF held
<1>7. LinksTypeOK'
  BY <1>1, <1>2, <1>6 DEF LinksTypeOK
<1>8. ASSUME ~Reposts PROVE Symmetric' /\ Bounded'
  <2>1. Symmetric /\ Bounded
    BY <1>8 DEF LinksIInv
  <2>2. Symmetric'
    <3> DEFINE held == links'
               some == live'
    <3>1. some \in SUBSET (live \cup {a}) /\ \A c \in some \ (peers \cup {a}) : a \notin links[c]
      BY <1>2, <1>3
    <3>2. Relinks(held, topicsNow, a, peers, targets, cut)
      BY <1>5
    <3> HIDE DEF held, some, topicsNow
    <3>3. SymmetricIn(held, some)
      BY <1>1, <1>3, <2>1, <3>1, <3>2, RelinkSymmetric
    <3>4. QED
      BY <3>3 DEF SymmetricIn, Symmetric, held, some
  <2>3. ASSUME NEW c \in live', NEW s \in Sets
        PROVE  Cardinality({d \in links'[c] \cap live' : inset'[d] = s}) <= LinkMax
    <3> DEFINE now == {d \in links'[c] \cap live' : inset'[d] = s}
    <3>1. c \in Claims
      BY <1>2
    <3>2. CASE c = a
      <4>1. now \subseteq targets /\ Cardinality(targets) <= LinkMax /\ targets \subseteq Claims
        BY <1>3, <1>5, <3>2 DEF Relinks
      <4> HIDE DEF now
      <4>2. QED
        BY <4>1, FewerStayWithin DEF now
    <3>3. CASE c \in peers
      <4>1. now \subseteq links'[c] \cap (peers \cup {a})
        BY <1>3
      <4>2. Cardinality(links'[c] \cap (peers \cup {a})) <= LinkMax
        BY <1>5, <3>3 DEF Relinks
      <4>3. links'[c] \cap (peers \cup {a}) \in SUBSET Claims
        BY <1>6, <3>1
      <4> HIDE DEF now
      <4>4. QED
        BY <4>1, <4>2, <4>3, FewerStayWithin DEF now
    <3>4. QED
      BY <1>3, <3>2, <3>3
  <2>4. Bounded'
    BY <2>3 DEF Bounded, Open
  <2>5. QED
    BY <2>2, <2>4
<1>9. QED
  BY <1>6, <1>7, <1>8 DEF LinksIInv

\* A claim that closes leaves the links as they are.
LEMMA CloseKeeps ==
    ASSUME LinksIInv, NEW a \in Claims, Close(a)
    PROVE  LinksIInv'
<1>1. /\ live' = live \ {a} /\ about' = about /\ inset' = inset /\ stored' = stored /\ links' = links
      /\ links \in [Claims -> SUBSET Claims] /\ live \subseteq Claims
  BY DEF Close, LinksIInv, LinksTypeOK
<1>2. LinksTypeOK' /\ \A c \in Claims : links'[c] \subseteq stored'
  BY <1>1 DEF LinksIInv, LinksTypeOK
<1>3. ASSUME ~Reposts PROVE Symmetric' /\ Bounded'
  <2>1. Symmetric /\ Bounded
    BY <1>3 DEF LinksIInv
  <2>2. Symmetric'
    BY <1>1, <2>1 DEF Symmetric
  <2>3. ASSUME NEW c \in live', NEW s \in Sets
        PROVE  Cardinality({d \in links'[c] \cap live' : inset'[d] = s}) <= LinkMax
    <3> DEFINE old == {d \in links[c] \cap live : inset[d] = s}
               now == {d \in links'[c] \cap live' : inset'[d] = s}
    <3>1. old \in SUBSET Claims /\ now \in SUBSET old
      BY <1>1
    <3>2. Cardinality(old) <= LinkMax
      BY <1>1, <2>1 DEF Bounded, Open
    <3> HIDE DEF old, now
    <3>3. QED
      BY <3>1, <3>2, FewerStayWithin DEF now
  <2>4. QED
    BY <2>2, <2>3 DEF Bounded, Open
<1>4. QED
  BY <1>2, <1>3 DEF LinksIInv

\* A fire.
LEMMA FireKeeps ==
    ASSUME LinksIInv, NEW fired \in SUBSET Claims, FireTogether(fired)
    PROVE  LinksIInv'
<1>1. /\ fired \in SUBSET live /\ links' = Wired(fired)
      /\ about' = about /\ inset' = inset /\ stored' = stored /\ live' = live
  BY DEF FireTogether
<1>2. LinksTypeOK /\ Fireable(links)
  BY DEF LinksIInv, LinksTypeOK, Fireable, Symmetric, Bounded, Open, SymmetricIn, BoundedIn
<1>3. Fireable(links')
  <2> DEFINE held == Wired(fired)
  <2>1. Fireable(held)
    BY <1>1, <1>2, WiredKeeps
  <2> HIDE DEF held
  <2>2. links' = held
    BY <1>1 DEF held
  <2>3. QED
    BY <2>1, <2>2
<1>4. LinksTypeOK'
  BY <1>1, <1>2, <1>3 DEF LinksTypeOK, Fireable
<1>5. ~Reposts => Symmetric' /\ Bounded'
  BY <1>1, <1>3 DEF Fireable, Symmetric, Bounded, Open, SymmetricIn, BoundedIn
<1>6. QED
  BY <1>1, <1>3, <1>4, <1>5 DEF LinksIInv, Fireable

\* No claim has links at first.
LEMMA LinksIInvInit == LinksInit => LinksIInv
<1> SUFFICES ASSUME LinksInit PROVE LinksIInv
  OBVIOUS
<1>1. (CHOOSE s \in Sets : TRUE) \in Sets
  BY LinksAssumption
<1>2. live = {} /\ stored = {} /\ \A c \in Claims : links[c] = {}
  BY DEF LinksInit
<1>3. LinksTypeOK
  BY <1>1 DEF LinksInit, LinksTypeOK
<1>4. QED
  BY <1>2, <1>3 DEF LinksIInv, Symmetric, Bounded

\* Each step keeps the invariant.
LEMMA LinksIInvNext == LinksIInv /\ [LinksNext]_linkVars => LinksIInv'
<1> SUFFICES ASSUME LinksIInv, [LinksNext]_linkVars PROVE LinksIInv'
  OBVIOUS
<1>1. CASE \E a \in Claims, topics \in Abouts, set \in Sets, closed \in SUBSET Claims :
             PostClaim(a, topics, set, closed)
  BY <1>1, PostKeeps
<1>2. CASE \E a \in Claims, topics \in Abouts : UpdateClaim(a, topics)
  BY <1>2, UpdateKeeps
<1>3. CASE \E a \in Claims : Close(a)
  BY <1>3, CloseKeeps
<1>4. CASE \E fired \in SUBSET Claims : FireTogether(fired)
  BY <1>4, FireKeeps
<1>5. CASE UNCHANGED linkVars
  BY <1>5 DEF linkVars, LinksIInv, LinksTypeOK, Symmetric, Bounded, Open
<1>6. QED
  BY <1>1, <1>2, <1>3, <1>4, <1>5 DEF LinksNext

(* Where no client posts over an id it posted before, a link between live   *)
(* claims is in both records, and no claim has more than LinkMax in a set   *)
(* (record.rs, apply_links; island.rs, fire_as).                            *)
THEOREM LinksHold ==
    ASSUME ~Reposts
    PROVE  LinksSpec => []LinksInv
<1>1. LinksIInv => LinksInv
  BY DEF LinksIInv, LinksInv
<1>2. QED
  BY <1>1, LinksIInvInit, LinksIInvNext, PTL DEF LinksSpec

(* Whatever is posted, no claim links to itself nor to what was never       *)
(* posted.                                                                  *)
THEOREM LinksLeadSomewhere ==
    LinksSpec => [](LinksTypeOK /\ \A c \in Claims : links[c] \subseteq stored)
<1>1. LinksIInv => LinksTypeOK /\ \A c \in Claims : links[c] \subseteq stored
  BY DEF LinksIInv
<1>2. QED
  BY <1>1, LinksIInvInit, LinksIInvNext, PTL DEF LinksSpec
=============================================================================
