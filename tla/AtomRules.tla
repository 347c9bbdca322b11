----------------------------- MODULE AtomRules -----------------------------
(***************************************************************************)
(* The rules of one record of a pack, as core/record.rs and core/atom.rs   *)
(* state them: when a record is live, due or shown, what its provenance    *)
(* may do, when one claim replaces another, and the review clock.  The     *)
(* rules are pure; AtomLife is the writer that applies them.               *)
(*                                                                         *)
(* A text is the sequence of its words, already in lower case.  A time is  *)
(* where it stands to now: a window is open or closed, and a due date is   *)
(* none, ahead, due, or overdue by more than twice its interval.           *)
(***************************************************************************)
EXTENDS Integers, Sequences, FiniteSets

CONSTANTS
  Names,    \* the words that open with a capital: a reader takes them for names
  Flagged,  \* [invisible, secret, injection]: the words that carry each
  Absent    \* a field that is not there

MailKinds == {"message", "receipt", "group"}

UnreviewedKinds == {"trust", "persona", "outcome"} \cup MailKinds

ForgettableKinds == {"lesson", "conclusion", "summary", "note", "card_line",
                     "belief", "voice", "cache-pointer", "correction"}

InMemory(kind, asked) ==
  IF asked = Absent THEN kind \notin MailKinds ELSE kind = asked

-----------------------------------------------------------------------------
(* Windows and the review clock.                                           *)

IsLive(a) == ~a.tombstone /\ ~a.closed

IsDue(a) == a.due \in {"due", "overdue"}

(* What the live set shows: the live records and those on the clock.       *)
Shown(a) == ~a.tombstone /\ (IsLive(a) \/ IsDue(a))

-----------------------------------------------------------------------------
(* Provenance.  Only its rank is ever compared: an origin is 2 for the     *)
(* person's, 0 for a missing or unknown one, 1 for the rest; a basis is 1  *)
(* for a person's.                                                         *)

OriginRank(origin) ==
  CASE origin = "user-declared" -> 2
    [] origin \in {"agent-derived", "tool-echo", "external", "peer"} -> 1
    [] OTHER -> 0

BasisRank(basis) == IF basis = "person" THEN 1 ELSE 0

Provenance(a) == [origin |-> OriginRank(a.origin), basis |-> BasisRank(a.basis)]

Lower(p, q) ==
  [origin |-> IF q.origin < p.origin THEN q.origin ELSE p.origin,
   basis  |-> IF q.basis < p.basis THEN q.basis ELSE p.basis]

(* The lowest the record has held.                                         *)
Floor(a) == IF a.floor = Absent THEN Provenance(a) ELSE Lower(a.floor, Provenance(a))

(* Mutant: the floor is what the record stood on just before.              *)
HoldProvenanceShort(stored, after) ==
  LET before == Provenance(stored)
      next   == Provenance(after)
  IN [after EXCEPT
        !.warnings = @ \cup (IF next.origin > before.origin THEN {"origin raised"} ELSE {}),
        !.floor = IF next # before THEN Lower(before, next) ELSE Absent]

(* A write over `stored` stands as it asked; a rise is labelled and the    *)
(* floor is carried over, whatever the caller put there.                   *)
HoldProvenance(stored, after) ==
  LET before == Provenance(stored)
      next   == Provenance(after)
      rises  == (IF next.origin > before.origin THEN {"origin raised"} ELSE {})
                \cup (IF next.basis > before.basis THEN {"basis raised"} ELSE {})
  IN [after EXCEPT
        !.warnings = @ \cup rises,
        !.floor = IF stored.floor # Absent \/ next # before
                  THEN Lower(Floor(stored), next)
                  ELSE Absent]

(* Mutant: the hook's writes are stored at once.                           *)
NeedsAcceptDerived(origin, hook, hold) == hold /\ origin = "agent-derived"

NeedsAccept(origin, hook, hold) == hold /\ (hook \/ origin = "agent-derived")

(* The entities that say how a claim is held and not what it is about.     *)
Horizons == {"horizon:transient", "horizon:standing",
             "horizon:tool-echo", "horizon:external"}

NonTopics == Horizons \cup {"seat:one"}

(* What authoritative content from a low origin is promoted to.            *)
PromotionHorizon(origin, content) ==
  IF content = "authoritative" /\ origin \in {"tool-echo", "external"}
  THEN "horizon:" \o origin
  ELSE "horizon:standing"

(* The entities field of a claim that was recalled, or that survived       *)
(* another: written even where the claim declared none.                    *)
PromotedEntities(a) ==
  ((IF a.entities = Absent THEN {} ELSE a.entities) \ Horizons)
    \cup {PromotionHorizon(a.origin, a.content)}

-----------------------------------------------------------------------------
(* What a claim is about, and when it replaces another.                    *)

WordsOf(text) == {text[i] : i \in DOMAIN text}

EntitiesOf(a) ==
  IF a.entities = Absent THEN WordsOf(a.text) \cap Names ELSE a.entities \ NonTopics

(* The entities a rewrite must share: a capital that only opens the        *)
(* sentence is no subject.                                                 *)
Gate(a) ==
  IF a.entities = Absent /\ a.text # <<>>
  THEN EntitiesOf(a) \ {Head(a.text)}
  ELSE EntitiesOf(a)

(* What the replacement and linking rules read of a claim.  The writer     *)
(* keeps one of these per id.                                              *)
ShapeOf(a) ==
  [tokens   |-> WordsOf(a.text),
   head     |-> a.text,
   entities |-> EntitiesOf(a),
   gate     |-> Gate(a),
   declared |-> a.entities # Absent]

HeadMin == 3

(* A Jaccard overlap of at least six tenths.                               *)
Overlaps(s, t) ==
  \/ s = {} /\ t = {}
  \/ 10 * Cardinality(s \cap t) >= 6 * Cardinality(s \cup t) /\ s \cup t # {}

(* The number of words two heads open with in common.                      *)
SharedHead(s, t) ==
  LET short == IF Len(s) < Len(t) THEN Len(s) ELSE Len(t)
      same  == {n \in 0..short : \A i \in 1..n : s[i] = t[i]}
  IN CHOOSE n \in same : \A m \in same : m <= n

SameHead(s, t) ==
  LET shared == SharedHead(s, t)
      short  == IF Len(s) < Len(t) THEN Len(s) ELSE Len(t)
  IN /\ shared >= HeadMin
     /\ shared # Len(s)
     /\ shared # Len(t)
     /\ 10 * shared >= 6 * short

(* Whether `new` replaces `old`: neither a neighbour nor a retry.  Mail    *)
(* replaces nothing; a named id is always replaced; claims about different *)
(* subjects never are.                                                     *)
ReplacesShaped(new, newShape, old, oldShape) ==
  LET shared == newShape.entities \cap oldShape.entities # {}
      meets  == \/ newShape.gate = {}
                \/ oldShape.gate = {}
                \/ newShape.gate \cap oldShape.gate # {}
  IN /\ new.kind = old.kind
     /\ new.kind \notin MailKinds
     /\ new.text # <<>>
     /\ new.text # old.text
     /\ \/ old.id \in new.supersedes
        \/ /\ new.subject = old.subject
           /\ new.kind = "trust" => newShape.gate = oldShape.gate
           /\ newShape.declared /\ oldShape.declared => meets
           /\ \/ new.kind = "correction" /\ shared
              \/ meets /\ Overlaps(newShape.tokens, oldShape.tokens)
              \/ new.kind # "preference" /\ SameHead(newShape.head, oldShape.head)

Replaces(new, old) == ReplacesShaped(new, ShapeOf(new), old, ShapeOf(old))

(* Whether a stored claim says what the new one says.  A repeated letter   *)
(* is a second atom.                                                       *)
SameClaim(existing, a) ==
  /\ existing.kind \notin MailKinds
  /\ existing.text = a.text
  /\ existing.kind = a.kind
  /\ existing.set = a.set
  /\ existing.subject = a.subject

-----------------------------------------------------------------------------
(* The review block.  A recall or a lapse builds it anew, so what other    *)
(* writers noted in it, the uses and the misses, goes with the old one;    *)
(* the first scheduling keeps it.                                          *)

NoReview == [reps |-> 0, recalls |-> 0, used |-> 0, neglected |-> 0]

Recalls(a) == IF a.review = Absent THEN 0 ELSE a.review.recalls

Reviewed(review, grade) ==
  LET previous == IF review = Absent THEN NoReview ELSE review
  IN CASE grade = "lapsed"   -> [NoReview EXCEPT !.recalls = previous.recalls]
       [] grade = "recalled" -> [NoReview EXCEPT !.reps = previous.reps + 1,
                                                 !.recalls = previous.recalls + 1]
       [] grade = "initial"  -> previous

ScheduleReview(a, grade) ==
  [a EXCEPT !.review = Reviewed(@, grade), !.due = "ahead"]

-----------------------------------------------------------------------------
(* What the writer checks before it stores a record: the fields a kind     *)
(* must have, and the one origin a record with none is given.  Text that   *)
(* no reader should be handed is stored and labelled; the labels a caller  *)
(* sent are not the writer's.                                              *)

Origins == {"user-declared", "agent-derived", "tool-echo", "external", "peer"}

Structured == {"trust", "persona", "prediction", "rule", "outcome", "note"}

(* What a structured kind names is in `subject`.                           *)
StructureOK(a) == a.kind \in Structured => a.subject # Absent

Valid(a) ==
  /\ a.text # <<>>
  /\ a.origin \in Origins \cup {Absent}
  /\ a.entities # Absent => "" \notin a.entities
  /\ StructureOK(a)

HasInvisible(text)      == WordsOf(text) \cap Flagged.invisible # {}
LooksLikeASecret(text)  == WordsOf(text) \cap Flagged.secret # {}
LooksLikeInjection(text) == WordsOf(text) \cap Flagged.injection # {}

ContentWarnings(text) ==
  {label \in {"invisible", "credential", "injection"} :
     \/ label = "invisible" /\ HasInvisible(text)
     \/ label = "credential" /\ LooksLikeASecret(text)
     \/ label = "injection" /\ LooksLikeInjection(text)}

Validated(a) ==
  [a EXCEPT !.origin = IF @ = Absent THEN "user-declared" ELSE @,
            !.warnings = ContentWarnings(a.text)]

=============================================================================
