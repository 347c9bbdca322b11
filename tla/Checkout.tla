------------------------------ MODULE Checkout ------------------------------
(***************************************************************************)
(* What the writer reads from a working tree and never writes back: the    *)
(* workspace a checkout is (workspace.rs, identity.rs), the rule files and *)
(* skills on the way up to its root, the outline of its files              *)
(* (context.rs), and the name matching the outline leaves files out by     *)
(* (glob.rs), loop by loop.                                                *)
(*                                                                         *)
(* A directory on the way up is its distance from the working directory;   *)
(* a path that is a symbolic link has another place as its own.            *)
(***************************************************************************)
EXTENDS Integers, Sequences, FiniteSets, SequencesExt, FiniteSetsExt

CONSTANTS
  Code,        \* character -> its code; the characters of patterns
  Plain,       \* the characters of names
  NameLen,     \* bound: characters of a name
  PatternLen,  \* bound: characters of a pattern
  Depth,       \* bound: how far the root is
  Trees,       \* the files of a checkout: sets of paths, sequences of characters
  Ignores,     \* what an ignore file may say: sequences of patterns
  MAP_LIST_CAP,
  MAP_TOO_LARGE

ASSUME CheckoutAssumption ==
  /\ Plain \subseteq DOMAIN Code
  /\ {NameLen, PatternLen, Depth, MAP_LIST_CAP, MAP_TOO_LARGE} \subseteq Nat
  /\ MAP_LIST_CAP <= MAP_TOO_LARGE

VARIABLES
  job,    \* what is read: its kind and what it is of
  scan,   \* where the matching of a name is: [ni, pi, star]
  finding  \* what came of it

checkoutVars == <<job, scan, finding>>

-----------------------------------------------------------------------------
(* glob.rs, class_match: where the class opened at `open` closes (0 when   *)
(* it does not) and whether it has the character.                          *)
Negated(p, open) == open < Len(p) /\ p[open + 1] \in {"!", "^"}
FirstOf(p, open) == open + (IF Negated(p, open) THEN 2 ELSE 1)
IsRange(p, i) == i + 2 <= Len(p) /\ p[i + 1] = "-" /\ p[i + 2] # "]"

ClassMatch(p, open, ch) ==
  LET first == FirstOf(p, open)
      Closes(i) == i > first /\ p[i] = "]"
      parts[i \in first..Len(p) + 3] ==   \* where the members from i start, and the end
        IF i > Len(p) THEN {0}
        ELSE IF Closes(i) THEN {-i}
        ELSE {i} \cup parts[IF IsRange(p, i) THEN i + 3 ELSE i + 1]
      end == -Min(parts[first])
      hit == \E i \in parts[first] : i > 0 /\
               IF IsRange(p, i) THEN Code[p[i]] <= Code[ch] /\ Code[ch] <= Code[p[i + 2]] ELSE p[i] = ch
  IN [end |-> end, hit |-> end > 0 /\ hit # Negated(p, open)]

(* is_match, one round of its loop.                                        *)
NoStar == <<0, 0>>
Nothing == [none |-> TRUE]
Matching == job.kind = "match" /\ finding = Nothing
Says(what) == finding' = [match |-> what] /\ UNCHANGED <<job, scan>>
Advance(ni, pi, star) == scan' = [ni |-> ni, pi |-> pi, star |-> star] /\ UNCHANGED <<job, finding>>

Steps(name, pat, s) ==   \* how far the pattern goes on without a star, or 0
  IF s.pi > Len(pat) THEN 0
  ELSE CASE pat[s.pi] = "?" -> 1
         [] pat[s.pi] = "[" ->
              LET class == ClassMatch(pat, s.pi, name[s.ni])
              IN IF class.end = 0 THEN (IF name[s.ni] = "[" THEN 1 ELSE 0)
                 ELSE IF class.hit THEN class.end + 1 - s.pi ELSE 0
         [] OTHER -> IF pat[s.pi] = name[s.ni] THEN 1 ELSE 0

InName == Matching /\ scan.ni <= Len(job.name)

Star ==
  /\ InName /\ scan.pi <= Len(job.pattern) /\ job.pattern[scan.pi] = "*"
  /\ Advance(scan.ni, scan.pi + 1, <<scan.pi, scan.ni>>)

OneSign ==
  /\ InName /\ ~(scan.pi <= Len(job.pattern) /\ job.pattern[scan.pi] = "*")
  /\ LET far == Steps(job.name, job.pattern, scan)
     IN IF far > 0 THEN Advance(scan.ni + 1, scan.pi + far, scan.star)
        ELSE IF scan.star = NoStar THEN Says("no")
        ELSE Advance(scan.star[2] + 1, scan.star[1] + 1, <<scan.star[1], scan.star[2] + 1>>)

\* Mutant: the stars left at the end are not passed over.
EndsWhole ==
  /\ Matching /\ scan.ni > Len(job.name)
  /\ Says(IF scan.pi > Len(job.pattern) THEN "yes" ELSE "no")

EndOfName ==
  /\ Matching /\ scan.ni > Len(job.name)
  /\ Says(IF \A i \in scan.pi..Len(job.pattern) : job.pattern[i] = "*" THEN "yes" ELSE "no")

(* What fnmatch means by it: from which places of the name and the pattern *)
(* the rest of one matches the rest of the other.                          *)
Matches(name, pat) ==
  LET n == Len(name)
      m == Len(pat)
      rest[i \in 1..n + 1, j \in 1..m + 1] ==
        IF j > m THEN i > n
        ELSE IF pat[j] = "*" THEN rest[i, j + 1] \/ (i <= n /\ rest[i + 1, j])
        ELSE i <= n /\ LET far == Steps(name, pat, [ni |-> i, pi |-> j]) IN far > 0 /\ rest[i + 1, j + far]
  IN rest[1, 1]

-----------------------------------------------------------------------------
(* identity.rs, normalize_remote: a remote is a scheme, a host, a port, a  *)
(* path that may start with a slash and end in .git or a slash.  A place   *)
(* on this disk has no scheme and the first of its parts as its host.      *)
Remotes ==
  [scheme : {"https", "ssh", "scp", "disk"}, user : BOOLEAN, host : {"h", "", ".."}, port : BOOLEAN,
   slash : BOOLEAN, path : {"o/r", "o/q"}, git : BOOLEAN, tail : BOOLEAN]

IsRemote(r) ==   \* the shapes a URL has
  /\ r.host = ".." => r.scheme = "disk"
  /\ r.host = "" => r.scheme \in {"disk", "scp"}
  /\ r.scheme = "disk" => ~r.user /\ ~r.port /\ ~r.slash /\ r.host # "h"
  /\ r.scheme = "scp" => ~r.port

NotARemote == <<"unrecognized">>

NormalizeRemote(r) ==
  IF r.scheme \in {"https", "ssh"} THEN <<"git", r.host, FALSE, r.path, r.git /\ r.tail, r.tail>>
  ELSE IF r.host = "" THEN NotARemote
  ELSE <<"git", r.host, r.slash, r.path, r.git /\ r.tail, r.tail>>

(* A checkout is the directory it is in and its remote, if it has one.     *)
Checkouts == [dir : {1, 2}, remote : {{}} \cup {{r} : r \in {q \in Remotes : IsRemote(q)}}]

ResolveWorkspace(c, strategy, session) ==
  LET dir == <<"dir", c.dir>>
  IN CASE strategy = "global"        -> <<"global">>
       [] strategy = "per-session"   -> IF session = "none" THEN dir ELSE <<"session", session>>
       [] strategy = "per-directory" -> dir
       [] OTHER -> LET named == {NormalizeRemote(r) : r \in c.remote} \ {NotARemote}
                   IN IF named = {} THEN dir ELSE CHOOSE name \in named : TRUE

(* workspace_slug: a run of what a directory cannot be named by is one     *)
(* underscore, none at either end.                                         *)
Slug(letters) ==
  LET kept == FoldLeft(LAMBDA w, ch :
                IF ch \in Plain \cup {"_"}
                THEN [out |-> w.out \o (IF w.gap /\ w.out # <<>> THEN <<"_", ch>> ELSE <<ch>>), gap |-> FALSE]
                ELSE [w EXCEPT !.gap = TRUE],
                [out |-> <<>>, gap |-> FALSE], letters).out
      solid == {i \in 1..Len(kept) : kept[i] # "_"}
  IN IF solid = {} THEN <<"workspace">> ELSE SubSeq(kept, Min(solid), Max(solid))

-----------------------------------------------------------------------------
(* context.rs, walk_to_root: the working directory, then its parents.      *)
WalkToRoot(root) == [i \in 1..root + 1 |-> i - 1]

(* The rule files a directory may have, in the order they are looked for;  *)
(* copilot's is under the root only.                                       *)
RULE_NAMES == <<"AGENTS.md", "CLAUDE.md">>
RulePaths(root) ==
  FlattenSeq([i \in 1..root + 1 |->
    [n \in 1..Len(RULE_NAMES) |-> <<i - 1, RULE_NAMES[n]>>]
    \o IF i = root + 1 THEN <<<<root, "copilot-instructions.md">>>> ELSE <<>>])

Nowhere == <<"nowhere">>
Scope(dir, root) == IF dir = 0 THEN "cwd" ELSE IF dir = root THEN "root" ELSE "parent"

(* discover_rules: a file is listed once, where it is met first; the       *)
(* seat's own card comes last when it says something.                      *)
DiscoverRules(own, root, card) ==
  LET met == FoldLeft(LAMBDA found, path :
               IF own[path] = Nowhere \/ \E f \in ToSet(found) : f.own = own[path] THEN found
               ELSE Append(found, [own |-> own[path], at |-> path[1], scope |-> Scope(path[1], root)]),
               <<>>, RulePaths(root))
  IN IF card THEN Append(met, [own |-> <<-1, "USER.md">>, at |-> -1, scope |-> "global"]) ELSE met

(* skill_dirs and discover_skills: the same, of the directories a skill    *)
(* catalog may be in, the seat's home after the root.  A skill that says   *)
(* nothing is left out; one that does not name itself has the name of the  *)
(* directory it was met in.                                                *)
Home == Depth + 1
Silent == 0
Unnamed == -1
SkillPaths(root) ==
  FlattenSeq([i \in 1..root + 2 |-> [n \in 1..2 |-> <<IF i = root + 2 THEN Home ELSE i - 1, n>>]])

DiscoverSkills(own, said, root) ==
  FoldLeft(LAMBDA found, path :
    IF own[path] = Nowhere \/ (\E f \in ToSet(found) : f.own = own[path]) \/ said[own[path]] = Silent
    THEN found
    ELSE Append(found, [own |-> own[path], at |-> path[1],
                        name |-> IF said[own[path]] = Unnamed THEN path[2] ELSE said[own[path]]]),
    <<>>, SkillPaths(root))

(* read_skill: the first that has the name or is in a directory of it.     *)
ReadSkill(found, wanted) ==
  LET fits == {i \in 1..Len(found) : found[i].name = wanted \/ found[i].own[2] = wanted}
  IN IF fits = {} THEN <<>> ELSE <<found[Min(fits)]>>

(* parse_frontmatter, of lines: a fence, a line that goes on after one, or *)
(* another.  A block closes at the first fence on a line of its own start. *)
Frontmatter(lines) ==
  LET from  == IF lines[1] = "---" THEN 3 ELSE 2
      close == {i \in from..Len(lines) : lines[i] \in {"---", "---x"}}
  IN IF lines = <<>> THEN [block |-> <<>>, body |-> lines]
     ELSE IF lines[1] \notin {"---", "---x"} \/ close = {} THEN [block |-> <<>>, body |-> lines]
     ELSE LET end == Min(close)
          IN [block |-> (IF lines[1] = "---" THEN <<>> ELSE <<"x">>) \o SubSeq(lines, 2, end - 1),
              body  |-> (IF lines[end] = "---" THEN <<>> ELSE <<"x">>) \o SubSeq(lines, end + 1, Len(lines))]

-----------------------------------------------------------------------------
(* is_ignored and repo_map.                                                *)
Bared(pattern) ==
  LET solid == {i \in 1..Len(pattern) : pattern[i] # "/"}
  IN IF solid = {} THEN <<>> ELSE SubSeq(pattern, 1, Max(solid))

Breaks(path) == {i \in 1..Len(path) : path[i] = "/"}
Pieces(path) ==
  {SubSeq(path, i + 1, Min({k - 1 : k \in {b \in Breaks(path) \cup {Len(path) + 1} : b > i}})) :
     i \in Breaks(path) \cup {0}}
BaseName(path) == SubSeq(path, Max(Breaks(path) \cup {0}) + 1, Len(path))

IsIgnored(path, patterns) ==
  \E i \in 1..Len(patterns) :
    LET pattern == patterns[i]
        bare    == Bared(pattern)
    IN \/ \E name \in {path, BaseName(path)}, pat \in {pattern, bare} : Matches(name, pat)
       \/ pattern # <<>> /\ Last(pattern) = "/" /\ (path = bare \/ IsStrictPrefix(Append(bare, "/"), path))
       \/ bare \in Pieces(path)

Top(path) == IF Breaks(path) = {} THEN <<".">> ELSE SubSeq(path, 1, Min(Breaks(path)) - 1)
TreeOutline(files) == [top \in {Top(f) : f \in files} |-> Cardinality({f \in files : Top(f) = top})]

RepoMap(tracked, patterns) ==
  LET files == {f \in tracked : ~IsIgnored(f, patterns)}
      n     == Cardinality(files)
  IN [count |-> n, ignored |-> Cardinality(tracked) - n, tree |-> TreeOutline(files),
      status |-> IF n > MAP_TOO_LARGE THEN "too-large" ELSE "synced",
      listed |-> IF n > MAP_TOO_LARGE THEN 0 ELSE Min({n, MAP_LIST_CAP})]

-----------------------------------------------------------------------------
AtOnset == [ni |-> 1, pi |-> 1, star |-> NoStar]
CheckoutInit == job = [kind |-> "none"] /\ scan = AtOnset /\ finding = Nothing
NoJob == job.kind = "none"

MatchName ==
  /\ NoJob
  /\ \E name \in BoundedSeq(Plain, NameLen), pattern \in BoundedSeq(DOMAIN Code, PatternLen) :
       job' = [kind |-> "match", name |-> name, pattern |-> pattern]
  /\ UNCHANGED <<scan, finding>>

NameWorkspaces ==
  /\ NoJob
  /\ \E c, d \in Checkouts, strategy \in {"per-repo", "per-directory", "per-session", "global"}, session \in {"none", "s"} :
       /\ strategy # "per-session" => session = "none"
       /\ strategy # "per-repo" => c.remote = {} /\ d.remote = {}
       /\ job' = [kind |-> "names", one |-> c, two |-> d, strategy |-> strategy, session |-> session]
       /\ finding' = [names |-> <<ResolveWorkspace(c, strategy, session), ResolveWorkspace(d, strategy, session)>>]
  /\ UNCHANGED scan

SlugName ==
  /\ NoJob
  /\ \E letters \in BoundedSeq({"a", "_", "/", ":"}, PatternLen) :
       job' = [kind |-> "slug", letters |-> letters] /\ finding' = [slug |-> Slug(letters)]
  /\ UNCHANGED scan

(* Each path a file of its own, nothing, or a link to one that is.         *)
Placings(paths, shared) ==
  LET set == ToSet(paths)
  IN {own \in [set -> set \cup {Nowhere}] :
        /\ \A p \in set : own[p] \in {p, Nowhere} \cup shared
        /\ \A p \in set : own[p] # Nowhere => own[own[p]] = own[p]}

ListRules ==
  /\ NoJob
  /\ \E root \in 0..Depth, card \in BOOLEAN :
       \E own \in Placings(RulePaths(root), {<<0, "AGENTS.md">>, <<root, "AGENTS.md">>}) :
         /\ job' = [kind |-> "rules", root |-> root, own |-> own, card |-> card]
         /\ finding' = [rules |-> DiscoverRules(own, root, card)]
  /\ UNCHANGED scan

ListSkills ==
  /\ NoJob
  /\ \E root \in 0..Depth - 1, quiet \in SUBSET {<<0, 1>>, <<Home, 1>>} :
       \E own \in Placings(SkillPaths(root), {<<0, 1>>, <<Home, 1>>}) :
         LET said == [p \in ToSet(SkillPaths(root)) |-> IF p \in quiet THEN Silent ELSE IF p[1] = Home THEN 1 ELSE Unnamed]
         IN /\ \A p \in ToSet(SkillPaths(root)) : p \in quiet => own[p] = p
            /\ job' = [kind |-> "skills", root |-> root, own |-> own, said |-> quiet]
            /\ finding' = [skills |-> DiscoverSkills(own, said, root)]
  /\ UNCHANGED scan

ReadLines ==
  /\ NoJob
  /\ \E lines \in BoundedSeq({"---", "---x", "k: v"}, 5) :
       job' = [kind |-> "lines", lines |-> lines] /\ finding' = [lines |-> Frontmatter(lines)]
  /\ UNCHANGED scan

MapTree ==
  /\ NoJob
  /\ \E tracked \in Trees, patterns \in Ignores :
       /\ job' = [kind |-> "map", tracked |-> tracked, patterns |-> patterns]
       /\ finding' = [map |-> RepoMap(tracked, patterns)]
  /\ UNCHANGED scan

CheckoutNext ==
  \/ MatchName \/ Star \/ OneSign \/ EndOfName
  \/ NameWorkspaces \/ SlugName \/ ListRules \/ ListSkills \/ ReadLines \/ MapTree

-----------------------------------------------------------------------------
Found == finding[job.kind]

(* The loop that keeps one point to come back to finds what trying every   *)
(* length of every star finds (glob.rs: "the way `fnmatch` does it").      *)
MatchIsFnmatch ==
  job.kind = "match" /\ finding # Nothing => (Found = "yes") = Matches(job.name, job.pattern)

(* Two clients in clones of one repository agree on its name, whichever    *)
(* URL each cloned from, and no two repositories of one host share a name  *)
(* (identity.rs: "all land on `git:host/owner/repo`").  A path written     *)
(* with a slash at either end is another name, and a remote on the disk is *)
(* left out: it is named by its path, relative or not.                     *)
ClonesAgree ==
  job.kind = "names" /\ job.strategy = "per-repo" =>
    \A one \in job.one.remote, two \in job.two.remote :
      LET Usual(r) == r.host = "h" /\ ~r.tail /\ (r.slash => r.scheme # "scp")
          same == one.host = two.host /\ one.path = two.path
      IN Usual(one) /\ Usual(two) => (same <=> Found[1] = Found[2])

(* Checkouts that name nothing they share keep apart (workspace.rs: "two   *)
(* unrelated projects sharing `global` by accident is how a pack ends up   *)
(* answering one with the other's memory").                                *)
StrangersKeepApart ==
  job.kind = "names" /\ job.strategy # "global" /\ job.session = "none" /\ job.one.dir # job.two.dir =>
    (job.one.remote = {} => Found[1] # Found[2])

(* A slug is one directory's name, whatever the workspace is called: no    *)
(* slash or colon, no underscore at an end, its letters those of the name  *)
(* in their order, and a slug of a slug is the slug.                       *)
SlugIsOneDirectory ==
  job.kind = "slug" =>
    LET kept == SelectSeq(job.letters, LAMBDA ch : ch \in Plain)
    IN IF kept = <<>> THEN Found = <<"workspace">>
       ELSE /\ SelectSeq(Found, LAMBDA ch : ch # "_") = kept
            /\ Found[1] # "_" /\ Last(Found) # "_"
            /\ Slug(Found) = Found

(* Every rule file and skill there is is listed once, by the path nearest  *)
(* the working directory, the nearest first and the seat's own last, links *)
(* or not (context.rs: "most specific first").                             *)
NearestFirst(own, silent) ==
  LET of == {own[p] : p \in DOMAIN own} \ ({Nowhere} \cup silent)
      listed == SelectSeq(Found, LAMBDA f : f.at >= 0)
  IN /\ {listed[i].own : i \in 1..Len(listed)} = of /\ Len(listed) = Cardinality(of)
     /\ \A i \in 1..Len(listed) : \A p \in DOMAIN own : own[p] = listed[i].own => listed[i].at <= p[1]
     /\ \A i, j \in 1..Len(listed) : i < j => listed[i].at <= listed[j].at

ListedOnceNearestFirst ==
  /\ job.kind = "rules" => NearestFirst(job.own, {}) /\ (job.card <=> Found # <<>> /\ Last(Found).scope = "global")
  /\ job.kind = "skills" => NearestFirst(job.own, job.said)

(* The skill read by a name is the one nearest the working directory that  *)
(* answers to it, by its own name or its directory's.                      *)
NearestIsRead ==
  job.kind = "skills" => \A wanted \in {1, 2} : \A f \in ToSet(ReadSkill(Found, wanted)), g \in ToSet(Found) :
    g.at < f.at => g.name # wanted /\ g.own[2] # wanted

(* Text with no block is all body, and a block takes no line of the body:  *)
(* between two fences, or from the top to the first one.                   *)
NoLineIsLost ==
  job.kind = "lines" /\ ToSet(job.lines) \subseteq {"---", "k: v"} =>
    IF Found.block = <<>> THEN Found.body = job.lines \/ job.lines = <<"---", "---">> \o Found.body
    ELSE job.lines = <<"---">> \o Found.block \o <<"---">> \o Found.body

(* The outline counts every tracked file once, in its top or among the     *)
(* ignored, names no more than it may, and leaves out whatever is below a  *)
(* directory an ignore file names, at any depth.                           *)
OutlineAddsUp ==
  job.kind = "map" =>
    /\ Found.count + Found.ignored = Cardinality(job.tracked)
    /\ FoldFunction(LAMBDA n, sum : n + sum, 0, Found.tree) = Found.count
    /\ Found.listed <= MAP_LIST_CAP /\ (Found.status = "too-large" => Found.listed = 0)
    /\ Found.count <= Cardinality({f \in job.tracked : \A i \in 1..Len(job.patterns) :
                                      Bared(job.patterns[i]) \notin Pieces(f)})

(* What is read of a checkout, whatever its files are called and wherever  *)
(* its links lead.                                                         *)
CheckoutInv ==
  /\ MatchIsFnmatch
  /\ ClonesAgree
  /\ StrangersKeepApart
  /\ SlugIsOneDirectory
  /\ ListedOnceNearestFirst
  /\ NearestIsRead
  /\ NoLineIsLost
  /\ OutlineAddsUp
=============================================================================
