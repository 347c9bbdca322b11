------------------------------ MODULE Surface ------------------------------
(***************************************************************************)
(* From a line typed at a seat to what the writer ran for it: the verbs of *)
(* `packset` (main.rs), the tools of packset-mcp (server.rs), the calls of *)
(* packset-client (lib.rs) and the gate and the routes of packsetd         *)
(* (http.rs), four tables kept by hand in four crates; and the head of a   *)
(* request as packsetd reads it (wire.rs, read_request).                   *)
(*                                                                         *)
(* A request is its method, its path and the names of the fields it        *)
(* carries.  What the handlers do is in the other modules; here each has   *)
(* the kinds of work it may do.                                            *)
(***************************************************************************)
EXTENDS Integers, Sequences, FiniteSets, SequencesExt

CONSTANTS
  MaxArgs,       \* bound: arguments of a line
  BUSY_RETRIES,  \* how often the client asks a busy writer again
  MAX_HEAD,      \* the lines a head may have
  MAX_BODY       \* the bytes a body may have

ASSUME SurfaceAssumption == {MaxArgs, BUSY_RETRIES, MAX_HEAD, MAX_BODY} \subseteq Nat

VARIABLES
  line,     \* what was typed, called or received: [by, args, chunks, key, asks]
  calls,    \* the requests still to send, the next first
  retries,  \* how often the next was sent again
  ran,      \* history: the calls whose handler ran, in order
  outcome   \* "open", "done", "help" or "failed"

surfaceVars == <<line, calls, retries, ran, outcome>>

-----------------------------------------------------------------------------
(* main.rs: what a verb takes.  Many: free text, or a list.                *)
Many == MaxArgs

Takes(values, switches, most, text) ==
  [values |-> values, switches |-> switches, most |-> most, text |-> text]

VerbSpec(verb) ==
  CASE verb \in {"ensure", "stop", "url", "migrate-home"} -> Takes({}, {}, 0, FALSE)
    [] verb = "status" -> Takes({}, {"--all"}, 1, FALSE)
    [] verb \in {"due", "sweep", "forget", "islands", "hubs", "pin", "accessions"} -> Takes({}, {}, 1, FALSE)
    [] verb \in {"remember", "prefer"} -> Takes({"--workspace"}, {}, Many, TRUE)
    [] verb = "search" -> Takes({"--workspace", "--as-of", "--rank"}, {"--rerank"}, Many, TRUE)
    [] verb = "island" -> Takes({"--workspace"}, {"--fire"}, Many, TRUE)
    [] verb = "fire"   -> Takes({"--workspace"}, {}, Many, FALSE)
    [] verb = "grade"  -> Takes({}, {"--lapsed"}, 2, FALSE)
    [] verb = "atoms"  -> Takes({"--as-of"}, {}, 1, FALSE)
    [] verb = "export" -> Takes({"--into"}, {}, 1, FALSE)
    [] verb = "citers" -> Takes({}, {}, 2, FALSE)

LocalVerbs == {"ensure", "stop", "url", "migrate-home"}   \* see Seats
Verbs == LocalVerbs \cup
  {"status", "due", "sweep", "forget", "islands", "hubs", "pin", "accessions", "remember", "prefer",
   "search", "island", "fire", "grade", "atoms", "export", "citers"}

Arg(text, inline) == [text |-> text, inline |-> inline]   \* inline: FLAG=VALUE
Word == Arg("word", FALSE)
DashDash == Arg("--", FALSE)
Help == Arg("--help", FALSE)
ArgsOf(verb) ==
  {Word, DashDash, Help, Arg("--other", FALSE)} \cup
  {Arg(f, i) : f \in VerbSpec(verb).values \cup VerbSpec(verb).switches, i \in BOOLEAN}

Dashed(a) == a # Word

(* parse: one argument after the other.  `wants` is the flag whose value   *)
(* comes next.                                                             *)
Unread == [out |-> "run", ended |-> FALSE, wants |-> "", flags |-> {}, words |-> 0]

ParseArg(takes, p, a) ==
  IF p.out # "run" THEN p
  ELSE IF p.wants # "" THEN
    IF Dashed(a) THEN [p EXCEPT !.out = "refused"]
    ELSE [p EXCEPT !.flags = @ \cup {p.wants}, !.wants = ""]
  ELSE IF p.ended \/ ~Dashed(a) THEN [p EXCEPT !.words = @ + 1]
  ELSE IF a = DashDash THEN [p EXCEPT !.ended = TRUE]
  ELSE IF a = Help THEN [p EXCEPT !.out = "help"]
  ELSE IF a.text \in takes.values THEN
    IF a.inline THEN [p EXCEPT !.flags = @ \cup {a.text}] ELSE [p EXCEPT !.wants = a.text]
  ELSE IF a.text \in takes.switches /\ ~a.inline THEN [p EXCEPT !.flags = @ \cup {a.text}]
  ELSE IF takes.text /\ p.words > 0 THEN [p EXCEPT !.words = @ + 1]
  ELSE [p EXCEPT !.out = "refused"]

Parse(verb, args) ==
  LET takes == VerbSpec(verb)
      p == FoldLeft(LAMBDA q, a : ParseArg(takes, q, a), Unread, args)
  IN IF p.out = "run" /\ (p.wants # "" \/ p.words > takes.most)
     THEN [p EXCEPT !.out = "refused"] ELSE p

(* What a verb insists on before it sends anything.                        *)
Needed(verb) ==
  CASE verb \in {"remember", "prefer", "search", "island", "forget", "grade", "citers"} -> 1
    [] verb = "fire" -> 2
    [] OTHER -> 0

Usable(verb, p) == p.words >= Needed(verb) /\ (verb = "export" => "--into" \in p.flags)

-----------------------------------------------------------------------------
(* packset-client: the calls, by the fields each carries, and those of     *)
(* them that carry a no.                                                   *)
Call(method, path, sends) == [method |-> method, path |-> path, sends |-> sends, off |-> {}]
Get(path, sends)  == Call("GET", path, sends)
Post(path, sends) == Call("POST", path, sends)
Put(path, sends)  == Call("PUT", path, sends)
W == {"workspace"}

HealthCall == Get("/health", {})
Identity == Get("/v1/identity", {"cwd"})
If(given, field) == IF given THEN {field} ELSE {}

ListAtoms(dated)      == Get("/v1/atoms", W \cup If(dated, "as_of"))
SearchCall(dated, rerank, rank) ==
  Get("/v1/search", W \cup {"q", "limit"} \cup If(dated, "as_of") \cup If(rerank, "rerank") \cup If(rank, "rank"))
Activate(firing, lens) ==
  [Get("/v1/activate", W \cup {"q", "limit", "fire"} \cup If(lens, "as")) EXCEPT !.off = If(~firing, "fire")]
PostAtom              == Post("/v1/atoms", W \cup {"schema", "kind", "level", "text"})
Accessions            == Get("/v1/accessions", W)
Citers                == Get("/v1/citers", W \cup {"accession"})
SetPin                == Put("/v1/pin", W \cup {"name"})
GetAtom               == Get("/v1/atoms/id", W)
OfKind                == Get("/v1/atoms", W \cup {"kind"})
WithoutVectors        == Get("/v1/atoms", W \cup {"embedding", "as_of"})
InSet                 == Get("/v1/pack", W \cup {"set"})
DeleteAtom            == Post("/v1/atoms/delete", W \cup {"id", "why"})
GradeAtom             == Post("/v1/grade", W \cup {"id", "recalled"})
HubsCall              == Get("/v1/hubs", W \cup {"limit"})
IslandsCall           == Get("/v1/islands", W)
FireCall              == Post("/v1/fire", W \cup {"ids", "as"})
Consolidate           == Post("/v1/consolidate", W \cup {"apply"})
SweepCall             == Post("/v1/sweep", W)
ForgetWorkspace       == Post("/v1/forget", W)
StatusOf(all)         == Get("/v1/status", IF all THEN {} ELSE W)
PinCall               == Get("/v1/pin", W)

(* Whether the workspace of a verb is on its line; else it is that of the  *)
(* environment, or what /v1/identity answers for the directory.            *)
OnLine(verb, p) ==
  CASE verb \in {"status", "due", "sweep", "islands", "hubs", "accessions", "atoms", "export"} -> p.words > 0
    [] verb \in {"grade", "citers"} -> p.words > 1
    [] verb = "pin" -> FALSE
    [] OTHER -> verb = "forget" \/ "--workspace" \in p.flags

\* `given`: the environment names one.
Whose(verb, p, given) == IF given \/ OnLine(verb, p) THEN <<>> ELSE <<Identity>>

PackAsks(verb, p) ==
  CASE verb = "pin"    -> IF p.words > 0 THEN SetPin ELSE PinCall
    [] verb = "citers" -> Citers
    [] verb = "export" -> ListAtoms(FALSE)
    [] verb \in {"remember", "prefer"} -> PostAtom
    [] verb = "search" -> SearchCall("--as-of" \in p.flags, "--rerank" \in p.flags, "--rank" \in p.flags)

ReviewAsks(verb, p) ==
  CASE verb = "sweep"   -> SweepCall
    [] verb = "forget"  -> ForgetWorkspace
    [] verb = "due"     -> ListAtoms(FALSE)
    [] verb = "hubs"    -> HubsCall
    [] verb = "islands" -> IslandsCall
    [] verb = "fire"    -> FireCall
    [] verb = "island"  -> Activate("--fire" \in p.flags, FALSE)
    [] verb = "grade"   -> GradeAtom

ListAsks(verb, p) == IF verb = "atoms" THEN ListAtoms("--as-of" \in p.flags) ELSE Accessions

Asks(verb, p) ==
  CASE verb = "status" -> StatusOf("--all" \in p.flags)
    [] verb \in {"pin", "citers", "export", "remember", "prefer", "search"} -> PackAsks(verb, p)
    [] verb \in {"atoms", "accessions"} -> ListAsks(verb, p)
    [] OTHER -> ReviewAsks(verb, p)

(* How often a verb asks for health first: status does, and before that of *)
(* the port where no other writer is named.                                *)
HealthAsked(verb) == IF verb = "status" THEN {1, 2} ELSE {0}

VerbCalls(verb, p, given, probes) ==
  LET health == [i \in 1..probes |-> HealthCall]
      all    == verb = "status" /\ "--all" \in p.flags
      who    == IF all THEN <<>> ELSE Whose(verb, p, given)
      also   == IF verb = "export" THEN <<Accessions>> ELSE <<>>
  IN IF verb \in LocalVerbs THEN <<>>
     ELSE IF all /\ p.words > 0 THEN health
     ELSE health \o who \o <<Asks(verb, p)>> \o also

(* packset-mcp: the tools, each marked read only; the workspace is the     *)
(* seat's own unless one is named.                                         *)
Tools == {"packset_search", "packset_atoms", "packset_accessions", "packset_citers", "packset_state"}

ToolCalls(tool) ==
  CASE tool = "packset_search"     -> <<SearchCall(TRUE, TRUE, TRUE)>>
    [] tool = "packset_atoms"      -> <<ListAtoms(TRUE)>>
    [] tool = "packset_accessions" -> <<Accessions>>
    [] tool = "packset_citers"     -> <<Citers>>
    [] tool = "packset_state"      -> <<StatusOf(FALSE)>>

(* The calls of the library that no verb makes.                            *)
Library == {"get_atom", "atoms_of_kind", "atoms_without_vectors", "atoms_in_set", "delete_atom",
            "consolidate", "activate_as"}

LibraryCalls(call) ==
  CASE call = "get_atom"              -> <<GetAtom>>
    [] call = "atoms_of_kind"         -> <<OfKind>>
    [] call = "atoms_without_vectors" -> <<WithoutVectors>>
    [] call = "atoms_in_set"          -> <<InSet>>
    [] call = "delete_atom"           -> <<DeleteAtom>>
    [] call = "consolidate"           -> <<Consolidate>>
    [] call = "activate_as"           -> <<Activate(TRUE, TRUE)>>

-----------------------------------------------------------------------------
(* http.rs, route: the method and the path of each arm, the fields without *)
(* which it refuses, and the others it reads.                              *)
Arm(method, path, needs, reads) == [method |-> method, path |-> path, needs |-> needs, reads |-> needs \cup reads]
Reads(path, needs, reads) == Arm("GET", path, needs, reads)
Posts(path, needs, reads) == Arm("POST", path, needs, reads)
Puts(path, needs, reads)  == Arm("PUT", path, needs, reads)

ListingArms == {
  Reads("/v1/status", {}, W), Reads("/v1/workspaces", {}, {}), Reads("/v1/pin", W, {}),
  Reads("/v1/pack", W, {"set"}), Reads("/v1/set", W \cup {"name"}, {}),
  Reads("/v1/atoms", W, {"embedding", "as_of", "kind"}), Reads("/v1/accessions", W, {}),
  Reads("/v1/citers", W \cup {"accession"}, {}), Reads("/v1/atoms/id", W, {"as_of"})}

DirectoryArms == {
  Reads("/v1/identity", {}, {"cwd", "harness"}), Reads("/v1/rules", {}, {"cwd", "body"}),
  Reads("/v1/skills", {}, {"cwd", "name"}), Reads("/v1/map", {}, {"cwd"})}

GraphArms == {
  Posts("/v1/sweep", W, {}), Posts("/v1/forget", W, {}), Posts("/v1/consolidate", W, {"apply"}),
  Posts("/v1/fire", W \cup {"ids"}, {"as"}), Reads("/v1/islands", W, {}), Reads("/v1/hubs", W, {"limit"}),
  Reads("/v1/activate", W \cup {"q"}, {"limit", "fire", "as"})}

SearchArms == {
  Reads("/v1/search", W, {"limit", "q", "set", "rerank", "rank", "as_of", "kind"}),
  Reads("/v1/recall", W, {"limit", "seed", "q", "kind"}), Reads("/v1/attach", W, {"peek"})}

CardArms == {
  Puts("/v1/pin", W, {"set"}), Puts("/v1/set", W, {"name", "set"}), Puts("/v1/user", {}, {"text"}),
  Puts("/v1/memory", {}, W \cup {"text"})}

ProposalArms == {
  Reads("/v1/proposals", W, {}), Posts("/v1/proposals", W \cup {"job"}, {}),
  Posts("/v1/proposals/accept", W \cup {"id"}, {}), Posts("/v1/compact", W, {"day", "transcript"})}

ClaimArms == {
  Posts("/v1/atoms", W \cup {"schema", "kind", "level", "text"}, {}),
  Posts("/v1/atoms/update", W \cup {"id"}, {"fields"}), Posts("/v1/atoms/delete", W \cup {"id"}, {"why"}),
  Posts("/v1/grade", W \cup {"id"}, {"recalled"}), Posts("/v1/attach", W, {"text", "path", "label"})}

Arms == ListingArms \cup DirectoryArms \cup GraphArms \cup SearchArms \cup CardArms \cup ProposalArms \cup ClaimArms

ArmsFor(call) == {a \in Arms : a.method = call.method /\ a.path = call.path}

(* What a handler may do besides reading what is live: write a record or a *)
(* card, encode a text, scan the database for a past time, take the slot.  *)
Does(call) ==
  (IF call.method \in {"POST", "PUT"} \/ "fire" \in call.sends \ call.off THEN {"write"} ELSE {})
  \cup (IF call.path \in {"/v1/search", "/v1/activate", "/v1/atoms/update", "/v1/proposals/accept"} \/ call = PostAtom
        THEN {"encode"} ELSE {})
  \cup (IF "as_of" \in call.sends THEN {"scan"} ELSE {})
  \cup (IF call.path = "/v1/attach" /\ "peek" \notin call.sends THEN {"take"} ELSE {})

(* wire.rs, is_cheap: what takes no slot of the lane (see DearLane).       *)
Cheap(call) ==
  /\ call.method = "GET"
  /\ \/ call.path \in {"/health", "/v1/status", "/v1/workspaces"}
     \/ call.path = "/v1/atoms" /\ "embedding" \in call.sends /\ "as_of" \notin call.sends

-----------------------------------------------------------------------------
(* wire.rs, read_request: the head line by line, then the body.            *)
Length(n)   == [name |-> "content-length", value |-> n]
Coding(ok)  == [name |-> "transfer-encoding", value |-> IF ok THEN 1 ELSE 0]   \* chunked, or another
Expect      == [name |-> "expect", value |-> 1]
NoColon     == [name |-> "", value |-> 0]
HeaderLines == {Length(n) : n \in {0, MAX_BODY, MAX_BODY + 1}} \cup {Coding(TRUE), Coding(FALSE), Expect, NoColon}

NoLength == -1
NoHead == [refused |-> FALSE, length |-> NoLength, chunked |-> FALSE, expect |-> FALSE, lines |-> 0]

HeadFull(h) == h.lines = MAX_HEAD

ReadLine(h, header) ==
  IF h.refused THEN h
  ELSE IF HeadFull(h) \/ header = NoColon THEN [h EXCEPT !.refused = TRUE]
  ELSE LET g == [h EXCEPT !.lines = @ + 1]
       IN CASE header.name = "content-length" ->
                 [g EXCEPT !.length = header.value, !.refused = h.length \notin {NoLength, header.value}]
            [] header.name = "transfer-encoding" ->
                 [g EXCEPT !.chunked = header = Coding(TRUE), !.refused = header # Coding(TRUE)]
            [] header.name = "expect" -> [g EXCEPT !.expect = TRUE]

(* A chunked body, chunk by chunk; a length beside it is not looked at.    *)
ReadChunk(b, size) ==
  IF b.refused \/ b.size + size > MAX_BODY THEN [b EXCEPT !.refused = TRUE] ELSE [b EXCEPT !.size = @ + size]
ReadChunked(chunks) == FoldLeft(ReadChunk, [refused |-> FALSE, size |-> 0], chunks)

ReadAll(headers, chunks) ==
  LET h == FoldLeft(ReadLine, NoHead, headers)
  IN IF h.refused \/ h.length > MAX_BODY THEN [refused |-> TRUE, size |-> 0]
     ELSE IF h.chunked THEN ReadChunked(chunks)
     ELSE [refused |-> FALSE, size |-> IF h.length = NoLength THEN 0 ELSE h.length]

-----------------------------------------------------------------------------
Line(by, args, key, asks) == [by |-> by, args |-> args, chunks |-> <<>>, key |-> key, asks |-> asks]
Prompt == Line("", <<>>, TRUE, <<>>)

Sends(by, args, key, asks) ==
  /\ line' = Line(by, args, key, asks)
  /\ calls' = asks
  /\ outcome' = IF asks = <<>> THEN "done" ELSE "open"
  /\ UNCHANGED <<retries, ran>>

(* A verb: parsed before anything runs; help and a refusal send nothing.   *)
TypeLine(verb, args, given, key) ==
  \E p \in {Parse(verb, args)} :
    \/ /\ p.out = "run" /\ Usable(verb, p)
       /\ \E probes \in HealthAsked(verb) : Sends(verb, args, key, VerbCalls(verb, p, given, probes))
    \/ /\ p.out # "run" \/ ~Usable(verb, p)
       /\ line' = Line(verb, args, key, <<>>)
       /\ outcome' = IF p.out = "help" THEN "help" ELSE "failed"
       /\ UNCHANGED <<calls, retries, ran>>

CallTool(tool, key) == Sends(tool, <<>>, key, ToolCalls(tool))

CallLibrary(call, key) == Sends(call, <<>>, key, LibraryCalls(call))

(* On to the next call; the workspace falls back to the directory when the *)
(* writer does not answer who it is.                                       *)
Onward ==
  /\ calls' = Tail(calls) /\ retries' = 0
  /\ outcome' = IF Len(calls) > 1 THEN "open" ELSE "done"

Fails ==
  IF Head(calls) = Identity THEN Onward
  ELSE calls' = <<>> /\ retries' = 0 /\ outcome' = "failed"

Runs == ran' = Append(ran, Head(calls))

(* 503: the queue or the lane is full and nothing of the request ran.  The *)
(* client's budget of time may be over before its retries are.             *)
Busy ==
  /\ calls # <<>>
  /\ \/ retries < BUSY_RETRIES /\ retries' = retries + 1 /\ UNCHANGED <<calls, outcome>>
     \/ Fails
  /\ UNCHANGED <<line, ran>>

\* Mutant: a call that was not answered is sent again.
LostIsRetried ==
  /\ calls # <<>>
  /\ Runs \/ UNCHANGED ran
  /\ retries < BUSY_RETRIES /\ retries' = retries + 1 /\ UNCHANGED <<calls, outcome>>
  /\ UNCHANGED line

(* No answer in time, or no connection: the handler may have run.          *)
Lost ==
  /\ calls # <<>>
  /\ (line.key /\ Runs) \/ UNCHANGED ran
  /\ Fails
  /\ UNCHANGED line

Admits == line.key   \* auth.rs: the header carries the writer's token

(* handle: health for anyone, the rest for who has the token.              *)
Handled ==
  /\ calls # <<>>
  /\ \/ (Admits \/ Head(calls) = HealthCall) /\ Runs /\ (Onward \/ Fails)
     \/ ~Admits /\ Head(calls) # HealthCall /\ Fails /\ UNCHANGED ran
  /\ UNCHANGED line

Receive(headers, chunks) ==
  /\ line' = [Line("wire", headers, FALSE, <<>>) EXCEPT !.chunks = chunks]
  /\ outcome' = IF ReadAll(headers, chunks).refused THEN "failed" ELSE "done"
  /\ UNCHANGED <<calls, retries, ran>>

SurfaceInit == line = Prompt /\ calls = <<>> /\ retries = 0 /\ ran = <<>> /\ outcome = "open"

Again ==
  /\ outcome # "open"
  /\ line' = Prompt /\ ran' = <<>> /\ outcome' = "open"
  /\ UNCHANGED <<calls, retries>>

Chunks == BoundedSeq({1, MAX_BODY}, 2)

AtPrompt ==
  \/ \E verb \in Verbs, given, key \in BOOLEAN : \E args \in BoundedSeq(ArgsOf(verb), MaxArgs) :
       TypeLine(verb, args, given, key)
  \/ \E tool \in Tools, key \in BOOLEAN : CallTool(tool, key)
  \/ \E call \in Library, key \in BOOLEAN : CallLibrary(call, key)
  \/ \E headers \in BoundedSeq(HeaderLines, MAX_HEAD + 1), chunks \in Chunks : Receive(headers, chunks)

SurfaceNext ==
  \/ line = Prompt /\ AtPrompt
  \/ Busy \/ Lost \/ Handled
  \/ Again

-----------------------------------------------------------------------------
(* Help anywhere before `--` prints help and runs nothing (main.rs, parse: *)
(* "so help never runs the verb").                                         *)
HelpRunsNothing ==
  line.by \in Verbs =>
    \A i \in 1..Len(line.args) :
      line.args[i] = Help /\ (\A j \in 1..i : line.args[j] # DashDash) => calls = <<>> /\ ran = <<>>

(* Four tables kept by hand agree: whatever a verb, a tool or the library  *)
(* sends has an arm, with all the arm needs and nothing it does not read.  *)
(* The pin is left out: see PinSetsTheSet in Desk.                         *)
CallsAreServed ==
  \A i \in 1..Len(calls) :
    calls[i] \notin {HealthCall, SetPin} =>
      \E a \in ArmsFor(calls[i]) : a.needs \subseteq calls[i].sends /\ calls[i].sends \subseteq a.reads

(* The tools of packset-mcp, all marked read only, and the verbs that list *)
(* change nothing (server.rs: "Every tool reads").                         *)
Listing == Tools \cup {"status", "due", "islands", "hubs", "accessions", "search", "atoms", "export", "citers"}
ReadersChangeNothing ==
  line.by \in Listing => \A i \in 1..Len(ran) : Does(ran[i]) \cap {"write", "take"} = {}

(* However busy the writer and however often it is asked again, no handler *)
(* runs twice for a line, none out of its order, and all have run when the *)
(* line ends well, but for the question whose workspace it is (client:     *)
(* "a write sent again is not stored twice").                              *)
NothingRunsTwice ==
  LET Others(sent) == SelectSeq(sent, LAMBDA call : call # Identity)
  IN /\ Len(ran) <= Len(line.asks)
     /\ IsPrefix(Others(ran), Others(line.asks))
     /\ outcome = "done" => Others(ran) = Others(line.asks)

(* What a request does that takes no slot of the lane never encodes,       *)
(* writes or scans a past time, or a burst of it would hold the workers    *)
(* the lane keeps free.                                                    *)
CheapIsCheap == \A i \in 1..Len(calls) : Cheap(calls[i]) => Does(calls[i]) = {}

(* Without the token nothing but health runs.                              *)
OwnerOnly == ~line.key => \A i \in 1..Len(ran) : ran[i] = HealthCall

(* Whether a request is read, and how long its body is, does not hang on   *)
(* the order of its headers, and no body passes MAX_BODY: a request the    *)
(* client frames one way is never two requests to the writer.              *)
FramingIsOrderless ==
  line.by = "wire" =>
    \A p \in Permutations(1..Len(line.args)) :
      LET read == ReadAll(line.args, line.chunks)
      IN /\ ReadAll([i \in 1..Len(line.args) |-> line.args[p[i]]], line.chunks) = read
         /\ read.size <= MAX_BODY

(* The tables of the verbs, the client, the tools and the routes agree,    *)
(* and the client's retries with the writer's refusals.                    *)
SurfaceInv ==
  /\ HelpRunsNothing
  /\ CallsAreServed
  /\ ReadersChangeNothing
  /\ NothingRunsTwice
  /\ CheapIsCheap
  /\ OwnerOnly
  /\ FramingIsOrderless
=============================================================================
