-------------------------------- MODULE Desk --------------------------------
(***************************************************************************)
(* What the writer keeps beside the atoms: the cards and their archive     *)
(* (cards.rs), the pin, the attachment slots and the hour a fire is held   *)
(* (service.rs), as the seats reach them: packset-client's send with its   *)
(* retries, the token (auth.rs) and the route table (http.rs).             *)
(*                                                                         *)
(* Requests run on workers at once.  Only the pin, a fire and a forget     *)
(* take the write lock; a card is written and archived with none, in the   *)
(* steps its file system calls make.                                       *)
(***************************************************************************)
EXTENDS Naturals, Sequences, FiniteSets, FiniteSetsExt, Functions, Filter

CONSTANTS
  Seat,       \* clients, each with one request at a time
  Workspace,  \* bound: workspaces
  Text,       \* bound: texts of a card, sequences of bytes
  Tails,      \* the bytes that go on with a character and begin none
  Cap,        \* USER_CAP and MEMORY_CAP, in characters
  Roomy,      \* the sets of texts an archive of a day has room for (1_000_000)
  Slots,      \* ATTACH_SLOTS
  FireCap,    \* PACKSET_FIRE_CAP, zero for none
  Window,     \* FIRE_WINDOW and ATTACH_TTL, in ticks of the clock
  Request,    \* bound: the requests the seats make
  MaxAsks,    \* bound: requests altogether
  MaxTicks,   \* bound: ticks of the clock
  BusyRetries, \* BUSY_RETRIES
  Failures    \* whether a write of a file or of the store may fail

Nobody      == "nobody"
Fields      == <<"user", "memory", "instructions">>   \* write_set's order
Home        == {"USER.md"} \cup Workspace             \* a workspace for its MEMORY.md
InSet       == {"set user", "set memory", "set instructions"}
Cards       == Home \cup InSet
SetCard(f)  == CHOOSE c \in InSet : c = (CASE f = "user" -> "set user"
                                           [] f = "memory" -> "set memory"
                                           [] OTHER -> "set instructions")
Books       == {"global"} \cup Workspace              \* an archive file of today each
Legal(name) == name # "Bad!"                          \* set_name::check
Absent      == <<"absent">>

CardOps == {"user", "memory", "set"}
KeyOps  == {"fire", "activate"}
Ops     == CardOps \cup KeyOps \cup {"pin", "pin set", "attach", "take", "peek", "forget", "unknown"}

ASSUME DeskAssumption ==
  /\ Text \subseteq Seq(STRING) /\ \A t \in Text : "absent" \notin Range(t)
  /\ {Cap, Slots, FireCap, Window, MaxAsks, MaxTicks, BusyRetries} \subseteq Nat
  /\ Slots > 0 /\ Window > 0 /\ Failures \in BOOLEAN
  /\ Nobody \notin Seat

(* An archive that has room for some texts has room for fewer.             *)
ASSUME RoomyAssumption == Roomy \subseteq SUBSET Text /\ \A a \in Roomy : SUBSET a \subseteq Roomy

(* A request has what its operation reads: a text, the texts of some       *)
(* fields of a set, a key.                                                 *)
ASSUME RequestAssumption ==
  \A r \in Request :
    /\ r.op \in Ops /\ r.ws \in Workspace
    /\ r.op \in {"user", "memory"} => r.text \in Text
    /\ \A f \in DOMAIN r.cards : f \in Range(Fields) /\ r.cards[f] \in Text
    /\ r.op \in KeyOps => r.key # ""

VARIABLES
  file,     \* card -> its bytes, or Absent
  torn,     \* the cards that two requests had open at once when they were last written
  mode,     \* card -> "rw" or "ro"
  book,     \* archive -> the texts in it
  pin,      \* workspace -> the name in its pin file, "" for none
  slot,     \* the attachments held, oldest first: a workspace, a number and an age
  fired,    \* the keys of the fire map, oldest first, with their ages
  cued,     \* the same for the cue map
  lock,     \* the seat whose request has the write lock, or Nobody
  run,      \* seat -> its request and where it is: the answers of 503 it was sent
            \* again for, the fields its write_set has to do, what its archive held
  told      \* seat -> the code and the body of the answer the last step gave it

VARIABLES   \* history
  asks, ticks,
  put,      \* workspace -> the pin of the last put that ended, none if its write failed
  refused,  \* the overflowing texts a seat was answered 413 for, with their archive
  spoiled,  \* the archives two requests wrote at once, or a failure emptied or hid
  given,    \* the attachments given to a taker
  last      \* key -> how long ago it was recorded, and the keys recorded since

disk    == <<file, torn, mode, book, pin>>
memory  == <<slot, fired, cued>>
history == <<put, refused, spoiled, given, last>>
vars    == <<disk, memory, lock, run, told, asks, ticks, history>>

Keys == {r.key : r \in Request} \ {""}

-----------------------------------------------------------------------------
(* The client: a request is sent, and sent again while the writer is busy. *)
NoRequest == [op |-> "none"]
Idle == [at |-> "idle", req |-> NoRequest, tries |-> 0, todo |-> <<>>, read |-> {}]
Quiet == [code |-> 0, body |-> ""]
NoAnswer == told' = [s \in Seat |-> Quiet]

Ask(s) ==
  /\ run[s].at = "idle" /\ asks < MaxAsks
  /\ asks' = asks + 1
  /\ run' \in {[run EXCEPT ![s] = [Idle EXCEPT !.at = "sent", !.req = r]] : r \in Request}
  /\ NoAnswer
  /\ UNCHANGED <<disk, memory, lock, ticks, history>>

Go(s, place) == run' = [run EXCEPT ![s].at = place] /\ NoAnswer

(* The answer.  (A client whose budget is over asks again while its        *)
(* request still runs: that is two seats here.)                            *)
Answer(s, code, body) ==
  /\ run' = [run EXCEPT ![s] = Idle]
  /\ told' = [t \in Seat |-> IF t = s THEN [code |-> code, body |-> body] ELSE Quiet]

Busy(s) ==
  /\ run[s].at = "sent"
  /\ IF run[s].tries < BusyRetries
     THEN run' = [run EXCEPT ![s].tries = @ + 1] /\ NoAnswer
     ELSE Answer(s, 503, "")
  /\ UNCHANGED <<disk, memory, lock, asks, ticks, history>>

-----------------------------------------------------------------------------
(* http.rs: the token, what the route requires, and the handler's first    *)
(* step.  packset-client names the set of a pin "name"; the route reads    *)
(* "set" (op "pin" is the client's body, "pin set" one with the key read). *)
Required(r) == r.op \in {"user", "memory"} \/ r.ws # ""

First(r) ==
  CASE r.op \in {"user", "memory"}      -> "card"
    [] r.op = "set"                     -> "fields"
    [] r.op \in {"pin", "pin set"}      -> "pin"
    [] r.op \in {"attach", "take", "peek"} -> "slot"
    [] r.op = "fire"                    -> "fire"
    [] r.op = "activate"                -> "cue"
    [] r.op = "forget"                  -> "forget"

Refusal(s) ==
  IF ~run[s].req.token THEN 401
  ELSE IF run[s].req.op = "unknown" THEN 404
  ELSE IF ~Required(run[s].req) \/ (run[s].req.op = "set" /\ ~Legal(run[s].req.name)) THEN 400 ELSE 0

Serve(s) ==
  /\ run[s].at = "sent"
  /\ LET r == run[s].req IN
     \/ Refusal(s) # 0 /\ Answer(s, Refusal(s), "")
     \/ /\ Refusal(s) = 0
        /\ run' = [run EXCEPT ![s] = [@ EXCEPT !.at = First(r), !.tries = 0,
                                               !.todo = Among(Fields, DOMAIN r.cards)]]
        /\ NoAnswer
  /\ UNCHANGED <<disk, memory, lock, asks, ticks, history>>

-----------------------------------------------------------------------------
(* Cards.  The text and the card a request is at.                          *)
CardOf(s) ==
  CASE run[s].req.op = "user"   -> "USER.md"
    [] run[s].req.op = "memory" -> run[s].req.ws
    [] OTHER                -> SetCard(Head(run[s].todo))
TextOf(s) == IF run[s].req.op = "set" THEN run[s].req.cards[Head(run[s].todo)] ELSE run[s].req.text

Chars(bytes) == Cardinality({i \in DOMAIN bytes : bytes[i] \notin Tails})
Overflows(s) == Chars(TextOf(s)) > Cap
BookOf(s)    == IF run[s].req.op = "user" THEN "global" ELSE run[s].req.ws

(* write_capped: the cap first; a home card is made writable.              *)
Writable(c) == mode' = [mode EXCEPT ![c] = IF c \in Home THEN "rw" ELSE @]

\* Mutant: the cap is asked only of a home card.
WriteCappedAtHome(s) ==
  /\ run[s].at = "card"
  /\ \/ Overflows(s) /\ CardOf(s) \in Home /\ Go(s, "archive") /\ UNCHANGED mode
     \/ (~Overflows(s) \/ CardOf(s) \in InSet) /\ Go(s, "open") /\ Writable(CardOf(s))
  /\ UNCHANGED <<file, torn, book, pin, memory, lock, asks, ticks, history>>

WriteCapped(s) ==
  /\ run[s].at = "card"
  /\ \/ Overflows(s) /\ CardOf(s) \in Home /\ Go(s, "archive") /\ UNCHANGED mode
     \/ Overflows(s) /\ CardOf(s) \in InSet /\ Answer(s, 413, "") /\ UNCHANGED mode
     \/ ~Overflows(s) /\ Go(s, "open") /\ Writable(CardOf(s))
  /\ UNCHANGED <<file, torn, book, pin, memory, lock, asks, ticks, history>>

(* fs::write: the file is opened and emptied, then written from its start. *)
Open(s) ==
  /\ run[s].at = "open"
  /\ \/ /\ mode[CardOf(s)] = "rw"
        /\ file' = [file EXCEPT ![CardOf(s)] = <<>>]
        /\ torn' = IF \E t \in Seat \ {s} : run[t].at = "write" /\ CardOf(t) = CardOf(s)
                   THEN torn \cup {CardOf(s)} ELSE torn \ {CardOf(s)}
        /\ Go(s, "write")
     \/ /\ mode[CardOf(s)] = "ro" \/ Failures
        /\ Go(s, "failed")
        /\ UNCHANGED <<file, torn>>
  /\ UNCHANGED <<mode, book, pin, memory, lock, asks, ticks, history>>

Overlay(text, there) ==
  [i \in 1..Max({Len(text), Len(there)}) |-> IF i <= Len(text) THEN text[i] ELSE there[i]]

Write(s) ==
  /\ run[s].at = "write"
  /\ \/ /\ file' = [file EXCEPT ![CardOf(s)] = Overlay(TextOf(s), @)]
        /\ Go(s, "written")
     \/ Failures /\ Go(s, "failed") /\ UNCHANGED file
  /\ UNCHANGED <<torn, mode, book, pin, memory, lock, asks, ticks, history>>

(* A home card is read-only again, whether it was written or not; then the *)
(* error goes up, or the next field of a set is taken.                     *)
Sealed(s) == mode' = [mode EXCEPT ![CardOf(s)] = IF CardOf(s) \in Home /\ file[CardOf(s)] # Absent THEN "ro" ELSE @]

Onwards(s) ==
  \/ run[s].at = "failed" /\ Answer(s, 400, "")
  \/ /\ run[s].at = "written" /\ run[s].req.op = "set"
     /\ run' = [run EXCEPT ![s] = [@ EXCEPT !.at = "fields", !.todo = Tail(run[s].todo)]]
     /\ NoAnswer
  \/ run[s].at = "written" /\ run[s].req.op # "set" /\ Answer(s, 200, "")

Seal(s) ==
  /\ Onwards(s)
  /\ Sealed(s)
  /\ UNCHANGED <<file, torn, book, pin, memory, lock, asks, ticks, history>>

WriteSet(s) ==
  /\ run[s].at = "fields"
  /\ IF run[s].todo = <<>> THEN Answer(s, 200, "") ELSE Go(s, "card")
  /\ UNCHANGED <<disk, memory, lock, asks, ticks, history>>

(* Past the cap a home card's text is archived, and then refused: the      *)
(* archive is read (one that cannot be read as empty), and written back    *)
(* with the entry added, unless it is there or there is no room for it.    *)
ArchiveReads(s) ==
  /\ run[s].at = "archive"
  /\ \E there \in {book[BookOf(s)]} \cup (IF Failures THEN {{}} ELSE {}) :
       /\ run' = [run EXCEPT ![s] = [@ EXCEPT !.at = "add", !.read = there]]
       /\ spoiled' = spoiled \cup {BookOf(t) : t \in {t \in Seat \ {s} : run[t].at = "add" /\ BookOf(t) = BookOf(s)}}
                             \cup {b \in {BookOf(s)} : there # book[b]}
  /\ NoAnswer
  /\ UNCHANGED <<disk, memory, lock, asks, ticks, put, refused, given, last>>

\* Mutant: the day's archive is the last text refused.
ArchiveReplaces(s) ==
  /\ run[s].at = "add"
  /\ book' = [book EXCEPT ![BookOf(s)] = {TextOf(s)}]
  /\ Answer(s, 413, "")
  /\ refused' = refused \cup {<<BookOf(s), TextOf(s)>>}
  /\ UNCHANGED <<file, torn, mode, pin, memory, lock, asks, ticks, put, spoiled, given, last>>

Added(s) == run[s].read \cup {TextOf(s)}

(* Refused with 413 either way: the archive's own overflow goes up as the  *)
(* card's does.                                                            *)
Archived(s) ==
  /\ Answer(s, 413, "")
  /\ refused' = refused \cup {<<BookOf(s), TextOf(s)>>}
  /\ UNCHANGED spoiled

ArchiveFails(s) ==
  /\ book' \in {book, [book EXCEPT ![BookOf(s)] = {}]}
  /\ spoiled' = IF book' = book THEN spoiled ELSE spoiled \cup {BookOf(s)}
  /\ Answer(s, 400, "")
  /\ UNCHANGED refused

ArchiveAdds(s) ==
  /\ run[s].at = "add"
  /\ \/ /\ TextOf(s) \in run[s].read \/ Added(s) \notin Roomy
        /\ Archived(s) /\ UNCHANGED book
     \/ /\ TextOf(s) \notin run[s].read /\ Added(s) \in Roomy
        /\ \/ Archived(s) /\ book' = [book EXCEPT ![BookOf(s)] = Added(s)]
           \/ Failures /\ ArchiveFails(s)
  /\ UNCHANGED <<file, torn, mode, pin, memory, lock, asks, ticks, put, given, last>>

-----------------------------------------------------------------------------
(* The pin: under the write lock, with the same two calls on its file.     *)
NameRead(r) == IF r.op = "pin set" THEN r.name ELSE ""   \* body.get("set")

Emptied(s) ==
  /\ Legal(NameRead(run[s].req))
  /\ pin' = [pin EXCEPT ![run[s].req.ws] = ""]
  /\ Go(s, "pinning")
NotPinned(s) == ~Legal(NameRead(run[s].req)) /\ Answer(s, 400, "") /\ UNCHANGED pin

\* Mutant: the lock is kept where the name is refused.
PinKeeps(s) ==
  /\ run[s].at = "pin" /\ lock = Nobody
  /\ lock' = s
  /\ Emptied(s) \/ NotPinned(s)
  /\ UNCHANGED <<file, torn, mode, book, memory, asks, ticks, history>>

PinTakes(s) ==
  /\ run[s].at = "pin" /\ lock = Nobody
  /\ (Emptied(s) /\ lock' = s) \/ (NotPinned(s) /\ UNCHANGED lock)
  /\ UNCHANGED <<file, torn, mode, book, memory, asks, ticks, history>>

Pinned(s) ==
  /\ run[s].at = "pinning"
  /\ lock' = Nobody
  /\ LET name == NameRead(run[s].req) IN
     \/ /\ pin' = [pin EXCEPT ![run[s].req.ws] = IF name = "" THEN @ ELSE name]
        /\ put' = [put EXCEPT ![run[s].req.ws] = name]
        /\ Answer(s, 200, name)
     \/ /\ Failures
        /\ put' = [put EXCEPT ![run[s].req.ws] = ""]
        /\ Answer(s, 400, "") /\ UNCHANGED pin
  /\ UNCHANGED <<file, torn, mode, book, memory, asks, ticks, refused, spoiled, given, last>>

-----------------------------------------------------------------------------
(* Attachments, under their own lock: the old ones go first.               *)
Young(held)  == Among(held, {h \in Range(held) : h.age < Window})
But(held, w) == Among(held, {h \in Range(held) : h.of # w})
Of(held, w)  == Among(held, {h \in Range(held) : h.of = w})
Youngest(n, held) == SubSeq(held, Max({1, Len(held) - n + 1}), Len(held))
Ages(held)   == [i \in DOMAIN held |-> [held[i] EXCEPT !.age = @ + 1]]

PutAttach(held, w, n) ==
  LET others == IF Of(held, w) = <<>> THEN Youngest(Slots - 1, held) ELSE But(held, w)
  IN Append(others, [of |-> w, number |-> n, age |-> 0])

(* A number that no attachment held or given has.                          *)
Fresh ==
  CHOOSE n \in 0..(Len(slot) + Len(given)) : \A h \in Range(slot) \cup Range(given) : h.number # n

Attach(s) ==
  /\ run[s].at = "slot"
  /\ Answer(s, 200, "")
  /\ LET w == run[s].req.ws  held == Young(slot) IN
     \/ run[s].req.op = "attach" /\ slot' = PutAttach(held, w, Fresh) /\ UNCHANGED given
     \/ run[s].req.op = "take" /\ slot' = But(held, w) /\ given' = given \o Of(held, w)
     \/ run[s].req.op = "peek" /\ slot' = held /\ UNCHANGED given
  /\ UNCHANGED <<disk, fired, cued, lock, asks, ticks, put, refused, spoiled, last>>

-----------------------------------------------------------------------------
(* hold_key: a key inside its window is held; else it is recorded, the     *)
(* expired ones go and then the oldest past the cap.                       *)
IsHeld(map, k) == Of(Young(map), k) # <<>>

\* Mutant: the keys that came first stay.
RecordedLast(map, k) ==
  LET in == Append(Young(map), [of |-> k, age |-> 0])
  IN IF FireCap = 0 THEN in ELSE SubSeq(in, 1, Min({Len(in), FireCap}))

Recorded(map, k) ==
  LET in == Append(Young(map), [of |-> k, age |-> 0])
  IN IF FireCap = 0 THEN in ELSE Youngest(FireCap, in)

(* activate: the island of a cue fires unless the cue was asked within the *)
(* hour, or its seeds are weak; fire_as takes the write lock.              *)
Cue(s) ==
  /\ run[s].at = "cue"
  /\ \/ Answer(s, 200, "weak") /\ UNCHANGED cued
     \/ IsHeld(cued, run[s].req.key) /\ Answer(s, 200, "held") /\ UNCHANGED cued
     \/ /\ ~IsHeld(cued, run[s].req.key)
        /\ cued' = Recorded(cued, run[s].req.key)
        /\ Go(s, "fire")
  /\ UNCHANGED <<disk, slot, fired, lock, asks, ticks, history>>

(* The key is recorded before the write that applies it.                   *)
Fire(s) ==
  /\ run[s].at = "fire" /\ lock = Nobody
  /\ LET k == run[s].req.key IN
     \/ IsHeld(fired, k) /\ Answer(s, 200, "held") /\ UNCHANGED <<fired, last>>
     \/ /\ ~IsHeld(fired, k)
        /\ fired' = Recorded(fired, k)
        /\ last' = [l \in Keys |-> IF l = k THEN [ago |-> 0, since |-> {}]
                                   ELSE [last[l] EXCEPT !.since = @ \cup {k}]]
        /\ Answer(s, 200, "fired") \/ (Failures /\ Answer(s, 400, ""))
  /\ UNCHANGED <<disk, slot, cued, lock, asks, ticks, put, refused, spoiled, given>>

(* forget_workspace also lets go of the workspace's slot and its keys.     *)
WsOf(k) == (CHOOSE r \in Request : r.key = k).ws

Forget(s) ==
  /\ run[s].at = "forget" /\ lock = Nobody
  /\ LET w == run[s].req.ws  Others(map) == Among(map, {h \in Range(map) : WsOf(h.of) # w}) IN
     \/ /\ slot' = But(slot, w)
        /\ fired' = Others(fired) /\ cued' = Others(cued)
        /\ last' = [k \in Keys |-> IF WsOf(k) = w THEN [last[k] EXCEPT !.ago = Window] ELSE last[k]]
        /\ Answer(s, 200, "forgotten")
     \/ Failures /\ Answer(s, 400, "") /\ UNCHANGED <<memory, last>>
  /\ UNCHANGED <<disk, lock, asks, ticks, put, refused, spoiled, given>>

(* The clock; a tick in which nothing grows older is left out.             *)
Tick ==
  /\ ticks < MaxTicks
  /\ slot \o fired \o cued # <<>> \/ \E k \in Keys : last[k].ago < Window
  /\ ticks' = ticks + 1
  /\ slot' = Ages(slot) /\ fired' = Ages(fired) /\ cued' = Ages(cued)
  /\ NoAnswer
  /\ last' = [k \in Keys |-> [last[k] EXCEPT !.ago = Min({@ + 1, Window})]]
  /\ UNCHANGED <<disk, lock, run, asks, put, refused, spoiled, given>>

-----------------------------------------------------------------------------
Init ==
  /\ file = [c \in Cards |-> Absent] /\ torn = {} /\ mode = [c \in Cards |-> "rw"]
  /\ book = [b \in Books |-> {}]
  /\ pin = [w \in Workspace |-> ""]
  /\ slot = <<>> /\ fired = <<>> /\ cued = <<>>
  /\ lock = Nobody
  /\ run = [s \in Seat |-> Idle]
  /\ told = [s \in Seat |-> Quiet]
  /\ asks = 0 /\ ticks = 0
  /\ put = [w \in Workspace |-> ""]
  /\ refused = {} /\ spoiled = {} /\ given = <<>>
  /\ last = [k \in Keys |-> [ago |-> Window, since |-> {}]]

Step(s) ==
  \/ Serve(s)
  \/ WriteCapped(s) \/ Open(s) \/ Write(s) \/ Seal(s) \/ WriteSet(s)
  \/ ArchiveReads(s) \/ ArchiveAdds(s)
  \/ PinTakes(s) \/ Pinned(s)
  \/ Attach(s) \/ Cue(s) \/ Fire(s) \/ Forget(s)

Next == Tick \/ \E s \in Seat : Ask(s) \/ Busy(s) \/ Step(s)

(* A worker goes on with the request it has, and the lock is given to a    *)
(* waiting one in the end.                                                 *)
Spec == Init /\ [][Next]_vars /\ \A s \in Seat : SF_vars(Step(s))

-----------------------------------------------------------------------------
Places == {"idle", "sent", "card", "open", "write", "written", "failed", "fields", "archive", "add",
           "pin", "pinning", "slot", "cue", "fire", "forget"}
Bytes == UNION {Range(t) : t \in Text}
Names  == {""} \cup {r.name : r \in Request}
Bodies == Names \cup {"weak", "held", "fired", "forgotten"}

TypeOK ==
  /\ \A c \in Cards : file[c] = Absent \/ file[c] \in Seq(Bytes)
  /\ torn \subseteq Cards
  /\ mode \in [Cards -> {"rw", "ro"}]
  /\ book \in [Books -> SUBSET Text]
  /\ pin \in [Workspace -> Names]
  /\ \A s \in Seat : run[s].at \in Places /\ run[s].tries <= BusyRetries
  /\ lock \in Seat \cup {Nobody} /\ (lock # Nobody => run[lock].at = "pinning")
  /\ Len(slot) <= Slots
  /\ FireCap > 0 => Len(fired) <= FireCap /\ Len(cued) <= FireCap
  /\ told \in [Seat -> [code : {0, 200, 400, 401, 404, 413, 503}, body : Bodies]]

(* A card is within its cap of characters whichever of the requests that   *)
(* wrote it one after another failed half way (cards.rs: "prose past the   *)
(* cap is an error rather than a truncation"); and the one that two        *)
(* requests had open at once, whose bytes may be of both and count more    *)
(* characters, is no longer in bytes than a text within the cap.           *)
CardsWithinCap ==
  \A c \in Cards : file[c] # Absent =>
    /\ c \notin torn => Chars(file[c]) <= Cap
    /\ \E text \in Text : Chars(text) <= Cap /\ Len(file[c]) <= Len(text)

(* A home card that is there is read-only whenever no request is writing   *)
(* it, after failed writes and overlapping ones too (cards.rs: "The two    *)
(* pack-home cards are held read-only between writes").                    *)
AtCard == {"open", "write", "written", "failed"}
ReadOnlyBetweenWrites ==
  \A c \in Home : file[c] # Absent /\ (\A s \in Seat : run[s].at \in AtCard => CardOf(s) # c) => mode[c] = "ro"

(* A text refused with 413 is in the archive of its day, or that archive   *)
(* has no room for it, unless two requests wrote the archive at once or it *)
(* failed to be read or written (service.rs, set_user: "Archived first, so *)
(* text past the cap is not lost").                                        *)
OverflowIsKept ==
  \A r \in refused :
    r[1] \notin spoiled => r[2] \in book[r[1]] \/ book[r[1]] \cup {r[2]} \notin Roomy

(* Between two puts the pin is the one the last put left, of however many  *)
(* ran at once (service.rs, set_pin, under the write lock).                *)
PinIsTheLastPut ==
  \A w \in Workspace : (\A s \in Seat : run[s].at = "pinning" => run[s].req.ws # w) => pin[w] = put[w]

(* An attachment is given at most once and never past its hour (service.rs,*)
(* take_attach: "an attachment is one turn's").                            *)
OneTurnEach ==
  \A i, j \in DOMAIN given : given[i].age < Window /\ (given[i].number = given[j].number => i = j)

(* What holds at every point: cards within their caps and sealed, the pin  *)
(* that of the last put, and no attachment given twice.                    *)
Inv ==
  /\ TypeOK
  /\ CardsWithinCap
  /\ ReadOnlyBetweenWrites
  /\ PinIsTheLastPut
  /\ OneTurnEach

(* A key recorded within the hour is held, unless as many others as the    *)
(* cap were recorded since: the same claims fire once an hour, and cues do *)
(* not push fires out (service.rs, hold_key).                              *)
HeldForTheHour ==
  \A k \in Keys :
    last[k].ago < Window /\ (FireCap = 0 \/ Cardinality(last[k].since) < FireCap) => IsHeld(fired, k)

(* Every request is answered, or its client gives it up: nothing waits for *)
(* ever on the write lock, whichever request fails holding it.             *)
EveryAskEnds == \A s \in Seat : run[s].at # "idle" ~> run[s].at = "idle"

(* The client is told that the pin it asked for is set.  (packset-client,  *)
(* set_pin: "Pin a workspace to a set.")                                   *)
PinSetsTheSet ==
  [][\A s \in Seat : /\ run[s].at = "pinning" /\ run[s].req.op = "pin" /\ run'[s].at = "idle" /\ told'[s].code = 200
                     => told'[s].body = run[s].req.name /\ pin'[run[s].req.ws] = run[s].req.name]_vars
=============================================================================
