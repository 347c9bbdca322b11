------------------------------- MODULE Seats -------------------------------
(***************************************************************************)
(* The seats of a user and their one writer: `packset ensure`, `stop` and  *)
(* `migrate-home` (packset-cli/main.rs, packset-core/home.rs) run at once  *)
(* by several seats, the writers they start (packsetd/run.rs), and what    *)
(* keeps those apart: the lock in the pack home, the port and the token.   *)
(*                                                                         *)
(* A path holds a directory or a link to the other path; a directory has   *)
(* what it holds, a lock and a token.  A writer may die at any point.      *)
(***************************************************************************)
EXTENDS Integers, FiniteSets

CONSTANTS
  Seat,      \* the command lines running
  Writer,    \* bound: writer processes at once
  Dirs,      \* bound: directories there ever are
  Migrates   \* whether a seat runs migrate-home


Paths  == {"old", "new"}     \* ~/.ljos/memory and $XDG_DATA_HOME/packset
Absent == "absent"
Link   == "link"             \* the old path, after a migration
Nobody == 0
Other  == -1           \* a program that is not packsetd
NoFile == -2           \* no packsetd.lock: no writer was ever here
Tokens == 1..(Cardinality(Writer) + 2)

(* A process number is positive; a directory is no link.                   *)
ASSUME SeatsAssumption ==
  /\ Writer \subseteq Nat \ {0} /\ Seat \cap (Writer \cup {Nobody, NoFile}) = {}
  /\ IsFiniteSet(Dirs) /\ Cardinality(Dirs) > 2 /\ Dirs \cap {Absent, Link} = {}
  /\ Migrates \in BOOLEAN

VARIABLES
  at,     \* path -> what is there: a directory, Link or Absent
  holds,  \* directory -> "nothing", "memories" or "fresh"
  lock,   \* directory -> the writer or seat with its flock, Nobody or NoFile
  token,  \* directory -> the token in its file, 0 with no file
  port,   \* who listens: a writer, Other or Nobody
  proc,   \* writer -> the step of its start, "listens" or "exited"
  home,   \* writer -> the path it resolved
  pack,   \* writer -> the directory it has open
  mine,   \* writer -> the token it holds in memory
  doing,  \* seat -> the step of the verb it is at
  child,  \* seat -> the writer it spawned, or Nobody
  ended,  \* seat -> how its last verb ended: a writer "up", one "down", "failed"
  upset   \* history: a writer was stopped, died or lost its port to another
          \* program, or could not start for a migration in its way

disk  == <<at, holds, lock, token>>
procs == <<port, proc, home, pack, mine>>
seats == <<doing, child, ended>>
vars  == <<disk, procs, seats, upset>>

-----------------------------------------------------------------------------
(* home.rs: what is at a path, through the link; and the default home.     *)
DirAt(p) == IF at[p] = Link THEN at["new"] ELSE at[p]

IsVacant(p) == IF DirAt(p) = Absent THEN TRUE ELSE holds[DirAt(p)] = "nothing"

\* Mutant: an empty new home is taken for the home.
ResolveExisting == IF at["new"] = Absent /\ DirAt("old") # Absent THEN "old" ELSE "new"

Resolve == IF IsVacant("new") /\ DirAt("old") # Absent THEN "old" ELSE "new"

Unused == {d \in Dirs : /\ d \notin {at[p] : p \in Paths}
                        /\ \A w \in Writer : pack[w] # d}

Ours == port \in Writer   \* /health answers "packsetd ok"
Listening == port # Nobody

-----------------------------------------------------------------------------
(* A writer starts: home, lock, store, token, port.  Each call goes by the *)
(* path, which a migration may have moved since the one before it.         *)
WriterResolves(w) ==
  /\ proc[w] = "started"
  /\ proc' = [proc EXCEPT ![w] = "resolved"]
  /\ home' = [home EXCEPT ![w] = Resolve]
  /\ UNCHANGED <<disk, port, pack, mine, seats, upset>>

Exit(w) ==
  /\ proc' = [proc EXCEPT ![w] = "exited"]
  /\ home' = [home EXCEPT ![w] = Absent]
  /\ pack' = [pack EXCEPT ![w] = Absent]
  /\ mine' = [mine EXCEPT ![w] = 0]

(* What is at the home, which is made where there is nothing.              *)
Made(w) == IF DirAt(home[w]) # Absent THEN DirAt(home[w]) ELSE CHOOSE d \in Unused : TRUE
Make(w) == at' = IF DirAt(home[w]) # Absent THEN at ELSE [at EXCEPT ![home[w]] = Made(w)]

Filled(d) == holds' = [holds EXCEPT ![d] = IF @ = "nothing" THEN "fresh" ELSE @]
Goes(w, step) == proc' = [proc EXCEPT ![w] = step]

(* private_home: the directory, with nothing in it where it is new.        *)
WriterMakesHome(w) ==
  /\ proc[w] = "resolved"
  /\ Make(w) /\ Goes(w, "made")
  /\ UNCHANGED <<holds, lock, token, port, home, pack, mine, seats, upset>>

(* take_lock.  Where the home was moved away there is nothing to lock; a   *)
(* migration that asks whether the home is held holds it for that long.    *)
Locks(w, d) == lock' = [lock EXCEPT ![d] = w] /\ Filled(d) /\ Goes(w, "locked") /\ UNCHANGED <<home, pack, mine>>

\* Mutant: the lock is taken whoever has it.
WriterLocksAnyway(w) ==
  /\ proc[w] = "made"
  /\ \/ DirAt(home[w]) # Absent /\ Locks(w, DirAt(home[w])) /\ UNCHANGED upset
     \/ DirAt(home[w]) = Absent /\ Exit(w) /\ upset' = TRUE /\ UNCHANGED <<holds, lock>>
  /\ UNCHANGED <<at, token, port, seats>>

WriterLocks(w) ==
  /\ proc[w] = "made"
  /\ LET d == DirAt(home[w]) IN
     \/ d # Absent /\ lock[d] \in {Nobody, NoFile} /\ Locks(w, d) /\ UNCHANGED upset
     \/ d # Absent /\ lock[d] \in Writer /\ Exit(w) /\ UNCHANGED <<holds, lock, upset>>
     \/ d # Absent /\ lock[d] \in Seat /\ Exit(w) /\ upset' = TRUE /\ UNCHANGED <<holds, lock>>
     \/ d = Absent /\ Exit(w) /\ upset' = TRUE /\ UNCHANGED <<holds, lock>>
  /\ UNCHANGED <<at, token, port, seats>>

(* create_dir_all makes the home again where it is gone, and the database  *)
(* is opened in what is there: not always what was locked.                 *)
WriterOpens(w) ==
  /\ proc[w] = "locked"
  /\ Make(w) /\ Filled(Made(w)) /\ Goes(w, "open")
  /\ pack' = [pack EXCEPT ![w] = Made(w)]
  /\ UNCHANGED <<lock, token, port, home, mine, seats, upset>>

LetGo(p) == lock' = [d \in Dirs |-> IF lock[d] = p THEN Nobody ELSE lock[d]]

(* ensure_token: the token in the home, else a fresh one written there.    *)
WriterReadsToken(w) ==
  /\ proc[w] = "open"
  /\ Make(w)
  /\ mine' = [mine EXCEPT ![w] = token[Made(w)]]
  /\ Goes(w, IF token[Made(w)] # 0 THEN "token" ELSE "fresh")
  /\ UNCHANGED <<holds, lock, token, port, home, pack, seats, upset>>

FreshToken == CHOOSE t \in Tokens : t \notin {token[d] : d \in Dirs} \cup {mine[v] : v \in Writer}

WriterTokens(w) ==
  /\ proc[w] = "fresh"
  /\ LET d == DirAt(home[w]) IN
     \/ /\ d # Absent
        /\ \E t \in Tokens :
             /\ t = FreshToken
             /\ token' = [token EXCEPT ![d] = t]
             /\ mine' = [mine EXCEPT ![w] = t]
        /\ Filled(d) /\ Goes(w, "token")
        /\ UNCHANGED <<lock, home, pack, upset>>
     \/ d = Absent /\ Exit(w) /\ LetGo(w) /\ upset' = TRUE /\ UNCHANGED <<holds, token>>
  /\ UNCHANGED <<at, port, seats>>

WriterBinds(w) ==
  /\ proc[w] = "token"
  /\ IF Listening
     THEN Exit(w) /\ LetGo(w) /\ UNCHANGED port
     ELSE /\ port' = w
          /\ proc' = [proc EXCEPT ![w] = "listens"]
          /\ UNCHANGED <<home, pack, mine, lock>>
  /\ UNCHANGED <<at, holds, token, seats, upset>>

(* No handler is set: a signal, like a crash, ends the process there.      *)
Ends(w) ==
  /\ Exit(w) /\ LetGo(w)
  /\ port' = IF port = w THEN Nobody ELSE port
  /\ upset' = TRUE

WriterDies(w) ==
  /\ proc[w] # "exited"
  /\ Ends(w)
  /\ UNCHANGED <<at, holds, token, seats>>

(* Another program takes the port, or leaves it.                           *)
PortTaken ==
  /\ port = Nobody
  /\ port' = Other /\ upset' = TRUE
  /\ UNCHANGED <<disk, proc, home, pack, mine, seats>>

PortLeft ==
  /\ port = Other
  /\ port' = Nobody
  /\ UNCHANGED <<disk, proc, home, pack, mine, seats, upset>>

-----------------------------------------------------------------------------
To(s, step) ==
  /\ doing' = [doing EXCEPT ![s] = step]
  /\ ended' = [ended EXCEPT ![s] = "not"]
End(s, how) ==
  /\ doing' = [doing EXCEPT ![s] = "idle"]
  /\ ended' = [ended EXCEPT ![s] = how]

Verb(s) ==
  /\ doing[s] = "idle"
  /\ \E verb \in {"ensure", "stop"} \cup (IF Migrates THEN {"migrate"} ELSE {}) : To(s, verb)
  /\ UNCHANGED <<disk, procs, child, upset>>

(* ensure, and the start in it: one probe of the port decides each.        *)
Ensure(s) ==
  /\ doing[s] = "ensure"
  /\ IF Listening THEN IF Ours THEN To(s, "health") ELSE End(s, "failed") ELSE To(s, "start")
  /\ UNCHANGED <<disk, procs, child, upset>>

Spawn(s, w) ==
  /\ proc[w] = "exited"
  /\ \A t \in Seat : child[t] # w
  /\ proc' = [proc EXCEPT ![w] = "started"]
  /\ child' = [child EXCEPT ![s] = w]
  /\ To(s, "poll")

Start(s) ==
  /\ doing[s] = "start"
  /\ IF Listening
     THEN (IF Ours THEN To(s, "health") ELSE End(s, "failed")) /\ UNCHANGED <<proc, child>>
     ELSE \E w \in Writer : Spawn(s, w)
  /\ UNCHANGED <<disk, port, home, pack, mine, upset>>

(* The wait for the port: whoever listens will do; a child that exited is  *)
(* waited past, since the writer of another seat may be coming up.         *)
Up(s, next) ==
  /\ Listening
  /\ To(s, next)
  /\ child' = [child EXCEPT ![s] = Nobody]
  /\ UNCHANGED <<disk, procs, upset>>

\* Mutant: a child that exited is the end of it.
PollOnce(s) ==
  /\ doing[s] = "poll"
  /\ \/ Up(s, "health")
     \/ /\ ~Listening /\ proc[child[s]] = "exited"
        /\ End(s, "failed")
        /\ child' = [child EXCEPT ![s] = Nobody]
        /\ UNCHANGED <<disk, procs, upset>>

Poll(s) ==
  /\ doing[s] = "poll"
  /\ \/ Up(s, "health")
     \/ /\ ~Listening /\ proc[child[s]] = "exited"
        /\ To(s, "sibling")
        /\ UNCHANGED <<disk, procs, child, upset>>

Sibling(s) == doing[s] = "sibling" /\ Up(s, "health")

Health(s) ==
  /\ doing[s] = "health" /\ Ours
  /\ End(s, "up")
  /\ UNCHANGED <<disk, procs, child, upset>>

(* STARTUP is over.  A start takes less than that, so no writer is on its  *)
(* way up by then.                                                         *)
Deadline(s) ==
  /\ \/ doing[s] \in {"poll", "sibling"} /\ ~Listening
     \/ doing[s] = "health" /\ ~Ours
  /\ \A w \in Writer : proc[w] \in {"listens", "exited"}
  /\ End(s, "failed")
  /\ child' = [child EXCEPT ![s] = Nobody]
  /\ UNCHANGED <<disk, procs, upset>>

(* stop: is it ours, who is it, signal it, wait for the port.              *)
Stop(s) ==
  /\ doing[s] = "stop"
  /\ IF Ours THEN To(s, "signal") ELSE End(s, "down")
  /\ UNCHANGED <<disk, procs, child, upset>>

Signal(s) ==
  /\ doing[s] = "signal"
  /\ IF port \in Writer
     THEN Ends(port) /\ To(s, "free")
     ELSE /\ IF port = Other THEN To(s, "free") ELSE End(s, "down")
          /\ port' = Nobody
          /\ UNCHANGED <<lock, proc, home, pack, mine, upset>>
  /\ UNCHANGED <<at, holds, token, child>>

Free(s) ==
  /\ doing[s] = "free"
  /\ End(s, IF Listening THEN "failed" ELSE "down")   \* after ten seconds at most
  /\ UNCHANGED <<disk, procs, child, upset>>

-----------------------------------------------------------------------------
(* migrate-home: is a writer listening, is the old home held (asked by     *)
(* taking its lock and letting go of it), the checks, then the rename and  *)
(* the link, which are two calls.                                          *)
Migrate(s) ==
  /\ doing[s] = "migrate"
  /\ IF Ours THEN End(s, "failed") ELSE To(s, "probe")
  /\ UNCHANGED <<disk, procs, child, upset>>

Probe(s) ==
  /\ doing[s] = "probe"
  /\ LET d == DirAt("old")  was == IF d = Absent THEN NoFile ELSE lock[d] IN
     \/ was = NoFile /\ To(s, "move") /\ UNCHANGED lock
     \/ was = Nobody /\ To(s, "probed") /\ lock' = [lock EXCEPT ![d] = s]
     \/ was \in Writer \cup Seat /\ End(s, "failed") /\ UNCHANGED lock
  /\ UNCHANGED <<at, holds, token, procs, child, upset>>

Probed(s) ==
  /\ doing[s] = "probed"
  /\ LetGo(s) /\ To(s, "move")
  /\ UNCHANGED <<at, holds, token, procs, child, upset>>

Move(s) ==
  /\ doing[s] = "move"
  /\ IF ~IsVacant("new") \/ at["old"] \in {Absent, Link}
     THEN End(s, "failed") /\ UNCHANGED at
     ELSE at' = [at EXCEPT !["new"] = at["old"], !["old"] = Absent] /\ To(s, "link")
  /\ UNCHANGED <<holds, lock, token, procs, child, upset>>

LinkOld(s) ==
  /\ doing[s] = "link"
  /\ IF at["old"] = Absent
     THEN at' = [at EXCEPT !["old"] = Link] /\ End(s, "down")
     ELSE UNCHANGED at /\ End(s, "failed")
  /\ UNCHANGED <<holds, lock, token, procs, child, upset>>

-----------------------------------------------------------------------------
(* An old pack, with no new home or an empty one; or a new one.            *)
Init ==
  /\ \E full, empty \in Dirs :
       /\ full # empty
       /\ full = CHOOSE d \in Dirs : TRUE
       /\ empty = CHOOSE d \in Dirs \ {full} : TRUE
       /\ at \in {[p \in Paths |-> IF p = "old" THEN full ELSE Absent],
                  [p \in Paths |-> IF p = "old" THEN full ELSE empty],
                  [p \in Paths |-> IF p = "new" THEN full ELSE Absent]}
       /\ holds = [d \in Dirs |-> IF d = full THEN "memories" ELSE "nothing"]
  /\ lock = [d \in Dirs |-> IF holds[d] = "memories" THEN Nobody ELSE NoFile]
  /\ token = [d \in Dirs |-> 0]
  /\ port = Nobody
  /\ proc = [w \in Writer |-> "exited"]
  /\ home = [w \in Writer |-> Absent]
  /\ pack = [w \in Writer |-> Absent]
  /\ mine = [w \in Writer |-> 0]
  /\ doing = [s \in Seat |-> "idle"]
  /\ child = [s \in Seat |-> Nobody]
  /\ ended = [s \in Seat |-> "not"]
  /\ upset = FALSE

WriterStep(w) ==
  \/ WriterResolves(w) \/ WriterMakesHome(w) \/ WriterLocks(w) \/ WriterOpens(w)
  \/ WriterReadsToken(w) \/ WriterTokens(w) \/ WriterBinds(w)
SeatStep(s) ==
  \/ Ensure(s) \/ Start(s) \/ Poll(s) \/ Sibling(s) \/ Health(s) \/ Deadline(s)
  \/ Stop(s) \/ Signal(s) \/ Free(s)
  \/ Migrate(s) \/ Probe(s) \/ Probed(s) \/ Move(s) \/ LinkOld(s)

Next ==
  \/ \E w \in Writer : WriterStep(w) \/ WriterDies(w)
  \/ \E s \in Seat : Verb(s) \/ SeatStep(s)
  \/ PortTaken \/ PortLeft

(* A writer that started goes on, and so does a verb.  Nobody need give    *)
(* one, and nothing need die.                                              *)
Spec ==
  /\ Init /\ [][Next]_vars
  /\ \A w \in Writer : WF_vars(WriterStep(w))
  /\ \A s \in Seat : WF_vars(SeatStep(s))

-----------------------------------------------------------------------------
Starting == {"resolved", "made", "locked", "open", "fresh", "token"}
Waiting  == {"ensure", "start", "poll", "sibling", "health", "stop", "signal", "free"}
Moving   == {"migrate", "probe", "probed", "move", "link"}

TypeOK ==
  /\ at \in [Paths -> Dirs \cup {Link, Absent}] /\ at["new"] # Link
  /\ holds \in [Dirs -> {"nothing", "memories", "fresh"}]
  /\ lock \in [Dirs -> Writer \cup Seat \cup {Nobody, NoFile}]
  /\ token \in [Dirs -> {0} \cup Tokens]
  /\ port \in Writer \cup {Other, Nobody}
  /\ proc \in [Writer -> Starting \cup {"started", "listens", "exited"}]
  /\ home \in [Writer -> Paths \cup {Absent}]
  /\ pack \in [Writer -> Dirs \cup {Absent}]
  /\ mine \in [Writer -> {0} \cup Tokens]
  /\ ended \in [Seat -> {"not", "up", "down", "failed"}]
  /\ child \in [Seat -> Writer \cup {Nobody}]
  /\ upset \in BOOLEAN
  /\ doing \in [Seat -> {"idle"} \cup Waiting \cup Moving]
  /\ \A s \in Seat : doing[s] = "poll" => child[s] # Nobody

(* The database with the memories is open in the writer that has the lock  *)
(* beside it and in no other, however many seats start one and whatever is *)
(* moved between the lock and the open (store.rs, open: "the contract is   *)
(* that no other process writes it, which the lock above is what enforces").*)
MemoriesHaveOneWriter ==
  \A w \in Writer : pack[w] # Absent /\ holds[pack[w]] = "memories" => lock[pack[w]] = w

(* Two writers have a pack open only where one of them has the memories    *)
(* locked, was overtaken by a migration and opened a home it made itself:  *)
(* no start, stop or death alone brings two writers together.              *)
TwoOnlyOvertaken ==
  \A v, w \in Writer :
    v # w /\ pack[v] = pack[w] /\ pack[v] # Absent =>
      \E d \in Dirs \ {pack[v]} : holds[d] = "memories" /\ lock[d] \in {v, w}

(* The home a seat finds with nothing set is the one with the memories, at *)
(* every point of a migration and of the starts around it (home.rs: "an    *)
(* upgrade never starts an empty pack beside a full one").                 *)
MemoriesAreFound == DirAt(Resolve) # Absent /\ holds[DirAt(Resolve)] = "memories"

(* A client finds the token of the writer in the home with the memories: a *)
(* writer that lost the race for the lock or the port has not replaced it, *)
(* and a migration takes it along.  A writer that a migration overtook     *)
(* runs on another pack than its path names, and is left out.              *)
TokenIsTheWriters ==
  \A w \in Writer :
    /\ proc[w] \in {"token", "listens"}
    /\ pack[w] = DirAt(home[w]) /\ holds[pack[w]] = "memories"
    => token[pack[w]] = mine[w]

(* What holds of the packs at every point: one writer on the memories, two *)
(* in another home only after a migration, and the token beside the        *)
(* memories is that of their writer.                                       *)
Inv ==
  /\ TypeOK
  /\ MemoriesHaveOneWriter
  /\ TwoOnlyOvertaken
  /\ TokenIsTheWriters

(* Two writers never have one database open (store.rs, take_lock: "One     *)
(* writer per `memory.lmdb`").  The lock and the database are each found   *)
(* by the path, so it is not so once the home was moved in between.        *)
OneWriterPerPack ==
  \A v, w \in Writer : pack[v] = pack[w] /\ pack[v] # Absent => v = w

(* Seats that call ensure at once all find a writer up, though all but one *)
(* of the writers they started exit, unless a writer is stopped or dies,   *)
(* the port goes to another program or a migration is in the way (main.rs, *)
(* start: "A writer listening on our port is the outcome asked for,        *)
(* whichever process it is").                                              *)
HerdComesUp == \A s \in Seat : doing[s] = "start" ~> (doing[s] = "idle" /\ ended[s] = "up") \/ upset
=============================================================================
