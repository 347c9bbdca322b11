------------------------------ MODULE DearLane ------------------------------
(***************************************************************************)
(* How packsetd admits requests: the accept loop, the bounded queue behind *)
(* it, the fixed pool of workers, and the lane that keeps searches and     *)
(* writes (the dear requests) to fewer workers than there are, so that a   *)
(* cheap request still finds one.                                          *)
(*                                                                         *)
(* A dear request that finds every slot taken is parked, and its worker    *)
(* goes back to the queue.  A worker that finishes a dear request takes    *)
(* the oldest parked one with the slot it holds, or gives the slot up.     *)
(* The queue, the lane and the accept loop each change in one step here,   *)
(* because each is a channel operation or runs under the lane's mutex.     *)
(***************************************************************************)
EXTENDS Naturals, FiniteSets, SequencesExt

CONSTANTS
    Conns,        \* connections; an answered one may be opened again
    Workers,      \* the worker threads that started
    Slots,        \* how many were asked for
    Room,         \* the queue argument of serve
    Sizes,        \* how long a body may be
    BodyCap,      \* PARKED_BODY_CAP, which is MAX_BODY
    Descriptors,  \* how many connections the process may hold
    None

ASSUME LaneAssumption ==
    /\ Slots \in Nat \ {0}
    /\ IsFiniteSet(Workers) /\ Cardinality(Workers) <= Slots
    /\ Room \in Nat \ {0}
    /\ BodyCap \in Nat /\ Sizes \subseteq 0..BodyCap
    /\ Descriptors \in Nat \ {0}
    /\ None \notin Conns
    /\ None \notin [kind : {"cheap", "refused", "dear"}, body : 0..BodyCap]

VARIABLES
    backlog,       \* connections the kernel holds for accept
    queue,         \* accepted, waiting for a worker
    shedding,      \* the connection the accept loop is turning away
    pc,            \* where each worker is
    serving,       \* the connection each worker holds
    in_flight,     \* Lane::in_flight
    parked,        \* Lane::parked
    parked_bytes,  \* Lane::parked_bytes
    request,       \* what each connection asks for
    closed,        \* connections whose client left while they waited
    ends           \* history: what the request came to, so far

lane == <<in_flight, parked, parked_bytes>>
vars == <<backlog, queue, shedding, pc, serving, in_flight, parked,
          parked_bytes, request, closed, ends>>

-----------------------------------------------------------------------------
\* A request that is read whole is cheap or dear; one that is not (refused
\* by a status, or gone before it was sent) never runs.
Requests ==
    [kind : {"cheap", "refused"}, body : {0}] \cup [kind : {"dear"}, body : Sizes]

Pcs == {"recv", "read", "begin", "check", "run", "end"}

\* One worker stays out of dear work when there is more than one.
dear_limit == IF Slots = 1 THEN 1 ELSE Slots - 1

Body(c) == request[c].body

IsCheap(c) == request[c].kind = "cheap"

park_body(c) == Len(parked) < Room /\ parked_bytes + Body(c) <= BodyCap

Served == {serving[a] : a \in Workers} \ {None}

\* Connections that cost a descriptor.
Open == ToSet(queue) \cup ToSet(parked) \cup Served \cup ({shedding} \ {None})

Away(c) == c \notin Open \cup ToSet(backlog)

Came(c, what) == ends' = [ends EXCEPT ![c] = Append(@, what)]

\* A worker goes to a step with a connection, or with none.
Step(a, step, c) ==
    /\ pc' = [pc EXCEPT ![a] = step]
    /\ serving' = [serving EXCEPT ![a] = c]

Init ==
    /\ backlog = <<>> /\ queue = <<>>
    /\ shedding = None
    /\ pc = [a \in Workers |-> "recv"]
    /\ serving = [a \in Workers |-> None]
    /\ in_flight = 0 /\ parked = <<>> /\ parked_bytes = 0
    /\ request = [c \in Conns |-> None]
    /\ closed = {}
    /\ ends = [c \in Conns |-> <<>>]

-----------------------------------------------------------------------------
(* Clients. *)

Connect(c, r) ==
    /\ Away(c)
    /\ backlog' = Append(backlog, c)
    /\ request' = [request EXCEPT ![c] = r]
    /\ closed' = closed \ {c}
    /\ ends' = [ends EXCEPT ![c] = <<>>]
    /\ UNCHANGED <<queue, shedding, pc, serving, lane>>

\* A client gives up before a worker has looked whether it is still there.
\* Leaving later than that changes nothing the server does.
Leave(c) ==
    /\ \/ c \in ToSet(backlog) \cup ToSet(queue) \cup ToSet(parked)
       \/ \E a \in Workers : serving[a] = c /\ pc[a] \in {"read", "begin", "check"}
    /\ closed' = closed \cup {c}
    /\ UNCHANGED <<backlog, queue, shedding, pc, serving, lane, request, ends>>

-----------------------------------------------------------------------------
(* The accept loop: serve, shed. *)

\* With no descriptor left it sleeps and accepts again.
Accept ==
    /\ shedding = None
    /\ backlog # <<>>
    /\ Cardinality(Open) < Descriptors
    /\ backlog' = Tail(backlog)
    /\ IF Len(queue) < Room
       THEN queue' = Append(queue, Head(backlog)) /\ UNCHANGED shedding
       ELSE shedding' = Head(backlog) /\ UNCHANGED queue
    /\ UNCHANGED <<pc, serving, lane, request, closed, ends>>

\* Told busy by the accept loop itself, within SHED_WAIT.
Shed ==
    /\ shedding # None
    /\ Came(shedding, "busy")
    /\ shedding' = None
    /\ UNCHANGED <<backlog, queue, pc, serving, lane, request, closed>>

-----------------------------------------------------------------------------
(* One worker: work, reply_ran. *)

Take(a) ==
    /\ pc[a] = "recv"
    /\ queue # <<>>
    /\ Step(a, "read", Head(queue))
    /\ queue' = Tail(queue)
    /\ UNCHANGED <<backlog, shedding, lane, request, closed, ends>>

ReadRequest(a) ==
    LET c == serving[a]
    IN  /\ pc[a] = "read"
        /\ request[c].kind # "refused"
        /\ Step(a, IF IsCheap(c) THEN "check" ELSE "begin", c)
        /\ UNCHANGED <<backlog, queue, shedding, lane, request, closed, ends>>

Refuse(a) ==
    LET c == serving[a]
    IN  /\ pc[a] = "read"
        /\ request[c].kind = "refused"
        /\ Came(c, "refused")
        /\ Step(a, "recv", None)
        /\ UNCHANGED <<backlog, queue, shedding, lane, request, closed>>

\* Lane::begin: a free slot is taken,
BeginRun(a) ==
    /\ pc[a] = "begin"
    /\ in_flight < dear_limit
    /\ in_flight' = in_flight + 1
    /\ Step(a, "check", serving[a])
    /\ UNCHANGED <<backlog, queue, shedding, parked, parked_bytes, request,
                   closed, ends>>

\* or the request waits for one and its worker goes back to the queue,
BeginPark(a) ==
    /\ pc[a] = "begin"
    /\ in_flight >= dear_limit
    /\ park_body(serving[a])
    /\ parked' = Append(parked, serving[a])
    /\ parked_bytes' = parked_bytes + Body(serving[a])
    /\ Step(a, "recv", None)
    /\ UNCHANGED <<backlog, queue, shedding, in_flight, request, closed, ends>>

\* or a full lane answers busy.
BeginFull(a) ==
    /\ pc[a] = "begin"
    /\ in_flight >= dear_limit
    /\ ~park_body(serving[a])
    /\ Came(serving[a], "busy")
    /\ Step(a, "recv", None)
    /\ UNCHANGED <<backlog, queue, shedding, lane, request, closed>>

Abandoned(c) == c \in closed

\* Where a worker goes once a request is answered or dropped.
After(c) == IF IsCheap(c) THEN "recv" ELSE "end"

Keep(c) == IF IsCheap(c) THEN None ELSE c

\* reply_ran: a request whose client has gone is not run.
DropAbandoned(a) ==
    LET c == serving[a]
    IN  /\ pc[a] = "check"
        /\ Abandoned(c)
        /\ Came(c, "dropped")
        /\ Step(a, After(c), Keep(c))
        /\ UNCHANGED <<backlog, queue, shedding, lane, request, closed>>

StartRun(a) ==
    /\ pc[a] = "check"
    /\ ~Abandoned(serving[a])
    /\ Step(a, "run", serving[a])
    /\ UNCHANGED <<backlog, queue, shedding, lane, request, closed, ends>>

\* The handler returns, or panics and is answered 500: either way it ran.
\* Its answer is written, or the client stops reading it for IO_TIMEOUT.
Run(a) ==
    LET c == serving[a]
    IN  /\ pc[a] = "run"
        /\ Came(c, "ran")
        /\ Step(a, After(c), Keep(c))
        /\ UNCHANGED <<backlog, queue, shedding, lane, request, closed>>

\* Mutant: the parked job is run and stays parked.
NextParkedStays(a) ==
    /\ pc[a] = "end"
    /\ parked # <<>>
    /\ Step(a, "check", Head(parked))
    /\ UNCHANGED <<backlog, queue, shedding, lane, request, closed, ends>>

\* Lane::end: the oldest parked request keeps the slot,
NextParked(a) ==
    /\ pc[a] = "end"
    /\ parked # <<>>
    /\ Step(a, "check", Head(parked))
    /\ parked' = Tail(parked)
    /\ parked_bytes' = IF Body(Head(parked)) <= parked_bytes
                       THEN parked_bytes - Body(Head(parked)) ELSE 0
    /\ UNCHANGED <<backlog, queue, shedding, in_flight, request, closed, ends>>

\* Mutant: the slot is released whoever is parked.
ReleaseAlways(a) ==
    /\ pc[a] = "end"
    /\ in_flight' = IF in_flight > 0 THEN in_flight - 1 ELSE 0
    /\ Step(a, "recv", None)
    /\ UNCHANGED <<backlog, queue, shedding, parked, parked_bytes, request,
                   closed, ends>>

\* Mutant: the worker leaves and its slot stays taken.
ReleaseLost(a) ==
    /\ pc[a] = "end"
    /\ parked = <<>>
    /\ Step(a, "recv", None)
    /\ UNCHANGED <<backlog, queue, shedding, lane, request, closed, ends>>

\* or the slot is released.
Release(a) ==
    /\ pc[a] = "end"
    /\ parked = <<>>
    /\ in_flight' = IF in_flight > 0 THEN in_flight - 1 ELSE 0
    /\ Step(a, "recv", None)
    /\ UNCHANGED <<backlog, queue, shedding, parked, parked_bytes, request,
                   closed, ends>>

-----------------------------------------------------------------------------
AcceptLoop == Accept \/ Shed

Work(a) ==
    \/ Take(a)
    \/ ReadRequest(a)
    \/ Refuse(a)
    \/ BeginRun(a)
    \/ BeginPark(a)
    \/ BeginFull(a)
    \/ DropAbandoned(a)
    \/ StartRun(a)
    \/ Run(a)
    \/ NextParked(a)
    \/ Release(a)

Next ==
    \/ \E c \in Conns : (\E r \in Requests : Connect(c, r)) \/ Leave(c)
    \/ AcceptLoop
    \/ \E a \in Workers : Work(a)

Spec == Init /\ [][Next]_vars

\* Threads run: a read, a shed and a reply each end by a timeout, and a
\* handler returns.  Clients need not do anything.
FairSpec ==
    /\ Spec
    /\ WF_vars(AcceptLoop)
    /\ \A a \in Workers : WF_vars(Work(a))

-----------------------------------------------------------------------------
TypeOK ==
    /\ backlog \in Seq(Conns) /\ queue \in Seq(Conns) /\ parked \in Seq(Conns)
    /\ shedding \in Conns \cup {None}
    /\ pc \in [Workers -> Pcs]
    /\ serving \in [Workers -> Conns \cup {None}]
    /\ in_flight \in 0..dear_limit
    /\ parked_bytes \in 0..BodyCap
    /\ request \in [Conns -> Requests \cup {None}]
    /\ closed \subseteq Conns
    /\ ends \in [Conns -> Seq({"ran", "busy", "refused", "dropped"})]

\* The workers that hold a slot of the lane.
Holders ==
    {a \in Workers : /\ pc[a] \in {"check", "run", "end"}
                     /\ ~IsCheap(serving[a])}

(***************************************************************************)
(* Lane::in_flight counts the workers in dear work, through every way out  *)
(* of it (an abandoned request, a panic, a slot handed to a parked one);   *)
(* so with every worker started one of several is always left for health,  *)
(* status and listings.                                                    *)
(***************************************************************************)
SlotsAreHeld ==
    /\ in_flight = Cardinality(Holders)
    /\ Slots > 1 /\ Cardinality(Workers) = Slots => Holders # Workers

(***************************************************************************)
(* No request waits in the lane beside a free slot: nothing else would     *)
(* ever wake it, as only a worker that ends a dear request looks there.    *)
(***************************************************************************)
ParkedOnlyWhenFull == parked # <<>> => in_flight = dear_limit

\* The bytes parked from each place of the lane on.
Remaining(left) ==
    /\ left[Len(parked) + 1] = 0
    /\ \A k \in 1..Len(parked) : left[k] = left[k + 1] + Body(parked[k])
    /\ \A j, k \in 1..(Len(parked) + 1) : j <= k => left[k] <= left[j]

(***************************************************************************)
(* The lane's two bounds, on requests and on the bytes of their bodies,    *)
(* and the byte count is the bytes that are there.                         *)
(***************************************************************************)
ParkedIsBounded ==
    /\ Len(parked) <= Room
    /\ \E left \in [1..(Len(parked) + 1) -> 0..BodyCap] :
          Remaining(left) /\ left[1] = parked_bytes

\* Still to be answered, dropped or run.
Pending(c) ==
    \/ c \in ToSet(backlog) \cup ToSet(queue) \cup ToSet(parked) \cup {shedding}
    \/ \E a \in Workers : serving[a] = c /\ pc[a] \in {"read", "begin", "check", "run"}

(***************************************************************************)
(* Every request comes to exactly one end: it is run once, or told it is   *)
(* busy and not run ("none of it ran, so the client may send it again"),   *)
(* or refused, or dropped because its client left.  None is lost between   *)
(* the queue, the lane and the workers, and none is served twice.          *)
(***************************************************************************)
OneEnd ==
    \A c \in Conns :
        Len(ends[c]) = IF request[c] = None \/ Pending(c) THEN 0 ELSE 1

(***************************************************************************)
(* "A write it gave up on is not applied": a request whose client left     *)
(* while it waited anywhere, the lane included, is never run.              *)
(***************************************************************************)
GivenUpNeverRuns == \A c \in closed : ends[c] # <<"ran">>

(***************************************************************************)
(* A connection is in one place: it waits for accept, for a worker or for  *)
(* a slot, or one worker has it, or it is being turned away.               *)
(***************************************************************************)
OnePlace ==
    /\ IsInjective(backlog) /\ IsInjective(queue) /\ IsInjective(parked)
    /\ \A a, b \in Workers : serving[a] = serving[b] /\ a # b => serving[a] = None
    /\ ToSet(backlog) \cap (ToSet(queue) \cup ToSet(parked) \cup Served \cup {shedding}) = {}
    /\ ToSet(queue) \cap (ToSet(parked) \cup Served \cup {shedding}) = {}
    /\ ToSet(parked) \cap (Served \cup {shedding}) = {}
    /\ shedding \notin Served

\* What a worker has in hand fits where it is, and what waits for a slot or
\* holds one is dear.
AtHand ==
    /\ \A a \in Workers :
          /\ serving[a] = None <=> pc[a] = "recv"
          /\ pc[a] \in {"begin", "end"} => request[serving[a]].kind = "dear"
          /\ pc[a] \in {"check", "run"} => request[serving[a]].kind # "refused"
          /\ pc[a] = "run" => serving[a] \notin closed
    /\ \A c \in ToSet(parked) : request[c].kind = "dear"
    /\ \A c \in Conns : request[c] = None => Away(c)

(***************************************************************************)
(* What holds in the lane at every point: a connection is in one place,    *)
(* the slots counted are the slots held, a request waits only where none   *)
(* is free, the two bounds, nothing is run for a client that has gone, and *)
(* every request comes to one end.  It is inductive.                       *)
(***************************************************************************)
Inv ==
    /\ TypeOK
    /\ OnePlace
    /\ AtHand
    /\ SlotsAreHeld
    /\ ParkedOnlyWhenFull
    /\ ParkedIsBounded
    /\ GivenUpNeverRuns
    /\ OneEnd

(***************************************************************************)
(* Every connection is answered or dropped each time it comes, whatever    *)
(* other clients do: parked requests are not overtaken forever, and a      *)
(* burst of dear ones does not keep the queue waiting.                     *)
(***************************************************************************)
EveryConnectionEnds == \A c \in Conns : []<>Away(c)
=============================================================================
