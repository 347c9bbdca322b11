----------------------------- MODULE PackStore -----------------------------
(***************************************************************************)
(* What the record store promises its readers, with no cache in sight: a   *)
(* database per committed write, in commit order, and reads that answer    *)
(* with one of them.  A read answers with a state no older than the last   *)
(* write answered before it was asked, and never with a mixture.           *)
(***************************************************************************)
EXTENDS Naturals, Sequences

CONSTANTS Workspaces, Docs, Clients, None

VARIABLES
    versions,   \* the committed databases, oldest first
    answered,   \* how many of them a writer has been told of
    calls       \* the read each client has outstanding

vars == <<versions, answered, calls>>

Call(w, n, docs) == [ws |-> w, since |-> n, docs |-> docs]

Init ==
    /\ \E db \in [Workspaces -> Docs] : versions = <<db>>
    /\ answered = 0
    /\ calls = [c \in Clients |-> None]

Ask(c, w) ==
    /\ calls[c] = None
    /\ calls' = [calls EXCEPT ![c] = Call(w, answered, None)]
    /\ UNCHANGED <<versions, answered>>

Answer(c) ==
    /\ calls[c] # None
    /\ (calls[c]).docs = None
    /\ \E k \in (calls[c].since + 1)..Len(versions) :
          calls' = [calls EXCEPT ![c] = Call(calls[c].ws, calls[c].since,
                                             versions[k][calls[c].ws])]
    /\ UNCHANGED <<versions, answered>>

Leave(c) ==
    /\ calls[c] # None
    /\ (calls[c]).docs # None
    /\ calls' = [calls EXCEPT ![c] = None]
    /\ UNCHANGED <<versions, answered>>

\* One workspace changes, durably; its writer is not told yet.
Store(w, docs) ==
    /\ versions' = Append(versions, [versions[Len(versions)] EXCEPT ![w] = docs])
    /\ UNCHANGED <<answered, calls>>

Acknowledge ==
    /\ answered' = Len(versions) - 1
    /\ UNCHANGED <<versions, calls>>

Next ==
    \/ \E c \in Clients : \/ \E w \in Workspaces : Ask(c, w)
                          \/ Answer(c)
                          \/ Leave(c)
    \/ \E w \in Workspaces : \E docs \in Docs : Store(w, docs)
    \/ Acknowledge

Spec == Init /\ [][Next]_vars
=============================================================================
