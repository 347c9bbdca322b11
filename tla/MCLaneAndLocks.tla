--------------------------- MODULE MCLaneAndLocks ---------------------------
(***************************************************************************)
(* What a request may have to wait for in the writer: a worker and a slot  *)
(* of the dear lane (DearLane), then the locks of the store's caches       *)
(* (StoreLocks).  The two share no variable: one moves while the other is  *)
(* as it started.                                                          *)
(***************************************************************************)
EXTENDS DearLane, StoreLocks, TLC

Symmetry ==
  Permutations(Threads) \cup Permutations(Names)

NoRequestYet == \A c \in Conns : request[c] = None

MCInit == Init /\ LocksInit
MCNext ==
  \/ LocksInit /\ Next /\ UNCHANGED lockVars
  \/ NoRequestYet /\ LocksNext /\ UNCHANGED vars
MCSpec == MCInit /\ [][MCNext]_<<vars, lockVars>>
=============================================================================
