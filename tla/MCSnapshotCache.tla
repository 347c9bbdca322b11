-------------------------- MODULE MCSnapshotCache --------------------------
(* SnapshotCache on small sets, for TLC. *)
EXTENDS SnapshotCache, TLC

WorkerSymmetry == Permutations(Workers)

\* Where nothing compares ids.
Symmetry == Permutations(Workers) \cup Permutations(Ids)

=============================================================================
