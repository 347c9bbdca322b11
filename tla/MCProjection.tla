---------------------------- MODULE MCProjection ----------------------------
(* Projection on small sets, for TLC. *)
EXTENDS Projection

One == {{1}}   \* one query, whose word the one atom holds
=============================================================================
