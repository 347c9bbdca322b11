------------------------------ MODULE MCSeats ------------------------------
(* Seats on small sets, for TLC. *)
EXTENDS Seats
=============================================================================
