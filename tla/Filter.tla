------------------------------- MODULE Filter -------------------------------
(***************************************************************************)
(* What Rust's filter, retain and partition keep of a list.  A recursive   *)
(* function and not SelectSeq, of which the provers know nothing.          *)
(***************************************************************************)
EXTENDS Naturals, Sequences

(* The elements of a sequence that are in `some`, in its order.            *)
Among(seq, some) ==
  LET taken[n \in 0..Len(seq)] ==
        IF n = 0 THEN <<>>
        ELSE IF seq[n] \in some THEN Append(taken[n - 1], seq[n]) ELSE taken[n - 1]
  IN taken[Len(seq)]
=============================================================================
