---------------------------- MODULE MCDearLane ----------------------------
(***************************************************************************)
(* The lane, a line from the prompt to its handlers, and what is read of a *)
(* working tree.  The three share nothing: one moves while the others are  *)
(* as they started.  The question asked of the lane allows no symmetry.    *)
(***************************************************************************)
EXTENDS DearLane, Surface, Checkout

Signs == <<"!", "*", "-", "/", "?", "[", "]", "a", "b">>
MCCode == [c \in Range(Signs) |-> <<33, 42, 45, 47, 63, 91, 93, 97, 98>>[CHOOSE i \in DOMAIN Signs : Signs[i] = c]]
MCTrees == SUBSET {<<"a">>, <<"b">>, <<"a", "/", "b">>, <<"b", "/", "a">>, <<"a", "/", "b", "/", "a">>}
MCIgnores ==
  {<<>>, <<<<"b", "/">>, <<"?">>>>} \cup {<<p>> : p \in {<<"a">>, <<"a", "/">>, <<"*", "b">>, <<"b", "/", "*">>}}

NoLine == line = Prompt

MCInit == Init /\ SurfaceInit /\ CheckoutInit

MCNext ==
  \/ NoLine /\ NoJob /\ Next /\ UNCHANGED <<surfaceVars, checkoutVars>>
  \/ Init /\ NoJob /\ SurfaceNext /\ UNCHANGED <<vars, checkoutVars>>
  \/ Init /\ NoLine /\ CheckoutNext /\ UNCHANGED <<vars, surfaceVars>>

(* FairSpec's fairness; a line, or what is read of a tree, need not be     *)
(* answered.                                                               *)
MCSpec ==
  /\ MCInit /\ [][MCNext]_<<vars, surfaceVars, checkoutVars>>
  /\ WF_vars(NoLine /\ NoJob /\ AcceptLoop)
  /\ \A a \in Workers : WF_vars(NoLine /\ NoJob /\ Work(a))
=============================================================================
