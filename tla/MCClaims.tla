------------------------------ MODULE MCClaims ------------------------------
(***************************************************************************)
(* The life of the claims and their proposals, the links of the live ones, *)
(* and the file of the proposals.  The three share nothing: one moves      *)
(* while the others are as they started.                                   *)
(***************************************************************************)
EXTENDS AtomLife, LinkGraph, ProposalLog, TLC

CONSTANTS i1, i2

(* Three spellings of one claim: a text, a rewrite of it, and another      *)
(* object under its head.  "Rust" is a name.                               *)
First   == <<"the", "Rust", "build", "is", "slow">>
Rewrite == <<"the", "Rust", "build", "is", "fast">>

MCNames == {"Rust"}
MCFlagged == [invisible |-> {}, secret |-> {"slow"}, injection |-> {}]

MCPosts == {
  [text |-> First, origin |-> "agent-derived"],
  [text |-> Rewrite, hook |-> TRUE, basis |-> "person"],
  [text |-> First, set |-> "s"],
  [text |-> First, kind |-> "message", pinned |-> TRUE]}

MCEdits == {
  [text |-> Rewrite],
  [origin |-> "user-declared"],
  [origin |-> "external", closed |-> TRUE]}

MCMined == {First}

Order == <<1, 3, 2, 4>>
MCTie(p, q) == (7 * p[1] + Order[p[2]]) % 5 < (7 * q[1] + Order[q[2]]) % 5
MCAbouts == {{"x"}, {"x", "y"}}

Symmetry == Permutations(Ids)

ClaimsRest == calls = 0 /\ hold /\ ~shaped /\ ~swept /\ call = Idle
LinksRest  == stored = {}
LogRest    == log = <<>> /\ told = {} /\ kept = {} /\ stops = 0 /\ \A t \in Clerks : clerk[t].pc = "rest"

MCInit == Init /\ LinksInit /\ LogInit
MCNext ==
  \/ LinksRest /\ LogRest /\ Next
     /\ UNCHANGED <<linkVars, logVars>>
  \/ ClaimsRest /\ LogRest /\ LinksNext
     /\ UNCHANGED <<vars, logVars>>
  \/ ClaimsRest /\ LinksRest /\ LogNext
     /\ UNCHANGED <<vars, linkVars>>
MCSpec == MCInit /\ [][MCNext]_<<vars, linkVars, logVars>>
=============================================================================
