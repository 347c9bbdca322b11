------------------------------ MODULE MCSearch ------------------------------
(* What a search reads, what it draws from that, how its ballots become an *)
(* answer, and the graph beside it: four machines that share nothing, so   *)
(* one moves while the others are as they started.                         *)
EXTENDS LiveIndex, Recall, Fusion, Islands

MCTexts == {<<"a">>, <<"a", "b">>}
MCLinks == {{1}, {2, 3}}
MCTwins == {{1, 2}, {3, 4}}
MCOlds  == {{}, {1}}
MCSeeds == {{1}, {1, 2}}

MCWorth == <<2, 1, 2, 2>>
MCTrust == <<1, 1, 2, 1>>
MCRecency == <<1, 0, 0, 1>>
MCName == <<3, 1, 4, 2>>
MCWebs == {{}, {<<1, 3>>, <<3, 1>>, <<2, 4>>, <<4, 2>>}}

NoIndex   == writes = 0 /\ snap = None
NoSearch  == ask.limit = 0
NoIslands == phase = "linking" /\ \A pair \in Pairs : wire[pair] = 0
NoRecall  == asking = NoAsk /\ Bare(pack)

Init == IndexInit /\ RecallInit /\ FusionInit /\ IslandsInit

Next ==
  \/ NoRecall /\ NoSearch /\ NoIslands /\ IndexNext /\ UNCHANGED <<recallVars, fusionVars, islandsVars>>
  \/ NoIndex /\ NoSearch /\ NoIslands /\ RecallNext /\ UNCHANGED <<indexVars, fusionVars, islandsVars>>
  \/ NoIndex /\ NoRecall /\ NoIslands /\ FusionNext /\ UNCHANGED <<indexVars, recallVars, islandsVars>>
  \/ NoIndex /\ NoRecall /\ NoSearch /\ IslandsNext /\ UNCHANGED <<indexVars, recallVars, fusionVars>>

(* The index keeps its types, an answer is whole, and the islands are      *)
(* apart and known by their shape.                                         *)
SearchInv == IndexTypeOK /\ AnswerIsWhole /\ IslandsAreApart /\ SignatureIsTheShape

=============================================================================
