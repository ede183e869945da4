------------------------ MODULE MC_GoalConversations ------------------------
(* Instances of GoalConversations: one conversation, or two in one checkout. *)
EXTENDS GoalConversations

CONSTANTS g1, g2

OneConv  == {g1}
TwoConvs == {g1, g2}

\* The two conversations of a safety run are interchangeable.
Alike == Permutations(TwoConvs)
=============================================================================
