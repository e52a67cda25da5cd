--------------------------- MODULE MCGamification --------------------------
EXTENDS Gamification, TLC
CONSTANTS ann, bob, d1
MCXp == [r \in Reason |-> CASE r = "save" -> 1 [] r = "review" -> 2
                            [] r = "review_kept" -> 3 [] r = "complete" -> 5]
Symmetry == Permutations(User)
=============================================================================
