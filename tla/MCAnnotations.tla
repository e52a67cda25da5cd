--------------------------- MODULE MCAnnotations ---------------------------
(* Annotations on a small instance: a generic and a specific reference of  *)
(* one law, so that a payload of both is saved as the specific one alone.  *)
EXTENDS Annotations, TLC

CONSTANTS u1, u2, d1, kvk, kvk5, t1, t2

\* The agent reports the specific reference, or fails with the generic one.
MCOutput == {[refs |-> {kvk5}, ok |-> TRUE], [refs |-> {kvk}, ok |-> FALSE]}

MCLaw == [r \in Ref |-> "kvk"]

\* The audit is GREEN when the references agree with the model's.
MCGreen == {c \in Comparison : c.human = c.model}

TextSymmetry == Permutations(Text)
=============================================================================
