----------------------------- MODULE MCTraining -----------------------------
(* The training gate on a small instance: documents are numbers, and odd   *)
(* attempts draw the smallest of the pool, even ones the largest; users   *)
(* are interchangeable, and so are questions.                              *)
EXTENDS Training, TLC

CONSTANTS q1, q2

Smallest(pool, n) == {d \in pool : Cardinality({e \in pool : e < d}) < n}
Largest(pool, n)  == {d \in pool : Cardinality({e \in pool : e > d}) < n}

Sample == [a \in 1..MaxAttemptId |-> [pool \in SUBSET Doc |->
             IF a % 2 = 1 THEN Smallest(pool, GOLD_DOC_COUNT) ELSE Largest(pool, GOLD_DOC_COUNT)]]

Symmetry == Permutations(User) \cup Permutations(Question)

Docs == 1..4
BaseDocs == 1..2
UnderscoredDocs == {4}
=============================================================================
