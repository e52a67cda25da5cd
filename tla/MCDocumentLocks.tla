-------------------------- MODULE MCDocumentLocks --------------------------
(* DocumentLocks on a small instance: users are interchangeable.           *)
EXTENDS DocumentLocks, TLC

Symmetry == Permutations(User)
=============================================================================
