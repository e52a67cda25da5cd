----------------------------- MODULE MCAccounts -----------------------------
(* Accounts on a small instance: slots are interchangeable.                *)
EXTENDS Accounts, TLC

CONSTANTS root, ann

Symmetry == Permutations(Slot)
=============================================================================
