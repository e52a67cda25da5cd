----------------------------- MODULE LockLease -----------------------------
(***************************************************************************)
(* What the lock service promises its users, without rows, sweeps or       *)
(* handlers: at every moment a document has at most one holder, and it     *)
(* passes from one user to another only through a moment with none.        *)
(***************************************************************************)
CONSTANTS User, Doc, None

VARIABLE holder

Init == holder = [d \in Doc |-> None]

Grant(u, d) ==
  /\ holder[d] = None
  /\ holder' = [holder EXCEPT ![d] = u]

\* Released, taken away, or run out: several leases may end at once.
End(D) ==
  holder' = [d \in Doc |-> IF d \in D THEN None ELSE holder[d]]

Next ==
  \/ \E u \in User, d \in Doc : Grant(u, d)
  \/ \E D \in SUBSET Doc : End(D)

Spec == Init /\ [][Next]_holder
=============================================================================
