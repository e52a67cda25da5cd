------------------------------ MODULE Replica ------------------------------
(***************************************************************************)
(* What the mirror promises: an asynchronous replica that trails the local *)
(* database.  Every committed row write joins the lag; the replica takes   *)
(* writes out of the lag oldest first, one row at a time.  So the replica  *)
(* is at every moment a past of the local database, and equal to it when   *)
(* the lag is empty.                                                       *)
(***************************************************************************)
EXTENDS Naturals, Sequences

CONSTANTS
  Row,        \* primary keys of the mirrored tables
  Parent,     \* the row a row references, or None
  Statement,  \* the sequences of rows one transaction writes
  Val,        \* contents of a row
  Seeded,     \* rows that exist at the start
  Initial,    \* their contents
  None        \* no such row

VARIABLES local, mirror, lag, last

replicaVars == <<local, mirror, lag, last>>

RInit ==
  /\ local = [r \in Row |-> IF r \in Seeded THEN Initial ELSE None]
  /\ mirror = local
  /\ lag = [i \in {} |-> None]
  /\ last = 0

\* A transaction commits: its rows join the lag in the order of their
\* statements.
Commit(s, v) ==
  /\ local' = [r \in Row |-> IF \E k \in DOMAIN s : s[k] = r THEN v ELSE local[r]]
  /\ last' = last + Len(s)
  /\ lag' = [i \in DOMAIN lag \union ((last + 1)..(last + Len(s))) |->
               IF i > last THEN [row |-> s[i - last], val |-> v] ELSE lag[i]]
  /\ UNCHANGED mirror

\* The replica takes the oldest write, or skips it when it changes nothing.
Replicate ==
  \E i \in DOMAIN lag :
    /\ \A j \in DOMAIN lag : i <= j
    /\ mirror' = [r \in Row |-> IF r = lag[i].row THEN lag[i].val ELSE mirror[r]]
    /\ lag' = [j \in DOMAIN lag \ {i} |-> lag[j]]
    /\ UNCHANGED <<local, last>>

RNext == (\E s \in Statement, v \in Val \union {None} : Commit(s, v)) \/ Replicate

RSpec == RInit /\ [][RNext]_replicaVars
=============================================================================
