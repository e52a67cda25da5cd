---------------------------- MODULE MCLiveViews ----------------------------
(* Two users: the one whose page is watched, who may hold a connection the *)
(* page has given up, and one with two connections.                        *)
EXTENDS LiveViews, TLC

CONSTANTS u1, u2, p1, p2, o1, o2

MCOwnerOf == (p1 :> u1) @@ (p2 :> u1) @@ (o1 :> u2) @@ (o2 :> u2)

\* A sort column with a NULL.
MCKey == (1 :> Null) @@ (2 :> 5)

\* A failing request may take the place of a second write.
MCFeedBudgets == {[writes |-> 2, connects |-> 1, locks |-> 0, failures |-> 0],
                  [writes |-> 1, connects |-> 1, locks |-> 0, failures |-> 1]}
MCRosterBudget == [writes |-> 0, connects |-> 4, locks |-> 1, failures |-> 0]

MCWatched == {Nil, "new", "review", "verified"}
=============================================================================
