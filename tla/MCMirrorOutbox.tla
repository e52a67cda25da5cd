--------------------------- MODULE MCMirrorOutbox ---------------------------
(* The outbox on small instances.  `doc` and `work` stand for the corpus   *)
(* that is there from the start: a document and some human work on it.     *)
(* `parent` and `child` are a root row and a row that references it.       *)
EXTENDS MirrorOutbox, TLC

CONSTANTS doc, work, parent, child, v1, v2, p1, p2

MCParent == [r \in Row |-> CASE r = work -> doc
                             [] r = child -> parent
                             [] OTHER -> None]

\* A host numbers processes anew.
HostPid == [p \in Pid |-> IF p = p1 THEN p2 ELSE p1]

Separate == {<<parent>>, <<child>>}
EverySingle == Separate \union {<<doc>>, <<work>>}
=============================================================================
