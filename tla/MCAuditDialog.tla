---------------------------- MODULE MCAuditDialog ----------------------------
EXTENDS AuditDialog, TLC

\* Two known laws, and a third that only saving knows; article m3 of the second
\* is never compared.  The texts s and t are alike, u is like neither.
MCSavedNumberOf == [l \in {"N1", "N3"} |-> IF l = "N1" THEN "n1" ELSE "n3"]
MCNumberOf == [l \in {"N1", "N2"} |-> IF l = "N1" THEN "n1" ELSE "n2"]
MCIgnored == {<<"n2", "m3">>}
MCAlike == {{"s", "t"}}

Ref(no, ad, madde, fikra, text) ==
  [no |-> no, ad |-> ad, madde |-> madde, fikra |-> fikra, bent |-> 0, text |-> text]

MCRefs == {
  Ref("n1", None, "m1", 0, "s"),   \* by number
  Ref("n1", "N1", "m1", 0, "u"),   \* the same with another quotation
  Ref("n1", "N1", "m1", 1, "t"),   \* its first paragraph
  Ref(None, "N1", None, 0, "s"),   \* the law as a whole, by name
  Ref("n2", "N2", "m1", 0, "s"),   \* another law
  Ref("n2", None, "m3", 0, "s"),   \* its article that is never compared
  Ref("n1", "N2", "m1", 0, "s")}   \* the number of the one, the name of the other

\* A law by name and an article of it by number: saving drops the first.
MCNamed == Ref(None, "N3", None, 0, "t")
MCArticle == Ref("n3", None, "m1", 0, "t")

\* The model quotes what the annotator quotes as s in another way.
MCModelRefs == {[r EXCEPT !.text = IF @ = "s" THEN "t" ELSE @] : r \in MCRefs}

MCReferences == LET refs == MCRefs \cup MCModelRefs \cup {MCNamed, MCArticle} IN refs \cup {Normal(r) : r \in refs}

SeqsUpTo(S, n) == UNION {[1..k -> S] : k \in 0..n}
\* Every list of up to two, and each set of three in one order.
ListsOf(S) == SeqsUpTo(S, 2) \cup {CHOOSE l \in [1..3 -> T] : {l[1], l[2], l[3]} = T :
                                    T \in {T \in SUBSET S : Cardinality(T) = 3}}
MCLists == {l \in ListsOf(MCRefs) : Deduped(l) = l}
MCPredictions == ListsOf(MCModelRefs)
MCPool == {Ref("n1", "N1", "m1", 1, "t")}
\* A page opened on a law and its article.  One answer is not usable, one is the
\* same and usable, and one agrees with the list as it is compared.
MCOpened == {<<MCNamed, MCArticle>>}
MCNewPage == {<<>>}
MCAnswers == {[refs |-> <<>>, usable |-> FALSE], [refs |-> <<>>, usable |-> TRUE],
              [refs |-> <<MCNamed, MCArticle>>, usable |-> TRUE]}
JobSymmetry == Permutations(Jobs)
=============================================================================
