--------------------------- MODULE ReferenceAudit ---------------------------
(***************************************************************************)
(* The comparison behind the quality audit: how the references of an       *)
(* annotator and those of the model are reduced to comparable sets         *)
(* (annotations/diff.py, quality/dqcheck_core), which bucket the pair gets *)
(* (router.py) and which rows the panel shows (quality/adapter.py).        *)
(*                                                                         *)
(* A reference is a record of the law's number and name, the article, the  *)
(* paragraph (fikra) and the clause (bent), and the quoted text; None is   *)
(* an absent number, name or article, and 0 an absent paragraph or clause. *)
(* Its fields have passed through ReferenceItem: spelling variants are one *)
(* value.  What that model cannot parse makes the whole prediction         *)
(* unusable (AuditDialog).                                                 *)
(***************************************************************************)
EXTENDS Naturals, Sequences, FiniteSets

CONSTANTS None,
          NumberOf,   \* the laws a comparison knows: from names to numbers
          SavedNumberOf, \* the laws saving knows, another table
          Ignored,    \* <<number, article>> pairs that are never compared
          Alike,      \* the pairs of texts that count as one quotation
          References  \* the references there can be

\* CANONICAL_NO_BY_NAME and CANONICAL_LAW_BY_NO are each other's inverse.
ASSUME KnownLaws == \A a, b \in DOMAIN NumberOf : NumberOf[a] = NumberOf[b] => a = b

\* CANONICAL_LAW_BY_NO, as a set of at most one name.
NamesOf(no) == {a \in DOMAIN NumberOf : NumberOf[a] = no}

NumberFor(r) == IF r.no = None /\ r.ad \in DOMAIN NumberOf THEN NumberOf[r.ad] ELSE r.no

\* A known law given by number or by name alone gets the other of the two.
Normal(r) ==
  LET named == NamesOf(NumberFor(r))
  IN  [r EXCEPT !.no = NumberFor(r),
                !.ad = IF @ = None /\ named # {} THEN CHOOSE a \in named : TRUE ELSE @]

ASSUME KnownReferences ==
  /\ None \notin References
  /\ \A r \in References : r.fikra \in Nat /\ r.bent \in Nat /\ Normal(r) \in References

\* law_identity: the number, or the name of a law without one (None if neither).
Law(r) == IF r.no # None THEN r.no ELSE r.ad
Core(r) == <<r.no, r.ad, r.madde>>
Identity(r) == <<r.no, r.ad, r.madde, r.fikra, r.bent>>

(* Saving: what normalize_references leaves of a list. *)
Specific(r) == r.madde # None \/ r.fikra # 0 \/ r.bent # 0
Family(r) ==
  IF r.no = None /\ r.ad \in DOMAIN SavedNumberOf THEN SavedNumberOf[r.ad] ELSE Law(r)
Cleaned(list) ==
  LET Redundant(r) == /\ ~Specific(r)
                      /\ Family(r) # None
                      /\ \E i \in DOMAIN list : Specific(list[i]) /\ Family(list[i]) = Family(r)
  IN  SelectSeq(list, LAMBDA r : ~Redundant(r))

\* reference_policy: an article that is in every ruling is not compared.
IsIgnored(r) == <<r.no, r.madde>> \in Ignored

(* Comparing: the set of references that represents a list, without those  *)
(* the policy ignores.  The first of several with one identity stands for   *)
(* them all, and a law as a whole only if none of its articles is there.    *)
Compared(list) ==
  LET n == [i \in DOMAIN list |-> Normal(list[i])]
      Kept == {i \in DOMAIN list : ~IsIgnored(n[i])}
      LawLevel(i) == /\ n[i].madde = None
                     /\ \E k \in Kept : n[k].madde # None /\ Law(n[k]) = Law(n[i])
      Repeated(i) == \E k \in Kept : k < i /\ Identity(n[k]) = Identity(n[i])
  IN  {n[i] : i \in {k \in Kept : ~LawLevel(k) /\ ~Repeated(k)}}
Identities(list) == {Identity(r) : r \in Compared(list)}

\* The same text once folded, or one a large enough part of the other.
LooselyEqual(s, t) == {s, t} \in Alike
EvidenceCompatible(s, t) == s = t \/ LooselyEqual(s, t)

\* One number with two names, or one name with two numbers.
Conflicting(refs) ==
  \E r, q \in refs : /\ None \notin {r.no, r.ad, q.no, q.ad}
                     /\ (r.no = q.no) # (r.ad = q.ad)

EvidenceAgrees(human, model) ==
  \A r \in human, q \in model :
     Identity(r) = Identity(q) => EvidenceCompatible(r.text, q.text)

\* route_document for a usable prediction.
Bucket(human, model) ==
  IF \/ Conflicting(human) \/ Conflicting(model)
     \/ {Core(r) : r \in human} # {Core(r) : r \in model}
  THEN "RED"
  ELSE IF \/ {Identity(r) : r \in human} # {Identity(r) : r \in model}
          \/ ~EvidenceAgrees(human, model)
       THEN "YELLOW" ELSE "GREEN"

(* The rows of ab_diff.  Within one article the references only one side has *)
(* are sorted and zipped: two in the same place make one row.               *)
Before(r, q) == r.fikra < q.fikra \/ (r.fikra = q.fikra /\ r.bent < q.bent)
Place(r, refs) == Cardinality({q \in refs : Core(q) = Core(r) /\ Before(q, r)})

Row(kind, human, model) == [kind |-> kind, human |-> human, model |-> model]
\* Mutant: the rows compare quotations letter by letter.
RowCompatibleEqual(s, t) == s = t
RowCompatible(s, t) == EvidenceCompatible(s, t)
RowsOfShared(human, model) ==
  {Row("detail_mismatch", p[1], p[2]) :
     p \in {x \in human \X model : /\ Identity(x[1]) = Identity(x[2])
                                   /\ ~RowCompatible(x[1].text, x[2].text)}}
\* Mutant: an identity counts as exclusive while the other side has more references.
ExclusiveOfGroup(own, other) ==
  {r \in own : \A q \in other : Identity(q) = Identity(r) => Cardinality(other) > 1}
Exclusive(own, other) == {r \in own : \A q \in other : Identity(q) # Identity(r)}
Paired(r, own, refs) ==
  {q \in refs : Core(q) = Core(r) /\ Place(q, refs) = Place(r, own)}
RowsOfExclusive(a, b) ==
  (UNION {{Row("detail_mismatch", r, q) : q \in Paired(r, a, b)} : r \in a})
  \cup {Row("human_only", r, None) : r \in {x \in a : Paired(x, a, b) = {}}}
  \cup {Row("model_only", None, q) : q \in {x \in b : Paired(x, b, a) = {}}}
ABDiff(human, model) ==
  RowsOfShared(human, model)
  \cup RowsOfExclusive(Exclusive(human, model), Exclusive(model, human))

\* audit_references
Audit(human, model) ==
  LET h == Compared(human)
      m == Compared(model)
  IN  [bucket |-> Bucket(h, m), rows |-> ABDiff(h, m)]

-----------------------------------------------------------------------------
(***************************************************************************)
(* What the adapter's docstrings promise of a comparison, for two lists.   *)
(***************************************************************************)

\* The panel has rows exactly when the bucket asks for an acknowledgement, and
\* a row about an article of one side alone exactly when the bucket is RED:
\* diff and bucket come from two algorithms in two files (a list that gives one
\* law two names is RED for that reason alone, whatever the rows).
RowsMatchBucketOf(human, model) ==
  LET h == Compared(human)
      m == Compared(model)
      rows == ABDiff(h, m)
      OneSided(row) == \/ row.kind = "human_only" /\ \A q \in m : Core(q) # Core(row.human)
                       \/ row.kind = "model_only" /\ \A r \in h : Core(r) # Core(row.model)
  IN  ~Conflicting(h) /\ ~Conflicting(m) =>
        /\ (Bucket(h, m) = "GREEN") <=> (rows = {})
        /\ (Bucket(h, m) = "RED") <=> (\E row \in rows : OneSided(row))

\* No suggestion has the identity of a reference the annotator has, other than
\* the one it is set against for its quotation; and nothing that one side has
\* alone is missing from the rows or told twice.
OffersAreNewOf(human, model) ==
  LET h == Compared(human)
      m == Compared(model)
      rows == ABDiff(h, m)
      Same(row) == None \notin {row.human, row.model} /\ Identity(row.human) = Identity(row.model)
  IN  /\ \A row \in rows :
            row.model # None /\ ~Same(row) => Identity(row.model) \notin Identities(human)
      /\ \A q \in m : Identity(q) \notin Identities(human) =>
            Cardinality({row \in rows : row.model = q}) = 1
      /\ \A r \in h : Identity(r) \notin Identities(model) =>
            Cardinality({row \in rows : row.human = r}) = 1
=============================================================================
