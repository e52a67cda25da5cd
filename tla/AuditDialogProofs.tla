-------------------------- MODULE AuditDialogProofs --------------------------
(* Three parts.  The comparison: bucket and rows agree, and the rows tell     *)
(* every reference of one side alone exactly once, for any lists, laws, policy*)
(* and comparison of quotations.  The dialog: an override that nobody pressed *)
(* can only come about in two ways, and a completion is only given up when    *)
(* the prediction was replaced once more, for any                             *)
(* references, predictions, number of concurrent requests and failures.  The  *)
(* panel: in every state it offers to add exactly what the document lacks.    *)
EXTENDS AuditDialog, FiniteSetTheorems, WellFoundedInduction, TLAPS

-----------------------------------------------------------------------------
(* Bucket and rows.                                                        *)

LEMMA IdentityHasCore ==
  ASSUME NEW r, NEW q, Identity(r) = Identity(q)
  PROVE  Core(r) = Core(q)
BY DEF Identity, Core

\* A reference that one side has alone makes a row about it, and only such
\* references do.
LEMMA ExclusiveMakesRows ==
  ASSUME NEW a, NEW b
  PROVE  /\ RowsOfExclusive(a, b) = {} <=> a = {} /\ b = {}
         /\ \A r \in a : Paired(r, a, b) = {} => Row("human_only", r, None) \in RowsOfExclusive(a, b)
         /\ \A q \in b : Paired(q, b, a) = {} => Row("model_only", None, q) \in RowsOfExclusive(a, b)
<1>1. \A r \in a : Paired(r, a, b) = {} => Row("human_only", r, None) \in RowsOfExclusive(a, b)
  BY DEF RowsOfExclusive
<1>2. \A q \in b : Paired(q, b, a) = {} => Row("model_only", None, q) \in RowsOfExclusive(a, b)
  BY DEF RowsOfExclusive
<1>3. ASSUME NEW r \in a, Paired(r, a, b) # {}  PROVE RowsOfExclusive(a, b) # {}
  <2>1. PICK q \in Paired(r, a, b) : TRUE
    BY <1>3
  <2>2. Row("detail_mismatch", r, q) \in RowsOfExclusive(a, b)
    BY <2>1 DEF RowsOfExclusive
  <2>. QED  BY <2>2
<1>4. ASSUME NEW q \in b, Paired(q, b, a) # {}  PROVE RowsOfExclusive(a, b) # {}
  <2>1. PICK r \in Paired(q, b, a) : TRUE
    BY <1>4
  <2>2. r \in a /\ q \in Paired(r, a, b)
    BY <2>1 DEF Paired
  <2>. QED  BY <2>2, <1>3
<1>5. a = {} /\ b = {} => RowsOfExclusive(a, b) = {}
  BY DEF RowsOfExclusive
<1>. QED  BY <1>1, <1>2, <1>3, <1>4, <1>5

LEMMA OneSidedRows ==
  ASSUME NEW h, NEW m, NEW row \in ABDiff(h, m)
  PROVE  /\ row.kind = "human_only" => row.human \in h
         /\ row.kind = "model_only" => row.model \in m
<1>1. ASSUME row \in RowsOfShared(h, m)  PROVE row.kind = "detail_mismatch"
  BY <1>1 DEF RowsOfShared, Row
<1>2. ASSUME NEW a, NEW b, row \in RowsOfExclusive(a, b)
      PROVE  /\ row.kind = "human_only" => row.human \in a
             /\ row.kind = "model_only" => row.model \in b
  <2>1. CASE row \in UNION {{Row("detail_mismatch", r, q) : q \in Paired(r, a, b)} : r \in a}
    BY <2>1 DEF Row
  <2>2. CASE row \in {Row("human_only", r, None) : r \in {x \in a : Paired(x, a, b) = {}}}
    BY <2>2 DEF Row
  <2>3. CASE row \in {Row("model_only", None, q) : q \in {x \in b : Paired(x, b, a) = {}}}
    BY <2>3 DEF Row
  <2>. QED  BY <1>2, <2>1, <2>2, <2>3 DEF RowsOfExclusive
<1>. QED  BY <1>1, <1>2 DEF ABDiff, Exclusive

\* The panel is empty exactly for GREEN and shows an article of one side alone
\* exactly for RED, whatever the two lists, the known laws, the policy and the
\* texts that count as alike (adapter.py, ab_diff; router.py, route_document).
THEOREM RowsAgreeWithBucket ==
  ASSUME NEW human, NEW model
  PROVE  RowsMatchBucketOf(human, model)
<1> DEFINE h == Compared(human)
           m == Compared(model)
           rows == ABDiff(h, m)
           a == Exclusive(h, m)
           b == Exclusive(m, h)
           OneSided(row) == \/ row.kind = "human_only" /\ \A q \in m : Core(q) # Core(row.human)
                            \/ row.kind = "model_only" /\ \A r \in h : Core(r) # Core(row.model)
<1> HIDE DEF h, m
<1> SUFFICES ASSUME ~Conflicting(h), ~Conflicting(m)
             PROVE  /\ (Bucket(h, m) = "GREEN") <=> (rows = {})
                    /\ (Bucket(h, m) = "RED") <=> (\E row \in rows : OneSided(row))
  BY DEF RowsMatchBucketOf, h, m
<1> DEFINE Cores(S) == {Core(r) : r \in S}
           Ids(S) == {Identity(r) : r \in S}
<1>1. Bucket(h, m) = IF Cores(h) # Cores(m) THEN "RED"
                     ELSE IF Ids(h) # Ids(m) \/ ~EvidenceAgrees(h, m) THEN "YELLOW" ELSE "GREEN"
  BY DEF Bucket
<1>2. Ids(h) = Ids(m) <=> a = {} /\ b = {}
  BY DEF Exclusive
<1>3. Ids(h) = Ids(m) => Cores(h) = Cores(m)
  <2> SUFFICES ASSUME Ids(h) = Ids(m)  PROVE Cores(h) = Cores(m)
    OBVIOUS
  <2>1. \A r \in h : \E q \in m : Identity(q) = Identity(r)
    OBVIOUS
  <2>2. \A q \in m : \E r \in h : Identity(q) = Identity(r)
    OBVIOUS
  <2>. QED  BY <2>1, <2>2, IdentityHasCore
<1>4. EvidenceAgrees(h, m) <=> RowsOfShared(h, m) = {}
  <2>1. ASSUME NEW r \in h, NEW q \in m, Identity(r) = Identity(q),
               ~EvidenceCompatible(r.text, q.text)
        PROVE  RowsOfShared(h, m) # {}
    <3>1. <<r, q>> \in {x \in h \X m : /\ Identity(x[1]) = Identity(x[2])
                                       /\ ~RowCompatible(x[1].text, x[2].text)}
      BY <2>1 DEF RowCompatible
    <3>. QED  BY <3>1 DEF RowsOfShared
  <2>2. EvidenceAgrees(h, m) => RowsOfShared(h, m) = {}
    BY DEF EvidenceAgrees, RowsOfShared, RowCompatible
  <2>. QED  BY <2>1, <2>2 DEF EvidenceAgrees
<1>5. rows = {} <=> RowsOfShared(h, m) = {} /\ a = {} /\ b = {}
  BY ExclusiveMakesRows DEF ABDiff
<1>6. (Bucket(h, m) = "GREEN") <=> (rows = {})
  BY <1>1, <1>2, <1>3, <1>4, <1>5
<1>7. ASSUME Cores(h) # Cores(m)  PROVE \E row \in rows : OneSided(row)
  <2>1. CASE \E r \in h : \A q \in m : Core(q) # Core(r)
    <3>1. PICK r \in h : \A q \in m : Core(q) # Core(r)
      BY <2>1
    <3>2. r \in a /\ Paired(r, a, b) = {}
      BY <3>1, IdentityHasCore DEF Exclusive, Paired
    <3>3. Row("human_only", r, None) \in rows
      BY <3>2, ExclusiveMakesRows DEF ABDiff
    <3>. QED  BY <3>1, <3>3 DEF Row
  <2>2. CASE \E q \in m : \A r \in h : Core(r) # Core(q)
    <3>1. PICK q \in m : \A r \in h : Core(r) # Core(q)
      BY <2>2
    <3>2. q \in b /\ Paired(q, b, a) = {}
      BY <3>1, IdentityHasCore DEF Exclusive, Paired
    <3>3. Row("model_only", None, q) \in rows
      BY <3>2, ExclusiveMakesRows DEF ABDiff
    <3>. QED  BY <3>1, <3>3 DEF Row
  <2>. QED  BY <1>7, <2>1, <2>2
<1>8. ASSUME NEW row \in rows, OneSided(row)  PROVE Cores(h) # Cores(m)
  BY <1>8, OneSidedRows
<1>. QED  BY <1>1, <1>6, <1>7, <1>8

-----------------------------------------------------------------------------
(* What the panel offers.                                                  *)

\* A set of references as the comparison makes it.
Comparable(S) ==
  /\ S \subseteq References /\ IsFiniteSet(S)
  /\ \A r, q \in S : Identity(r) = Identity(q) => r = q

LEMMA ComparedIsComparable ==
  ASSUME NEW list \in Seq(References)
  PROVE  Comparable(Compared(list))
<1> DEFINE n == [i \in DOMAIN list |-> Normal(list[i])]
           Kept == {i \in DOMAIN list : ~IsIgnored(n[i])}
           LawLevel(i) == /\ n[i].madde = None
                          /\ \E k \in Kept : n[k].madde # None /\ Law(n[k]) = Law(n[i])
           Repeated(i) == \E k \in Kept : k < i /\ Identity(n[k]) = Identity(n[i])
           Chosen == {k \in Kept : ~LawLevel(k) /\ ~Repeated(k)}
<1>1. Compared(list) = {n[i] : i \in Chosen}
  BY DEF Compared
<1>2. DOMAIN list = 1..Len(list) /\ Len(list) \in Nat /\ Chosen \subseteq DOMAIN list /\ Chosen \subseteq Kept
  OBVIOUS
<1>3. \A i \in DOMAIN list : n[i] \in References
  BY KnownReferences
<1>4. IsFiniteSet(Compared(list))
  <2> HIDE DEF n, Chosen
  <2>1. IsFiniteSet(1..Len(list))
    BY <1>2, FS_Interval
  <2>2. IsFiniteSet(Chosen)
    BY <1>2, <2>1, FS_Subset
  <2> DEFINE f == [i \in Chosen |-> n[i]]
  <2>3. f \in Surjection(Chosen, Compared(list))
    BY <1>1 DEF Surjection
  <2>. QED  BY <2>2, <2>3, FS_Surjection
<1>5. ASSUME NEW i \in Chosen, NEW k \in Chosen, Identity(n[i]) = Identity(n[k])
      PROVE  i = k
  <2>1. i \in Kept /\ k \in Kept /\ ~Repeated(i) /\ ~Repeated(k)
    OBVIOUS
  <2>2. ~(i < k) /\ ~(k < i)
    BY <1>5, <2>1
  <2>. QED  BY <1>2, <2>2
<1> HIDE DEF n, Chosen
<1>6. Compared(list) \subseteq References
  BY <1>1, <1>2, <1>3
<1>. QED  BY <1>1, <1>4, <1>5, <1>6 DEF Comparable

\* Within an article the places are a numbering.
LEMMA PlacesDiffer ==
  ASSUME NEW S, Comparable(S), NEW r \in S, NEW q \in S,
         Core(r) = Core(q), Place(r, S) = Place(q, S)
  PROVE  r = q
<1> DEFINE Up(x) == {y \in S : Core(y) = Core(x) /\ Before(y, x)}
<1>1. \A x \in S : x.fikra \in Nat /\ x.bent \in Nat
  BY KnownReferences DEF Comparable
<1>2. \A x \in S : IsFiniteSet(Up(x)) /\ Place(x, S) = Cardinality(Up(x))
  BY FS_Subset DEF Comparable, Place
<1>3. ASSUME NEW x \in S, NEW y \in S, Core(x) = Core(y), Before(x, y)
      PROVE  Place(x, S) # Place(y, S)
  <2>1. Up(x) \subseteq Up(y)
    BY <1>1, <1>3 DEF Before
  <2>2. x \in Up(y) /\ x \notin Up(x)
    BY <1>1, <1>3 DEF Before
  <2> HIDE DEF Up
  <2>. QED  BY <1>2, <2>1, <2>2, FS_Subset
<1>4. ~Before(r, q) /\ ~Before(q, r)
  BY <1>3
<1>5. r.fikra = q.fikra /\ r.bent = q.bent
  BY <1>1, <1>4 DEF Before
<1>6. Identity(r) = Identity(q)
  BY <1>5 DEF Identity, Core
<1>. QED  BY <1>6 DEF Comparable

LEMMA ExclusiveIsComparable ==
  ASSUME NEW S, NEW T, Comparable(S)
  PROVE  Comparable(Exclusive(S, T))
BY FS_Subset DEF Comparable, Exclusive

\* Every reference of the one side is told once, and likewise of the other.
LEMMA ModelToldOnce ==
  ASSUME NEW h, NEW m, Comparable(h), Comparable(m), NEW q \in Exclusive(m, h)
  PROVE  Cardinality({row \in ABDiff(h, m) : row.model = q}) = 1
<1> DEFINE a == Exclusive(h, m)
           b == Exclusive(m, h)
           told == {row \in ABDiff(h, m) : row.model = q}
<1>0. Comparable(a) /\ Comparable(b)
  BY ExclusiveIsComparable
<1>1. q # None /\ q \in m /\ \A r \in h : Identity(r) # Identity(q)
  BY KnownReferences DEF Exclusive, Comparable
<1>2. ASSUME NEW row \in RowsOfShared(h, m)  PROVE row.model # q
  BY <1>1 DEF RowsOfShared, Row
<1>3. told = {row \in RowsOfExclusive(a, b) : row.model = q}
  BY <1>2 DEF ABDiff
<1> HIDE DEF a, told
<1>4. ASSUME NEW row \in RowsOfExclusive(a, b), row.model = q
      PROVE  \/ Paired(q, b, a) = {} /\ row = Row("model_only", None, q)
             \/ \E r \in Paired(q, b, a) : row = Row("detail_mismatch", r, q)
  <2>1. CASE row \in UNION {{Row("detail_mismatch", r, x) : x \in Paired(r, a, b)} : r \in a}
    <3>1. PICK r \in a : \E x \in Paired(r, a, b) : row = Row("detail_mismatch", r, x)
      BY <2>1
    <3>2. q \in Paired(r, a, b) /\ row = Row("detail_mismatch", r, q)
      BY <1>4, <3>1 DEF Row
    <3>. QED  BY <3>2 DEF Paired
  <2>2. CASE row \in {Row("human_only", r, None) : r \in {x \in a : Paired(x, a, b) = {}}}
    BY <1>1, <1>4, <2>2 DEF Row
  <2>3. CASE row \in {Row("model_only", None, x) : x \in {y \in b : Paired(y, b, a) = {}}}
    BY <1>4, <2>3 DEF Row
  <2>. QED  BY <1>4, <2>1, <2>2, <2>3 DEF RowsOfExclusive
<1>5. CASE Paired(q, b, a) = {}
  <2>1. Row("model_only", None, q) \in RowsOfExclusive(a, b) /\ Row("model_only", None, q).model = q
    BY <1>5, ExclusiveMakesRows DEF Row
  <2>2. told = {Row("model_only", None, q)}
    BY <1>3, <1>4, <1>5, <2>1
  <2>. QED  BY <2>2, FS_Singleton DEF told
<1>6. CASE Paired(q, b, a) # {}
  <2>1. PICK r \in Paired(q, b, a) : TRUE
    BY <1>6
  <2>2. \A x \in Paired(q, b, a) : x = r
    BY <1>0, <2>1, PlacesDiffer DEF Paired
  <2>3. r \in a /\ q \in Paired(r, a, b)
    BY <2>1 DEF Paired
  <2>4. Row("detail_mismatch", r, q) \in RowsOfExclusive(a, b) /\ Row("detail_mismatch", r, q).model = q
    BY <2>3 DEF RowsOfExclusive, Row
  <2>5. told = {Row("detail_mismatch", r, q)}
    BY <1>3, <1>4, <1>6, <2>2, <2>4
  <2>. QED  BY <2>5, FS_Singleton DEF told
<1>. QED  BY <1>5, <1>6

LEMMA HumanToldOnce ==
  ASSUME NEW h, NEW m, Comparable(h), Comparable(m), NEW r \in Exclusive(h, m)
  PROVE  Cardinality({row \in ABDiff(h, m) : row.human = r}) = 1
<1> DEFINE a == Exclusive(h, m)
           b == Exclusive(m, h)
           told == {row \in ABDiff(h, m) : row.human = r}
<1>0. Comparable(a) /\ Comparable(b)
  BY ExclusiveIsComparable
<1>1. r # None /\ r \in h /\ \A q \in m : Identity(q) # Identity(r)
  BY KnownReferences DEF Exclusive, Comparable
<1>2. ASSUME NEW row \in RowsOfShared(h, m)  PROVE row.human # r
  BY <1>1 DEF RowsOfShared, Row
<1>3. told = {row \in RowsOfExclusive(a, b) : row.human = r}
  BY <1>2 DEF ABDiff
<1> HIDE DEF b, told
<1>4. ASSUME NEW row \in RowsOfExclusive(a, b), row.human = r
      PROVE  \/ Paired(r, a, b) = {} /\ row = Row("human_only", r, None)
             \/ \E q \in Paired(r, a, b) : row = Row("detail_mismatch", r, q)
  <2>1. CASE row \in UNION {{Row("detail_mismatch", x, q) : q \in Paired(x, a, b)} : x \in a}
    <3>1. PICK x \in a : \E q \in Paired(x, a, b) : row = Row("detail_mismatch", x, q)
      BY <2>1
    <3>. QED  BY <1>4, <3>1 DEF Row
  <2>2. CASE row \in {Row("human_only", x, None) : x \in {y \in a : Paired(y, a, b) = {}}}
    BY <1>4, <2>2 DEF Row
  <2>3. CASE row \in {Row("model_only", None, q) : q \in {y \in b : Paired(y, b, a) = {}}}
    BY <1>1, <1>4, <2>3 DEF Row
  <2>. QED  BY <1>4, <2>1, <2>2, <2>3 DEF RowsOfExclusive
<1>5. CASE Paired(r, a, b) = {}
  <2>1. Row("human_only", r, None) \in RowsOfExclusive(a, b) /\ Row("human_only", r, None).human = r
    BY <1>5, ExclusiveMakesRows DEF Row
  <2>2. told = {Row("human_only", r, None)}
    BY <1>3, <1>4, <1>5, <2>1
  <2>. QED  BY <2>2, FS_Singleton DEF told
<1>6. CASE Paired(r, a, b) # {}
  <2>1. PICK q \in Paired(r, a, b) : TRUE
    BY <1>6
  <2>2. \A x \in Paired(r, a, b) : x = q
    BY <1>0, <2>1, PlacesDiffer DEF Paired
  <2>3. Row("detail_mismatch", r, q) \in RowsOfExclusive(a, b) /\ Row("detail_mismatch", r, q).human = r
    BY <2>1 DEF RowsOfExclusive, Row
  <2>4. told = {Row("detail_mismatch", r, q)}
    BY <1>3, <1>4, <1>6, <2>2, <2>3
  <2>. QED  BY <2>4, FS_Singleton DEF told
<1>. QED  BY <1>5, <1>6

\* Whatever the lists, the panel offers no reference the annotator has, and
\* tells each reference that one side has alone exactly once (adapter.py,
\* ab_diff: the sorted exclusives are zipped within each article).
THEOREM OffersAreNewForAll ==
  ASSUME NEW human \in Seq(References), NEW model \in Seq(References)
  PROVE  OffersAreNewOf(human, model)
<1> DEFINE h == Compared(human)
           m == Compared(model)
<1>1. Comparable(h) /\ Comparable(m)
  BY ComparedIsComparable
<1>2. Identities(human) = {Identity(r) : r \in h} /\ Identities(model) = {Identity(q) : q \in m}
  BY DEF Identities
<1> HIDE DEF h, m
<1>3. ASSUME NEW q \in m, Identity(q) \notin Identities(human)
      PROVE  Cardinality({row \in ABDiff(h, m) : row.model = q}) = 1
  <2>1. q \in Exclusive(m, h)
    BY <1>2, <1>3 DEF Exclusive
  <2>. QED  BY <1>1, <2>1, ModelToldOnce
<1>4. ASSUME NEW r \in h, Identity(r) \notin Identities(model)
      PROVE  Cardinality({row \in ABDiff(h, m) : row.human = r}) = 1
  <2>1. r \in Exclusive(h, m)
    BY <1>2, <1>4 DEF Exclusive
  <2>. QED  BY <1>1, <2>1, HumanToldOnce
<1>5. ASSUME NEW row \in ABDiff(h, m), row.model # None,
             ~(None \notin {row.human, row.model} /\ Identity(row.human) = Identity(row.model))
      PROVE  Identity(row.model) \notin Identities(human)
  <2>1. row \notin RowsOfShared(h, m)
    <3> SUFFICES ASSUME row \in RowsOfShared(h, m)  PROVE FALSE
      OBVIOUS
    <3>1. row.human \in h /\ row.model \in m /\ Identity(row.human) = Identity(row.model)
      BY DEF RowsOfShared, Row
    <3>. QED  BY <1>1, <1>5, <3>1, KnownReferences DEF Comparable
  <2>2. row \in RowsOfExclusive(Exclusive(h, m), Exclusive(m, h))
    BY <2>1 DEF ABDiff
  <2>3. row.model \in Exclusive(m, h)
    BY <1>5, <2>2 DEF RowsOfExclusive, Row, Paired
  <2>. QED  BY <1>2, <2>3 DEF Exclusive
<1>. QED  BY <1>3, <1>4, <1>5 DEF OffersAreNewOf, h, m

-----------------------------------------------------------------------------
(* The dialog.                                                             *)

IsRecord(r, fields) == DOMAIN r = fields /\ r = [f \in fields |-> r[f]]

Chain(r) ==
  /\ IsRecord(r, {"step", "target", "list", "ack", "attempt", "reply", "consent",
                  "answer", "overtaken"})
  /\ r.step # "free" /\ r.attempt \in Nat

\* The answer to a comparison is about the list that was sent.
Tells(report, list) ==
  /\ report.kind = "report"
  /\ report.ready => report.bucket = Audit(list, report.fp).bucket

\* An acknowledgement comes from a click on the comparison it names, or from a
\* comparison of the list that asked for nothing.
AckIsHis(r) ==
  /\ r.step # "commit" /\ r.reply \notin {None, Error} => Tells(r.reply, r.list)
  /\ r.step = "commit" =>
       \/ r.ack = None
       \/ r.consent = r.ack
       \/ r.answer # None /\ ~Asks(r.answer) /\ r.answer.fp = r.ack /\ Tells(r.answer, r.list)

\* What the second attempt compared is what is there, unless it was overtaken.
RetryIsFresh(r) ==
  ~r.overtaken =>
    /\ r.step = "reaudit" /\ r.reply \notin {None, Error} => r.reply.fp = Fingerprint
    /\ r.step = "commit" /\ r.attempt >= 1 =>
          /\ r.reply = None => r.ack = Fingerprint
          /\ r.reply # Refused

JobOK(r) == r = Idle \/ (Chain(r) /\ AckIsHis(r) /\ RetryIsFresh(r))

PageOK ==
  /\ IsRecord(page, {"list", "phase", "shown", "accepted", "completed", "toast"})
  /\ page.toast # "refused"

IInv ==
  /\ pred = None \/ pred.refs # None
  /\ job = [j \in Jobs |-> job[j]]
  /\ \A j \in Jobs : JobOK(job[j])
  /\ PageOK
  /\ UnpressedOverride

-----------------------------------------------------------------------------
(* The comparison holds in every state, whatever the page and the prediction. *)

\* Whenever the page's list is compared with the stored prediction, bucket and
\* rows agree (adapter.py, ab_diff).
THEOREM PanelMatchesBucket == Spec => []RowsMatchBucket
<1>1. RowsMatchBucket
  BY RowsAgreeWithBucket DEF RowsMatchBucket
<1>. QED  BY <1>1, PTL

-----------------------------------------------------------------------------
LEMMA InitIInv == Init => IInv
<1> SUFFICES ASSUME Init  PROVE IInv
  OBVIOUS
<1>1. pred = None \/ pred.refs # None
  BY NoneIsNoAnswer DEF Init
<1>2. job = [j \in Jobs |-> job[j]] /\ \A j \in Jobs : JobOK(job[j])
  BY DEF Init, JobOK
<1>3. PageOK
  <2>1. PICK list, completed :
          \/ page = [list |-> list, phase |-> "idle", shown |-> None, accepted |-> {},
                     completed |-> completed, toast |-> None]
          \/ page = [list |-> list, phase |-> "away", shown |-> None, accepted |-> {},
                     completed |-> completed, toast |-> None]
    BY DEF Init, OpenedOn
  <2>. QED  BY <2>1, NoneIsNoAnswer DEF PageOK, IsRecord
<1>4. UnpressedOverride
  BY DEF Init, UnpressedOverride
<1>. QED  BY <1>1, <1>2, <1>3, <1>4 DEF IInv

\* A step that leaves the prediction alone and touches one job and the page.
LEMMA OneJob ==
  ASSUME IInv, NEW j \in Jobs, NEW r, job' = [job EXCEPT ![j] = r],
         UNCHANGED pred, JobOK(r)
  PROVE  /\ (pred = None \/ pred.refs # None)'
         /\ (job = [k \in Jobs |-> job[k]])'
         /\ (\A k \in Jobs : JobOK(job[k]))'
<1>1. \A k \in Jobs : job'[k] = IF k = j THEN r ELSE job[k]
  BY DEF IInv
<1>2. job' = [k \in Jobs |-> job'[k]]
  BY DEF IInv
<1>3. Fingerprint' = Fingerprint
  BY DEF Fingerprint
<1>4. \A k \in Jobs : JobOK(job'[k])
  BY <1>1 DEF IInv
<1>5. \A k \in Jobs : (JobOK(job[k]))' <=> JobOK(job'[k])
  BY <1>3 DEF JobOK, Chain, AckIsHis, RetryIsFresh
<1>. QED  BY <1>2, <1>4, <1>5 DEF IInv

\* Fields of a chain that a step replaces.
LEMMA ChainFields ==
  ASSUME NEW r, Chain(r), NEW x, NEW y \in BOOLEAN
  PROVE  /\ Chain([r EXCEPT !.reply = x]) /\ Chain([r EXCEPT !.reply = x, !.overtaken = y])
         /\ Chain([r EXCEPT !.overtaken = y])
         /\ Chain([r EXCEPT !.step = "reaudit", !.reply = x])
BY DEF Chain, IsRecord

LEMMA PageKept ==
  ASSUME PageOK, NEW phase, NEW shown, NEW toast, toast # "refused", SetAudit(phase, shown, toast)
  PROVE  PageOK'
BY DEF PageOK, IsRecord, SetAudit

\* A new chain acknowledges nothing, or what its click acknowledges.
LEMMA NewJobOK ==
  ASSUME NEW step \in {"audit", "compare", "commit"}, NEW target, NEW list, NEW ack, NEW consent,
         ack = None \/ consent = ack
  PROVE  JobOK(NewJob(step, target, list, ack, consent))
<1> DEFINE r == NewJob(step, target, list, ack, consent)
<1>1. Chain(r)
  BY DEF Chain, IsRecord, NewJob
<1>2. AckIsHis(r) /\ RetryIsFresh(r)
  BY DEF AckIsHis, RetryIsFresh, NewJob
<1>. QED  BY <1>1, <1>2 DEF JobOK

\* Sending a commit with what the last comparison said.
LEMMA CommitOK ==
  ASSUME IInv, NEW j \in Jobs, NEW ack, NEW attempt \in Nat, Chain(job[j]),
         Commit(j, ack, attempt), UNCHANGED <<pred, logged>>, PageOK',
         \/ ack = None
         \/ /\ job[j].reply # None /\ ~Asks(job[j].reply) /\ job[j].reply.fp = ack
            /\ Tells(job[j].reply, job[j].list),
         attempt >= 1 /\ ~job[j].overtaken => ack = Fingerprint
  PROVE  IInv'
<1> DEFINE r == [job[j] EXCEPT !.step = "commit", !.reply = None, !.ack = ack,
                               !.answer = job[j].reply, !.attempt = attempt]
<1>1. /\ r.step = "commit" /\ r.reply = None /\ r.ack = ack /\ r.answer = job[j].reply
      /\ r.list = job[j].list /\ r.attempt = attempt /\ r.overtaken = job[j].overtaken /\ Chain(r)
  <2>1. PICK old, y : old = job[j] /\ y = old.reply
    OBVIOUS
  <2>2. r = [old EXCEPT !.step = "commit", !.reply = None, !.ack = ack,
                        !.answer = y, !.attempt = attempt]
    BY <2>1
  <2>3. Chain(old)
    BY <2>1
  <2>4. /\ r.step = "commit" /\ r.reply = None /\ r.ack = ack /\ r.answer = y
        /\ r.list = old.list /\ r.attempt = attempt /\ r.overtaken = old.overtaken /\ Chain(r)
    <3>. HIDE DEF r
    <3>. QED  BY <2>2, <2>3 DEF Chain, IsRecord
  <2>. QED  BY <2>1, <2>4
<1>2. job' = [job EXCEPT ![j] = r]
  BY DEF Commit
<1> HIDE DEF r
<1>3. AckIsHis(r) /\ RetryIsFresh(r)
  BY <1>1, NoneIsNoAnswer DEF AckIsHis, RetryIsFresh
<1>4. JobOK(r)
  BY <1>1, <1>3 DEF JobOK
<1>. QED  BY <1>2, <1>4, OneJob DEF IInv, UnpressedOverride

\* A step of one job that logs nothing.
LEMMA QuietStep ==
  ASSUME IInv, NEW j \in Jobs, NEW r, job' = [job EXCEPT ![j] = r], JobOK(r),
         UNCHANGED <<pred, logged>>, PageOK'
  PROVE  IInv'
BY OneJob DEF IInv, UnpressedOverride

LEMMA FinishOK ==
  ASSUME IInv, NEW j \in Jobs, Finish(j), UNCHANGED <<pred, logged>>, PageOK'
  PROVE  IInv'
BY QuietStep DEF Finish, JobOK

LEMMA BusyChain ==
  ASSUME IInv, NEW j \in Jobs, job[j].step # "free"
  PROVE  Chain(job[j]) /\ AckIsHis(job[j]) /\ RetryIsFresh(job[j])
BY DEF IInv, JobOK, Idle

\* A request is answered, or fails.
LEMMA ReplyOK ==
  ASSUME IInv, NEW j \in Jobs, job[j].step # "free", NEW r, NEW reply,
         \/ r = [job[j] EXCEPT !.reply = reply]
         \/ r = [job[j] EXCEPT !.reply = reply, !.overtaken = FALSE],
         job' = [job EXCEPT ![j] = r],
         r.overtaken \/ job[j].step # "reaudit" \/ reply = Error \/ reply.fp = Fingerprint,
         r.overtaken \/ job[j].step # "commit" \/ job[j].attempt = 0 \/ reply \notin {None, Refused},
         job[j].step = "commit" \/ reply = Error \/ Tells(reply, job[j].list),
         UNCHANGED <<pred, logged>>, PageOK'
  PROVE  IInv'
<1>1. Chain(job[j]) /\ AckIsHis(job[j])
  BY BusyChain
<1>2. Chain(r) /\ r.step = job[j].step /\ r.ack = job[j].ack /\ r.answer = job[j].answer
      /\ r.consent = job[j].consent /\ r.attempt = job[j].attempt /\ r.reply = reply
      /\ r.list = job[j].list
  <2>1. CASE r = [job[j] EXCEPT !.reply = reply]
    BY <1>1, <2>1 DEF Chain, IsRecord
  <2>2. CASE r = [job[j] EXCEPT !.reply = reply, !.overtaken = FALSE]
    BY <1>1, <2>2 DEF Chain, IsRecord
  <2>. QED  BY <2>1, <2>2
<1>3. AckIsHis(r)
  BY <1>1, <1>2 DEF AckIsHis
<1>4. RetryIsFresh(r)
  BY <1>2 DEF RetryIsFresh, Chain
<1>5. JobOK(r)
  BY <1>2, <1>3, <1>4 DEF JobOK
<1>. QED  BY <1>5, QuietStep

LEMMA PageUnchanged == ASSUME IInv, page' = page  PROVE PageOK'
BY DEF IInv, PageOK, IsRecord

LEMMA ClicksKeep ==
  ASSUME IInv, NEW j \in Jobs, ClickComplete(j) \/ ClickCompare(j) \/ ClickOverride(j)
  PROVE  IInv'
<1>1. CASE ClickComplete(j)
  <2>1. CASE page.completed
    <3>1. job' = [job EXCEPT ![j] = NewJob("commit", FALSE, Deduped(page.list), None, None)]
      BY <1>1, <2>1 DEF ClickComplete
    <3>2. PageOK'
      BY <1>1, <2>1, PageUnchanged DEF ClickComplete
    <3>3. UNCHANGED <<pred, logged>>
      BY <1>1 DEF ClickComplete
    <3>. QED  BY <3>1, <3>2, <3>3, NewJobOK, QuietStep
  <2>2. CASE ~page.completed
    <3>1. /\ job' = [job EXCEPT ![j] = NewJob("audit", TRUE, Deduped(page.list), None, None)]
          /\ page' = [page EXCEPT !.list = Deduped(page.list), !.phase = "running", !.shown = None]
      BY <1>1, <2>2 DEF ClickComplete
    <3>2. PageOK'
      BY <3>1 DEF IInv, PageOK, IsRecord
    <3>3. UNCHANGED <<pred, logged>>
      BY <1>1 DEF ClickComplete
    <3>. QED  BY <3>1, <3>2, <3>3, NewJobOK, QuietStep
  <2>. QED  BY <2>1, <2>2
<1>2. CASE ClickCompare(j)
  <2>1. /\ job' = [job EXCEPT ![j] = NewJob("compare", TRUE, page.list, None, None)]
        /\ page' = [page EXCEPT !.phase = "running"]
        /\ UNCHANGED <<pred, logged>>
    BY <1>2 DEF ClickCompare
  <2>2. PageOK'
    BY <2>1 DEF IInv, PageOK, IsRecord
  <2>. QED  BY <2>1, <2>2, NewJobOK, QuietStep
<1>3. CASE ClickOverride(j)
  <2>1. /\ job' = [job EXCEPT ![j] = NewJob("commit", TRUE, Deduped(page.list), page.shown.fp, page.shown.fp)]
        /\ UNCHANGED <<pred, logged, page>>
    BY <1>3 DEF ClickOverride
  <2>. QED  BY <2>1, PageUnchanged, NewJobOK, QuietStep
<1>. QED  BY <1>1, <1>2, <1>3

LEMMA PageStepsKeep ==
  ASSUME IInv, Back \/ Edit \/ Refetch \/ \E row : Accept(row)
  PROVE  IInv'
<1>1. UNCHANGED <<pred, job, logged>>
  BY DEF Back, Edit, Refetch, Accept
<1>2. PageOK'
  BY DEF IInv, PageOK, IsRecord, Back, Edit, Refetch, Accept
<1>3. Fingerprint' = Fingerprint
  BY <1>1 DEF Fingerprint
<1>. QED  BY <1>1, <1>2, <1>3 DEF IInv, JobOK, AckIsHis, RetryIsFresh, UnpressedOverride

\* Whoever waits for what depends on the old prediction has been overtaken.
LEMMA PredictKeeps ==
  ASSUME IInv, Predict
  PROVE  IInv'
<1>1. pred' = None \/ pred'.refs # None
  BY NoneIsNoAnswer DEF Predict
<1>2. UNCHANGED <<page, logged>>
  BY DEF Predict
<1>3. \A j \in Jobs : job'[j] = IF Busy(j) \/ Answered(j, "reaudit")
                              THEN [job[j] EXCEPT !.overtaken = TRUE] ELSE job[j]
  BY DEF Predict
<1>4. job' = [j \in Jobs |-> job'[j]]
  BY DEF Predict
<1>5. ASSUME NEW j \in Jobs  PROVE (JobOK(job[j]))'
  <2> DEFINE r == job'[j]
  <2>1. CASE job[j].step = "free"
    <3>1. job[j] = Idle /\ r = Idle
      BY <1>3, <2>1 DEF Busy, Answered, IInv, JobOK, Chain
    <3>. QED  BY <3>1 DEF JobOK
  <2>2. CASE Busy(j) \/ Answered(j, "reaudit")
    <3>1. Chain(job[j]) /\ AckIsHis(job[j])
      BY <2>2, BusyChain DEF Busy, Answered
    <3>2. r = [job[j] EXCEPT !.overtaken = TRUE]
      BY <1>3, <2>2
    <3>3. Chain(r)
      BY <3>1, <3>2, ChainFields
    <3>4. r.overtaken /\ r.step = job[j].step /\ r.ack = job[j].ack /\ r.answer = job[j].answer
          /\ r.consent = job[j].consent /\ r.reply = job[j].reply /\ r.list = job[j].list
      BY <3>1, <3>2 DEF Chain, IsRecord
    <3>5. AckIsHis(r)
      BY <3>1, <3>4 DEF AckIsHis
    <3>. QED  BY <3>3, <3>4, <3>5 DEF JobOK, Chain, AckIsHis, RetryIsFresh
  <2>3. CASE job[j].step # "free" /\ ~(Busy(j) \/ Answered(j, "reaudit"))
    <3>1. Chain(job[j]) /\ AckIsHis(job[j]) /\ RetryIsFresh(job[j])
      BY <2>3, BusyChain
    <3>2. r = job[j] /\ job[j].reply # None /\ job[j].step # "reaudit"
      BY <1>3, <2>3 DEF Busy, Answered
    <3>. QED  BY <3>1, <3>2 DEF JobOK, Chain, AckIsHis, RetryIsFresh
  <2>. QED  BY <2>1, <2>2, <2>3
<1>. QED  BY <1>1, <1>2, <1>4, <1>5, PageUnchanged DEF IInv, UnpressedOverride

\* A comparison names the prediction it was made with.
LEMMA ReportNames ==
  ASSUME NEW list
  PROVE  /\ Report(list).fp = Fingerprint /\ Report(list).kind = "report"
         /\ Report(list).ready => pred # None /\ Report(list).fp = pred.refs
         /\ Tells(Report(list), list)
BY DEF Report, Fingerprint, Tells

LEMMA FailuresAndReadsKeep ==
  ASSUME IInv, NEW j \in Jobs, ServeAudit(j) \/ ServeUncomplete(j) \/ Fail(j)
  PROVE  IInv'
<1>1. PageOK' /\ UNCHANGED <<pred, logged>> /\ job[j].step # "free"
  BY PageUnchanged DEF ServeAudit, ServeUncomplete, Fail, Busy
<1>2. CASE ServeAudit(j)
  <2>1. job' = [job EXCEPT ![j] = [job[j] EXCEPT !.reply = Report(job[j].list), !.overtaken = FALSE]]
    BY <1>2 DEF ServeAudit, IInv
  <2>2. job[j].step # "commit"
    BY <1>2 DEF ServeAudit
  <2>3. PICK r : /\ r = [job[j] EXCEPT !.reply = Report(job[j].list), !.overtaken = FALSE]
                 /\ job' = [job EXCEPT ![j] = r]
    BY <2>1
  <2>4. Report(job[j].list).fp = Fingerprint /\ Tells(Report(job[j].list), job[j].list)
    BY ReportNames
  <2>. QED  BY <1>1, <2>2, <2>3, <2>4, ReplyOK
<1>3. CASE ServeUncomplete(j)
  <2>1. PICK reply \in {Ok, Error} : job' = [job EXCEPT ![j] = [job[j] EXCEPT !.reply = reply]]
    BY <1>3 DEF ServeUncomplete
  <2>2. reply \notin {None, Refused} /\ job[j].step = "commit"
    BY <1>3, NoneIsNoAnswer DEF ServeUncomplete, Ok, Error, Refused
  <2>3. PICK r : r = [job[j] EXCEPT !.reply = reply] /\ job' = [job EXCEPT ![j] = r]
    BY <2>1
  <2>. QED  BY <1>1, <2>2, <2>3, ReplyOK
<1>4. CASE Fail(j)
  <2>1. job' = [job EXCEPT ![j] = [job[j] EXCEPT !.reply = Error]]
    BY <1>4 DEF Fail
  <2>2. Error \notin {None, Refused}
    BY NoneIsNoAnswer DEF Error, Refused
  <2>3. PICK r : r = [job[j] EXCEPT !.reply = Error] /\ job' = [job EXCEPT ![j] = r]
    BY <2>1
  <2>. QED  BY <1>1, <2>2, <2>3, ReplyOK
<1>. QED  BY <1>2, <1>3, <1>4

\* A refusal means a comparison other than the acknowledged one; an override is
\* logged only with the acknowledged one.
LEMMA ServeCompleteKeeps ==
  ASSUME IInv, NEW j \in Jobs, ServeComplete(j)
  PROVE  IInv'
<1> DEFINE final == Cleaned(job[j].list)
           report == Report(final)
<1>1. job[j].step = "commit" /\ job[j].reply = None /\ UNCHANGED <<pred, page>>
  BY DEF ServeComplete, Busy
<1>2. Chain(job[j]) /\ AckIsHis(job[j]) /\ RetryIsFresh(job[j])
  BY <1>1, BusyChain
<1>3. PageOK'
  BY <1>1, PageUnchanged
<1> HIDE DEF final
<1>4. CASE Conflict(report, job[j].ack)
  <2>1. job' = [job EXCEPT ![j] = [job[j] EXCEPT !.reply = Refused]] /\ UNCHANGED logged
    BY <1>4 DEF ServeComplete, final
  <2>2. pred # None /\ pred.refs # None /\ report.fp = pred.refs /\ Fingerprint = pred.refs
    BY <1>4, ReportNames DEF Conflict, IInv
  <2>3. job[j].ack # Fingerprint
    BY <1>4, <2>2 DEF Conflict
  <2>4. job[j].overtaken \/ job[j].attempt = 0
    BY <1>1, <1>2, <2>3 DEF RetryIsFresh, Chain
  <2>5. PICK r : r = [job[j] EXCEPT !.reply = Refused] /\ job' = [job EXCEPT ![j] = r]
    BY <2>1
  <2>6. r.overtaken = job[j].overtaken
    BY <1>2, <2>5 DEF Chain, IsRecord
  <2>. QED  BY <1>1, <1>3, <2>1, <2>4, <2>5, <2>6, ReplyOK
<1>5. CASE ~Conflict(report, job[j].ack)
  <2>1. /\ job' = [job EXCEPT ![j] = [job[j] EXCEPT !.reply = Ok]]
        /\ \E previous :
             logged' = [decision |-> Decision(report, final, previous), fp |-> report.fp,
                        consent |-> job[j].consent, answer |-> job[j].answer,
                        cut |-> final # job[j].list]
    BY <1>5 DEF ServeComplete, final
  <2>2. PICK previous :
          logged' = [decision |-> Decision(report, final, previous), fp |-> report.fp,
                     consent |-> job[j].consent, answer |-> job[j].answer,
                        cut |-> final # job[j].list]
    BY <2>1
  <2>3. ASSUME logged'.decision = "human_override"
        PROVE  job[j].ack # None /\ job[j].ack = report.fp
    <3>1. Decision(report, final, previous) = "human_override"
      BY <2>2, <2>3
    <3>2. report.ready /\ Asks(report)
      BY <3>1 DEF Decision
    <3>. QED  BY <1>5, <3>2 DEF Conflict, Asks
  <2>4. UnpressedOverride'
    <3> SUFFICES ASSUME logged'.decision = "human_override", logged'.consent # logged'.fp
                 PROVE  /\ logged'.answer # None /\ logged'.answer.fp = logged'.fp
                        /\ ~logged'.answer.ready \/ (~Asks(logged'.answer) /\ logged'.cut)
      BY DEF UnpressedOverride, Asks, RequiresAck
    <3>1. job[j].ack # None /\ job[j].ack = report.fp
      BY <2>3
    <3>2. /\ logged'.fp = report.fp /\ logged'.consent = job[j].consent
          /\ logged'.answer = job[j].answer /\ logged'.cut = (final # job[j].list)
      BY <2>2
    <3>3. /\ job[j].answer # None /\ ~Asks(job[j].answer) /\ job[j].answer.fp = report.fp
          /\ Tells(job[j].answer, job[j].list)
      BY <1>1, <1>2, <3>1, <3>2 DEF AckIsHis
    <3>4. Decision(report, final, previous) = "human_override"
      BY <2>2
    <3>5. report.ready /\ Asks(report)
      BY <3>4 DEF Decision
    <3>6. report.bucket = Audit(final, report.fp).bucket /\ report.bucket # "GREEN"
      BY <3>5, ReportNames DEF Asks, RequiresAck, Tells
    <3>7. job[j].answer.ready => final # job[j].list
      BY <3>3, <3>6 DEF Asks, RequiresAck, Tells
    <3>. QED  BY <3>2, <3>3, <3>7
  <2>5. JobOK([job[j] EXCEPT !.reply = Ok])
    <3> DEFINE r == [job[j] EXCEPT !.reply = Ok]
    <3>1. Chain(r) /\ r.reply = Ok /\ r.step = "commit" /\ r.ack = job[j].ack
          /\ r.consent = job[j].consent /\ r.answer = job[j].answer /\ r.list = job[j].list
      BY <1>1, <1>2, ChainFields DEF Chain, IsRecord
    <3>2. Ok \notin {None, Refused}
      BY NoneIsNoAnswer DEF Ok, Refused
    <3>. QED  BY <1>1, <1>2, <3>1, <3>2 DEF JobOK, AckIsHis, RetryIsFresh
  <2>. QED  BY <1>1, <1>3, <2>1, <2>4, <2>5, OneJob DEF IInv
<1>. QED  BY <1>4, <1>5

LEMMA FirstAnswersKeep ==
  ASSUME IInv, NEW j \in Jobs, AuditAnswered(j) \/ CompareAnswered(j)
  PROVE  IInv'
<1>1. job[j].step # "free" /\ job[j].reply # None /\ UNCHANGED <<pred, logged>>
  BY DEF AuditAnswered, CompareAnswered, Answered
<1>2. Chain(job[j]) /\ AckIsHis(job[j])
  BY <1>1, BusyChain
<1>3. PageOK
  BY DEF IInv
<1>4. CASE CompareAnswered(j)
  <2>1. PageOK'
    BY <1>3, <1>4, PageKept, NoneIsNoAnswer DEF CompareAnswered
  <2>. QED  BY <1>1, <1>4, <2>1, FinishOK DEF CompareAnswered
<1>5. CASE AuditAnswered(j) /\ Asks(job[j].reply)
  <2>1. Finish(j) /\ SetAudit("open", job[j].reply, None)
    BY <1>5 DEF AuditAnswered
  <2>2. PageOK'
    BY <1>3, <2>1, PageKept, NoneIsNoAnswer
  <2>. QED  BY <1>1, <2>1, <2>2, FinishOK
<1>6. CASE AuditAnswered(j) /\ ~Asks(job[j].reply)
  <2> DEFINE ack == IF job[j].reply = Error \/ ~job[j].reply.ready THEN None ELSE job[j].reply.fp
  <2>1. Commit(j, ack, 0) /\ SetAudit("idle", None, None)
    BY <1>6 DEF AuditAnswered
  <2>2. PageOK'
    BY <1>3, <2>1, PageKept, NoneIsNoAnswer
  <2>3. \/ ack = None
        \/ /\ job[j].reply # None /\ ~Asks(job[j].reply) /\ job[j].reply.fp = ack
           /\ Tells(job[j].reply, job[j].list)
    <3>1. job[j].step = "audit"
      BY <1>6 DEF AuditAnswered, Answered
    <3>. QED  BY <1>1, <1>2, <1>6, <3>1 DEF AckIsHis
  <2> HIDE DEF ack
  <2>. QED  BY <1>1, <1>2, <2>1, <2>2, <2>3, CommitOK
<1>. QED  BY <1>4, <1>5, <1>6

LEMMA CommitAnsweredKeeps ==
  ASSUME IInv, NEW j \in Jobs, CommitAnswered(j)
  PROVE  IInv'
<1>1. job[j].step = "commit" /\ UNCHANGED <<pred, logged>>
  BY DEF CommitAnswered, Answered
<1>2. Chain(job[j]) /\ RetryIsFresh(job[j])
  BY <1>1, BusyChain
<1>3. PageOK
  BY DEF IInv
<1>4. CASE Finish(j) /\ \E phase : SetAudit(phase, None, None) \/ SetAudit(phase, None, "failed")
                                 \/ SetAudit(phase, None, "overtaken")
  <2>1. PageOK'
    BY <1>3, <1>4, PageKept, NoneIsNoAnswer
  <2>. QED  BY <1>1, <1>4, <2>1, FinishOK
<1>5. CASE job[j].reply = Refused /\ job[j].attempt >= 1 /\ Finish(j)
           /\ SetAudit("idle", None, IF job[j].overtaken THEN "overtaken" ELSE "refused")
  <2>1. job[j].overtaken
    BY <1>1, <1>2, <1>5 DEF RetryIsFresh
  <2>. QED  BY <1>4, <1>5, <2>1
<1>6. CASE Request(j, "reaudit") /\ UNCHANGED page
  <2> DEFINE r == [job[j] EXCEPT !.step = "reaudit", !.reply = None]
  <2>1. Chain(r) /\ r.step = "reaudit" /\ r.reply = None
    BY <1>2, ChainFields DEF Chain, IsRecord
  <2>2. job' = [job EXCEPT ![j] = r]
    BY <1>6 DEF Request
  <2> HIDE DEF r
  <2>3. JobOK(r)
    BY <2>1 DEF JobOK, AckIsHis, RetryIsFresh
  <2>. QED  BY <1>1, <1>6, <2>2, <2>3, PageUnchanged, QuietStep
<1>. QED  BY <1>4, <1>5, <1>6 DEF CommitAnswered

LEMMA ReauditAnsweredKeeps ==
  ASSUME IInv, NEW j \in Jobs, ReauditAnswered(j)
  PROVE  IInv'
<1>1. job[j].step = "reaudit" /\ job[j].reply # None /\ UNCHANGED <<pred, logged>>
  BY DEF ReauditAnswered, Answered
<1>2. Chain(job[j]) /\ AckIsHis(job[j]) /\ RetryIsFresh(job[j])
  BY <1>1, BusyChain
<1>3. CASE Finish(j) /\ (SetAudit("idle", None, "failed") \/ SetAudit("open", job[j].reply, None))
  <2>1. PageOK'
    BY <1>3, PageKept, NoneIsNoAnswer DEF IInv
  <2>. QED  BY <1>1, <1>3, <2>1, FinishOK
<1>4. CASE job[j].reply # Error /\ ~Asks(job[j].reply)
           /\ Commit(j, job[j].reply.fp, job[j].attempt + 1) /\ UNCHANGED page
  <2>1. job[j].attempt + 1 \in Nat
    BY <1>2 DEF Chain
  <2>2. ~job[j].overtaken => job[j].reply.fp = Fingerprint
    BY <1>1, <1>2, <1>4 DEF RetryIsFresh
  <2>3. Tells(job[j].reply, job[j].list)
    BY <1>1, <1>2, <1>4 DEF AckIsHis
  <2>. QED  BY <1>1, <1>2, <1>4, <2>1, <2>2, <2>3, PageUnchanged, CommitOK
<1>. QED  BY <1>3, <1>4 DEF ReauditAnswered

LEMMA IInvHolds == Spec => []IInv
<1>1. IInv /\ [Next]_vars => IInv'
  <2> SUFFICES ASSUME IInv, [Next]_vars  PROVE IInv'
    OBVIOUS
  <2>1. CASE UNCHANGED vars
    <3>1. UNCHANGED <<pred, job, logged, page>>
      BY <2>1 DEF vars
    <3>2. Fingerprint' = Fingerprint
      BY <3>1 DEF Fingerprint
    <3>. QED  BY <3>1, <3>2, PageUnchanged
              DEF IInv, JobOK, AckIsHis, RetryIsFresh, UnpressedOverride
  <2>2. CASE Back \/ Edit \/ Refetch
             \/ \E row \in IF page.shown = None THEN {} ELSE page.shown.rows : Accept(row)
    BY <2>2, PageStepsKeep
  <2>3. CASE Predict
    BY <2>3, PredictKeeps
  <2>4. CASE \E j \in Jobs : ClickComplete(j) \/ ClickCompare(j) \/ ClickOverride(j)
    BY <2>4, ClicksKeep
  <2>5. CASE \E j \in Jobs : ServeAudit(j) \/ ServeUncomplete(j) \/ Fail(j)
    BY <2>5, FailuresAndReadsKeep
  <2>6. CASE \E j \in Jobs : ServeComplete(j)
    BY <2>6, ServeCompleteKeeps
  <2>7. CASE \E j \in Jobs : AuditAnswered(j) \/ CompareAnswered(j)
    BY <2>7, FirstAnswersKeep
  <2>8. CASE \E j \in Jobs : CommitAnswered(j)
    BY <2>8, CommitAnsweredKeeps
  <2>9. CASE \E j \in Jobs : ReauditAnswered(j)
    BY <2>9, ReauditAnsweredKeeps
  <2>. QED  BY <2>1, <2>2, <2>3, <2>4, <2>5, <2>6, <2>7, <2>8, <2>9 DEF Next
<1>. QED  BY <1>1, InitIInv, PTL DEF Spec

\* An override is logged for somebody who pressed the button under that
\* comparison, or by one of two accidents: the page acknowledged for him a
\* prediction that was not usable when it compared (AnnotateDoc.tsx,
\* finalizeComplete), or a comparison that asked for nothing and was of more than
\* what is saved (annotations/service.py, set_complete).
THEOREM OverridesAreExplained == Spec => []UnpressedOverride
<1>1. IInv => UnpressedOverride
  BY DEF IInv
<1>. QED  BY <1>1, IInvHolds, PTL

\* The page gives up only when the prediction was replaced between its second
\* comparison and its second attempt (AnnotateDoc.tsx, finalizeComplete).
THEOREM RefusalsAreOvertaken == Spec => []RefusedOnlyIfOvertaken
<1>1. IInv => RefusedOnlyIfOvertaken
  BY DEF IInv, PageOK, RefusedOnlyIfOvertaken
<1>. QED  BY <1>1, IInvHolds, PTL
-----------------------------------------------------------------------------
(* The comparison is one of references, whatever the page and the jobs did.  *)

\* Induction, over the set of the numbers that are reached.
LEMMA Reaches ==
  ASSUME NEW S, S \subseteq Nat, 0 \in S, \A n \in S : n + 1 \in S
  PROVE  S = Nat
<1> DEFINE T == Nat \ S
<1> SUFFICES ASSUME T # {}  PROVE FALSE
  OBVIOUS
<1>1. \E x \in T : \A y \in T : <<y, x>> \notin OpToRel(<, Nat)
  BY NatLessThanWellFounded, WFMin
<1>2. PICK x \in T : \A y \in T : <<y, x>> \notin OpToRel(<, Nat)
  BY <1>1
<1>3. \A y \in T : ~(y < x)
  BY <1>2 DEF OpToRel
<1>4. x # 0 /\ x - 1 \in Nat /\ x - 1 \notin T
  BY <1>3
<1>. QED  BY <1>4

\* Removing duplicates leaves a list of references.
LEMMA DedupedIsList ==
  ASSUME NEW list \in Seq(References)  PROVE Deduped(list) \in Seq(References)
<1> DEFINE L == Len(list)
           Next1(kept, i) == IF \E k \in DOMAIN kept : Equivalent(kept[k], list[i])
                             THEN kept ELSE Append(kept, list[i])
           Body(f, n) == [i \in 0..n |-> IF i = 0 THEN <<>> ELSE Next1(f[i - 1], i)]
           first == CHOOSE f : f = Body(f, L)
<1>1. Deduped(list) = first[L]
  BY DEF Deduped
<1>2. L \in Nat /\ \A i \in 1..L : list[i] \in References
  OBVIOUS
<1> HIDE DEF L, Next1, first
<1>3. ASSUME NEW n \in Nat, NEW f, f = Body(f, n)  PROVE \E g : g = Body(g, n + 1)
  <2> DEFINE g == [i \in 0..(n + 1) |-> IF i = n + 1 THEN Next1(f[n], n + 1) ELSE f[i]]
  <2>1. \A i \in 0..n : f[i] = IF i = 0 THEN <<>> ELSE Next1(f[i - 1], i)
    BY <1>3
  <2>2. /\ \A i \in 0..n : g[i] = f[i]
        /\ g[n + 1] = Next1(f[n], n + 1)
        /\ g = [i \in 0..(n + 1) |-> g[i]]
    OBVIOUS
  <2> HIDE DEF g
  <2>3. ASSUME NEW i \in 0..(n + 1)  PROVE g[i] = IF i = 0 THEN <<>> ELSE Next1(g[i - 1], i)
    <3>1. CASE i = n + 1
      <4>1. i # 0 /\ i - 1 = n /\ n \in 0..n
        BY <3>1
      <4>. QED  BY <2>2, <3>1, <4>1
    <3>2. CASE i \in 1..n
      <4>1. i - 1 \in 0..n /\ i \in 0..n /\ i # 0
        BY <3>2
      <4>. QED  BY <2>1, <2>2, <4>1
    <3>3. CASE i = 0
      <4>1. 0 \in 0..n /\ f[0] = <<>>
        BY <2>1
      <4>. QED  BY <2>2, <3>3, <4>1
    <3>. QED  BY <3>1, <3>2, <3>3
  <2>4. g = Body(g, n + 1)
    BY <2>2, <2>3
  <2>. QED  BY <2>4
<1>4. \E f : f = Body(f, L)
  <2> DEFINE S == {n \in Nat : \E f : f = Body(f, n)}
  <2>1. 0 \in S
    <3>1. [i \in 0..0 |-> <<>>] = Body([i \in 0..0 |-> <<>>], 0)
      OBVIOUS
    <3>. QED  BY <3>1
  <2> HIDE DEF Body
  <2>2. \A n \in S : n + 1 \in S
    BY <1>3
  <2>3. S \subseteq Nat
    OBVIOUS
  <2> HIDE DEF S
  <2>4. S = Nat
    BY <2>1, <2>2, <2>3, Reaches
  <2>. QED  BY <1>2, <2>4 DEF S
<1>5. first = Body(first, L)
  BY <1>4 DEF first
<1>6. first[0] = <<>> /\ \A i \in 1..L : first[i] = Next1(first[i - 1], i)
  BY <1>2, <1>5
<1>7. ASSUME NEW i \in 1..L, NEW kept \in Seq(References)  PROVE Next1(kept, i) \in Seq(References)
  BY <1>2 DEF Next1
<1>8. first[L] \in Seq(References)
  <2> DEFINE S == {n \in Nat : n <= L => first[n] \in Seq(References)}
  <2>1. 0 \in S
    <3>1. <<>> \in Seq(References)
      OBVIOUS
    <3>. QED  BY <1>6, <3>1
  <2>2. ASSUME NEW n \in S  PROVE n + 1 \in S
    <3>1. CASE n + 1 <= L
      <4>1. n + 1 \in 1..L /\ (n + 1) - 1 = n /\ first[n] \in Seq(References)
        BY <1>2, <3>1
      <4>2. first[n + 1] = Next1(first[n], n + 1)
        BY <1>6, <4>1
      <4>. QED  BY <1>7, <4>1, <4>2
    <3>. QED  BY <1>2, <3>1
  <2>3. S \subseteq Nat
    OBVIOUS
  <2> HIDE DEF S
  <2>4. S = Nat
    BY <2>1, <2>2, <2>3, Reaches
  <2>. QED  BY <1>2, <2>4 DEF S
<1>. QED  BY <1>1, <1>8

\* Every suggestion of a comparison is a reference of the model.
Offers(rows) == \A row \in rows : row.model = None \/ row.model \in References

LEMMA ReportOffers ==
  ASSUME NEW list, pred # None => pred.refs \in Seq(References)
  PROVE  Offers(Report(list).rows)
<1>1. CASE pred = None \/ ~pred.usable
  BY <1>1 DEF Report, Offers
<1>2. CASE pred # None /\ pred.usable
  <2> DEFINE h == Compared(list)
             m == Compared(pred.refs)
  <2>1. m \subseteq References
    BY <1>2, ComparedIsComparable DEF Comparable
  <2>2. Report(list).rows = ABDiff(h, m)
    BY <1>2 DEF Report, Audit
  <2> HIDE DEF h, m
  <2>3. Offers(RowsOfShared(h, m))
    BY <2>1 DEF Offers, RowsOfShared, Row
  <2>4. ASSUME NEW a, NEW b, b \subseteq References  PROVE Offers(RowsOfExclusive(a, b))
    BY <2>4 DEF Offers, RowsOfExclusive, Row, Paired
  <2>5. Exclusive(m, h) \subseteq References
    BY <2>1 DEF Exclusive
  <2>. QED  BY <2>2, <2>3, <2>4, <2>5 DEF ABDiff, Offers
<1>. QED  BY <1>1, <1>2

\* Where a suggestion can be on its way to the list.
ReplyOffers(reply) == reply \in {None, Ok, Refused, Error} \/ Offers(reply.rows)

ListsAreReferences ==
  /\ pred # None => pred.refs \in Seq(References)
  /\ page.list \in Seq(References)
  /\ page.shown # None => Offers(page.shown.rows)
  /\ \A j \in Jobs : job[j].step # "free" => ReplyOffers(job[j].reply)

\* Only a comparison asks for anything.
LEMMA AskedOffers ==
  ASSUME NEW reply, reply # None, ReplyOffers(reply), Asks(reply)  PROVE Offers(reply.rows)
BY DEF ReplyOffers, Asks, Ok, Refused, Error

LEMMA InitLists == Init => ListsAreReferences
<1> SUFFICES ASSUME Init  PROVE ListsAreReferences
  OBVIOUS
<1>1. pred # None => pred.refs \in Seq(References)
  BY ListsOfReferences DEF Init
<1>2. page.list \in Seq(References) /\ page.shown = None
  <2>1. \A list : OpenedOn(list).list = list /\ OpenedOn(list).shown = None
                  /\ [OpenedOn(list) EXCEPT !.phase = "away"].list = list
                  /\ [OpenedOn(list) EXCEPT !.phase = "away"].shown = None
    BY DEF OpenedOn
  <2>2. \E list \in Opened \cup Lists :
          page = OpenedOn(list) \/ page = [OpenedOn(list) EXCEPT !.phase = "away"]
    BY DEF Init
  <2>3. PICK list \in Opened \cup Lists : page.list = list /\ page.shown = None
    BY <2>1, <2>2
  <2>. QED  BY <2>3, ListsOfReferences
<1>3. \A j \in Jobs : job[j].step = "free"
  BY DEF Init, Idle
<1>. QED  BY <1>1, <1>2, <1>3 DEF ListsAreReferences

\* One job goes on, or ends, and the page shows nothing new, or what the job
\* was answered.
LEMMA OneJobOffers ==
  ASSUME IInv, ListsAreReferences, NEW j \in Jobs, NEW r,
         job' = [job EXCEPT ![j] = r], r = Idle \/ ReplyOffers(r.reply),
         UNCHANGED pred,
         page' = page \/ \E phase, shown, toast : /\ SetAudit(phase, shown, toast)
                                                  /\ shown # None => Offers(shown.rows)
  PROVE  ListsAreReferences'
<1>1. page'.list = page.list /\ (page'.shown # None => Offers(page'.shown.rows))
  <2>1. CASE page' = page
    BY <2>1 DEF ListsAreReferences
  <2>2. CASE \E phase, shown, toast : /\ SetAudit(phase, shown, toast)
                                      /\ shown # None => Offers(shown.rows)
    <3>1. PICK phase, shown, toast : /\ SetAudit(phase, shown, toast)
                                     /\ shown # None => Offers(shown.rows)
      BY <2>2
    <3>2. \/ page' = page
          \/ page' = [page EXCEPT !.phase = phase, !.shown = shown, !.toast = toast]
      BY <3>1 DEF SetAudit
    <3>3. ASSUME page' = [page EXCEPT !.phase = phase, !.shown = shown, !.toast = toast]
          PROVE  page'.list = page.list /\ page'.shown = shown
      BY <3>3 DEF IInv, PageOK, IsRecord
    <3>. QED  BY <2>1, <3>1, <3>2, <3>3
  <2>. QED  BY <2>1, <2>2
<1>2. \A k \in Jobs : job'[k] = IF k = j THEN r ELSE job[k]
  BY DEF IInv
<1>. QED  BY <1>1, <1>2 DEF ListsAreReferences, Idle

LEMMA PageStepsOffer ==
  ASSUME IInv, ListsAreReferences,
         Back \/ Edit \/ Refetch
              \/ \E row \in IF page.shown = None THEN {} ELSE page.shown.rows : Accept(row)
  PROVE  ListsAreReferences'
<1>1. UNCHANGED <<pred, job>>
  BY DEF Back, Edit, Refetch, Accept
<1>2. IsRecord(page, {"list", "phase", "shown", "accepted", "completed", "toast"})
  BY DEF IInv, PageOK
<1>3. CASE Back
  BY <1>1, <1>2, <1>3 DEF Back, ListsAreReferences, IsRecord
<1>4. CASE Refetch
  BY <1>1, <1>2, <1>4 DEF Refetch, ListsAreReferences, IsRecord
<1>5. CASE Edit
  <2>1. PICK list : /\ page' = [page EXCEPT !.list = list]
                    /\ \/ \E r \in Pool : list = Append(page.list, r)
                       \/ \E i \in DOMAIN page.list :
                            list = SubSeq(page.list, 1, i - 1) \o SubSeq(page.list, i + 1, Len(page.list))
    BY <1>5 DEF Edit
  <2>2. list \in Seq(References)
    <3>1. page.list \in Seq(References) /\ Pool \subseteq References
      BY ListsOfReferences DEF ListsAreReferences
    <3>2. ASSUME NEW i \in DOMAIN page.list
          PROVE  /\ SubSeq(page.list, 1, i - 1) \in Seq(References)
                 /\ SubSeq(page.list, i + 1, Len(page.list)) \in Seq(References)
      BY <3>1
    <3>3. \A s, z \in Seq(References) : s \o z \in Seq(References)
      OBVIOUS
    <3>4. CASE \E r \in Pool : list = Append(page.list, r)
      BY <3>1, <3>4
    <3>5. CASE \E i \in DOMAIN page.list :
                 list = SubSeq(page.list, 1, i - 1) \o SubSeq(page.list, i + 1, Len(page.list))
      <4>1. PICK i \in DOMAIN page.list :
                   list = SubSeq(page.list, 1, i - 1) \o SubSeq(page.list, i + 1, Len(page.list))
        BY <3>5
      <4>. QED  BY <3>2, <3>3, <4>1
    <3>. QED  BY <2>1, <3>4, <3>5
  <2>3. page'.list = list /\ page'.shown = page.shown
    BY <1>2, <2>1 DEF IsRecord
  <2>. QED  BY <1>1, <2>2, <2>3 DEF ListsAreReferences
<1>6. CASE \E row \in IF page.shown = None THEN {} ELSE page.shown.rows : Accept(row)
  <2>1. PICK row \in page.shown.rows : page.shown # None /\ Accept(row)
    BY <1>6
  <2>2. row.model \in References
    BY <2>1 DEF Accept, ListsAreReferences, Offers
  <2>3. page'.list = Append(page.list, row.model) /\ page'.shown = page.shown
    BY <1>2, <2>1 DEF Accept, IsRecord
  <2>. QED  BY <1>1, <2>2, <2>3 DEF ListsAreReferences
<1>. QED  BY <1>3, <1>4, <1>5, <1>6

LEMMA ClicksOffer ==
  ASSUME IInv, ListsAreReferences, NEW j \in Jobs,
         ClickComplete(j) \/ ClickCompare(j) \/ ClickOverride(j)
  PROVE  ListsAreReferences'
<1>1. UNCHANGED pred
  BY DEF ClickComplete, ClickCompare, ClickOverride
<1>2. job'[j].reply = None /\ \A k \in Jobs : k # j => job'[k] = job[k]
  <2>1. CASE job' = [job EXCEPT ![j] = NewJob("commit", FALSE, Deduped(page.list), None, None)]
    BY <2>1 DEF IInv, NewJob
  <2>2. CASE job' = [job EXCEPT ![j] = NewJob("audit", TRUE, Deduped(page.list), None, None)]
    BY <2>2 DEF IInv, NewJob
  <2>3. CASE job' = [job EXCEPT ![j] = NewJob("compare", TRUE, page.list, None, None)]
    BY <2>3 DEF IInv, NewJob
  <2>4. CASE job' = [job EXCEPT ![j] = NewJob("commit", TRUE, Deduped(page.list), page.shown.fp, page.shown.fp)]
    BY <2>4 DEF IInv, NewJob
  <2>. QED  BY <2>1, <2>2, <2>3, <2>4 DEF ClickComplete, ClickCompare, ClickOverride
<1>3. page'.list \in Seq(References) /\ page'.shown \in {page.shown, None}
  <2>1. \/ page' = page
        \/ page' = [page EXCEPT !.phase = "running"]
        \/ page' = [page EXCEPT !.list = Deduped(page.list), !.phase = "running", !.shown = None]
    BY DEF ClickComplete, ClickCompare, ClickOverride
  <2>2. IsRecord(page, {"list", "phase", "shown", "accepted", "completed", "toast"})
        /\ page.list \in Seq(References)
    BY DEF IInv, PageOK, ListsAreReferences
  <2>. QED  BY <2>1, <2>2, DedupedIsList DEF IsRecord
<1>. QED  BY <1>1, <1>2, <1>3 DEF ListsAreReferences, ReplyOffers

LEMMA ServerStepsOffer ==
  ASSUME IInv, ListsAreReferences, NEW j \in Jobs,
         ServeAudit(j) \/ ServeUncomplete(j) \/ ServeComplete(j) \/ Fail(j)
  PROVE  ListsAreReferences'
<1>1. job[j].step # "free" /\ UNCHANGED <<pred, page>>
  BY DEF ServeAudit, ServeUncomplete, ServeComplete, Fail, Busy
<1>2. Chain(job[j])
  BY <1>1, BusyChain
<1>3. \E reply : /\ ReplyOffers(reply)
                 /\ \/ job' = [job EXCEPT ![j] = [job[j] EXCEPT !.reply = reply]]
                    \/ job' = [job EXCEPT ![j] = [job[j] EXCEPT !.reply = reply, !.overtaken = FALSE]]
  <2>1. CASE ServeAudit(j)
    <3>1. Offers(Report(job[j].list).rows)
      BY ReportOffers DEF ListsAreReferences
    <3>2. job' = [job EXCEPT ![j] = [job[j] EXCEPT !.reply = Report(job[j].list), !.overtaken = FALSE]]
      BY <2>1 DEF ServeAudit, IInv
    <3>. QED  BY <3>1, <3>2 DEF ReplyOffers
  <2>2. CASE ServeUncomplete(j)
    BY <2>2 DEF ServeUncomplete, ReplyOffers
  <2>3. CASE ServeComplete(j)
    BY <2>3 DEF ServeComplete, ReplyOffers
  <2>4. CASE Fail(j)
    BY <2>4 DEF Fail, ReplyOffers
  <2>. QED  BY <2>1, <2>2, <2>3, <2>4
<1>4. PICK reply : /\ ReplyOffers(reply)
                   /\ \/ job' = [job EXCEPT ![j] = [job[j] EXCEPT !.reply = reply]]
                      \/ job' = [job EXCEPT ![j] = [job[j] EXCEPT !.reply = reply, !.overtaken = FALSE]]
  BY <1>3
<1>5. /\ [job[j] EXCEPT !.reply = reply].reply = reply
      /\ [job[j] EXCEPT !.reply = reply, !.overtaken = FALSE].reply = reply
  BY <1>2 DEF Chain, IsRecord
<1>. QED  BY <1>1, <1>4, <1>5, OneJobOffers

LEMMA AnswersOffer ==
  ASSUME IInv, ListsAreReferences, NEW j \in Jobs,
         AuditAnswered(j) \/ CompareAnswered(j) \/ CommitAnswered(j) \/ ReauditAnswered(j)
  PROVE  ListsAreReferences'
<1>1. job[j].step # "free" /\ job[j].reply # None /\ UNCHANGED pred
  BY DEF AuditAnswered, CompareAnswered, CommitAnswered, ReauditAnswered, Answered
<1>2. Chain(job[j]) /\ ReplyOffers(job[j].reply)
  BY <1>1, BusyChain DEF ListsAreReferences
<1>3. /\ Finish(j) \/ Request(j, "reaudit") \/ \E ack, attempt : Commit(j, ack, attempt)
      /\ page' = page \/ \E phase, shown, toast :
                           /\ SetAudit(phase, shown, toast)
                           /\ shown # None => shown = job[j].reply /\ Asks(shown)
  BY DEF AuditAnswered, CompareAnswered, CommitAnswered, ReauditAnswered
<1>4. PICK r : job' = [job EXCEPT ![j] = r] /\ (r = Idle \/ r.reply = None)
  <2>1. CASE Finish(j)
    BY <2>1 DEF Finish
  <2>2. CASE Request(j, "reaudit")
    <3>1. job' = [job EXCEPT ![j] = [job[j] EXCEPT !.step = "reaudit", !.reply = None]]
      BY <2>2 DEF Request, IInv
    <3>2. [job[j] EXCEPT !.step = "reaudit", !.reply = None].reply = None
      BY <1>2 DEF Chain, IsRecord
    <3>. QED  BY <3>1, <3>2
  <2>3. CASE \E ack, attempt : Commit(j, ack, attempt)
    <3>1. PICK ack, attempt : Commit(j, ack, attempt)
      BY <2>3
    <3>2. job' = [job EXCEPT ![j] = [job[j] EXCEPT !.step = "commit", !.reply = None, !.ack = ack,
                                                 !.answer = job[j].reply, !.attempt = attempt]]
      BY <3>1 DEF Commit, IInv
    <3>3. [job[j] EXCEPT !.step = "commit", !.reply = None, !.ack = ack,
                         !.answer = job[j].reply, !.attempt = attempt].reply = None
      BY <1>2 DEF Chain, IsRecord
    <3>. QED  BY <3>2, <3>3
  <2>. QED  BY <1>3, <2>1, <2>2, <2>3
<1>5. page' = page \/ \E phase, shown, toast : /\ SetAudit(phase, shown, toast)
                                               /\ shown # None => Offers(shown.rows)
  BY <1>1, <1>2, <1>3, AskedOffers
<1>. QED  BY <1>1, <1>4, <1>5, OneJobOffers DEF ReplyOffers

LEMMA PredictOffers ==
  ASSUME IInv, ListsAreReferences, Predict  PROVE ListsAreReferences'
<1>1. (pred' # None => pred'.refs \in Seq(References)) /\ page' = page
  BY ListsOfReferences DEF Predict
<1>2. ASSUME NEW j \in Jobs, job'[j].step # "free"  PROVE ReplyOffers(job'[j].reply)
  <2>1. job'[j] \in {job[j], [job[j] EXCEPT !.overtaken = TRUE]}
    BY DEF Predict
  <2>2. CASE job'[j] = job[j]
    BY <1>2, <2>2 DEF ListsAreReferences
  <2>3. CASE job[j] = Idle /\ job'[j] = [job[j] EXCEPT !.overtaken = TRUE]
    <3>1. job'[j].step = "free"
      BY <2>3 DEF Idle
    <3>. QED  BY <1>2, <3>1
  <2>4. CASE job[j] # Idle /\ job'[j] = [job[j] EXCEPT !.overtaken = TRUE]
    <3>1. Chain(job[j])
      BY <2>4 DEF IInv, JobOK
    <3>2. job'[j].reply = job[j].reply /\ job[j].step # "free"
      BY <2>4, <3>1 DEF Chain, IsRecord
    <3>. QED  BY <3>2 DEF ListsAreReferences
  <2>. QED  BY <2>1, <2>2, <2>3, <2>4
<1>. QED  BY <1>1, <1>2 DEF ListsAreReferences

\* Whatever the annotator enters, accepts and removes and whenever the
\* prediction is replaced, the panel that a comparison of the page would open
\* offers nothing the list already has and leaves nothing out (adapter.py,
\* ab_diff; AnnotateDoc.tsx, handleAcceptSuggestion).
THEOREM PanelOffersTheNew == Spec => []OffersAreNew
<1>1. IInv /\ ListsAreReferences /\ [Next]_vars => ListsAreReferences'
  <2> SUFFICES ASSUME IInv, ListsAreReferences, [Next]_vars  PROVE ListsAreReferences'
    OBVIOUS
  <2>1. CASE UNCHANGED vars
    BY <2>1 DEF vars, ListsAreReferences
  <2>2. CASE Next
    BY <2>2, PageStepsOffer, ClicksOffer, ServerStepsOffer, AnswersOffer, PredictOffers DEF Next
  <2>. QED  BY <2>1, <2>2
<1>2. ListsAreReferences => OffersAreNew
  BY OffersAreNewForAll DEF ListsAreReferences, OffersAreNew
<1>. QED  BY <1>1, <1>2, InitLists, IInvHolds, PTL DEF Spec
=============================================================================
