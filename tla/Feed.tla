-------------------------------- MODULE Feed --------------------------------
(* The three lists of documents: backend/shuffle (service, routes) and the  *)
(* order in which a page asks for them (frontend/src/api/queries/feed.ts).  *)
(* A list is a query over documents_meta, annotations and the caller's own  *)
(* rows of drafts; it is read in pages by LIMIT and OFFSET, and its length  *)
(* is counted by a second statement, for the first page only.  Documents   *)
(* are numbers, ordered like their keys.                                   *)
EXTENDS Integers, Sequences, FiniteSets, SequencesExt

CONSTANTS
  Reader, Doc,
  PageSize,    \* limit of a request, MAX_LIMIT at most
  Key,         \* the column the list is sorted by, NULL where it is Null: one that
               \* saves and drafts leave alone, not updated_at or editors_count
  Null,
  Descending

ASSUME FeedAssumption ==
  /\ Doc \subseteq Nat /\ IsFiniteSet(Doc) /\ PageSize \in Nat \ {0}
  /\ Null \notin Nat /\ Key \in [Doc -> Nat \union {Null}] /\ Descending \in BOOLEAN

VARIABLES
  ann,    \* the annotation of a document: none, open or completed
  draft   \* per user and document: no draft, one without references, one with

corpusVars == <<ann, draft>>

Tab == {"new", "review", "verified"}
AnnState == {"none", "open", "completed"}
DraftState == {"none", "empty", "filled"}

\* Mutant: the draft of the caller does not matter for the new tab.
InNewAnyDraft(u, d) == ann[d] = "none"

InNew(u, d) == ann[d] = "none" /\ draft[u][d] # "filled"

InReview(u, d) == ann[d] = "open" \/ (ann[d] = "none" /\ draft[u][d] = "filled")

InVerified(u, d) == ann[d] = "completed"

InTab(u, tab, d) ==
  /\ tab = "new" => InNew(u, d)
  /\ tab = "review" => InReview(u, d)
  /\ tab = "verified" => InVerified(u, d)

\* The item of a document says which state it is in.
StateOf(tab, d) == IF tab = "new" THEN "new"
                   ELSE CASE ann[d] = "none" -> "draft"
                          [] ann[d] = "completed" -> "verified"
                          [] OTHER -> "review"

\* The states a tab is for.
StatesOf == [new |-> {"new"}, review |-> {"draft", "review"}, verified |-> {"verified"}]

Item == [doc: Doc, state: {"new", "draft", "review", "verified"}]

\* _build_order_by: NULLs last in either direction, ties by key.
Before(d, e) ==
  \/ Key[d] # Null /\ Key[e] = Null
  \/ Key[d] = Key[e] /\ d < e
  \/ Null \notin {Key[d], Key[e]} /\ IF Descending THEN Key[d] > Key[e] ELSE Key[d] < Key[e]

\* How many documents of S the order puts up to d.
Rank(S, d) == Cardinality({e \in S : e = d \/ Before(e, d)})

Ordered(S) == [i \in 1..Cardinality(S) |-> CHOOSE d \in S : Rank(S, d) = i]

Listing(u, tab) ==
  LET order == Ordered({d \in Doc : InTab(u, tab, d)})
  IN  [i \in DOMAIN order |-> [doc |-> order[i], state |-> StateOf(tab, order[i])]]

\* The first n elements, or all there are.
Start(list, n) == SubSeq(list, 1, Min({n, Len(list)}))

\* LIMIT PageSize OFFSET offset
PageAt(list, offset) ==
  SubSeq(list, offset + 1, Min({offset + PageSize, Len(list)}))
=============================================================================
