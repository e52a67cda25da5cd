---------------------------- MODULE Annotations ----------------------------
(***************************************************************************)
(* Annotations of documents: backend/annotations (service, drafts, diff)   *)
(* and the quality audit that a completion runs (backend/quality).         *)
(*                                                                         *)
(* Every write is one BEGIN IMMEDIATE transaction and so one action; what  *)
(* interleaves with it is the work of other users, predictions that arrive *)
(* from the model agent, documents that are ingested again, and the locks  *)
(* that come and go under the editors.  The locks are those of LockLease,  *)
(* which DocumentLocks implements.                                         *)
(***************************************************************************)
EXTENDS Naturals, Sequences, FiniteSets

CONSTANTS
  User, Doc,
  Watched,      \* the user whose pages and drafts are followed; all users act alike
  Ref,          \* references, up to canonical_key
  Generic,      \* those without madde, fikra and bent
  Law,          \* law_family_key of each reference, or None
  Text,         \* contents a document may be ingested with
  Output,       \* what the model agent may report: references, and whether they are usable
  Green,        \* comparisons that the audit puts in the GREEN bucket
  MaxVersions,  \* bound of the model: rows of annotation_versions per document
  None          \* SQL NULL

Comparison == [human: SUBSET Ref, model: SUBSET Ref, text: Text]

ASSUME WatchedAssumption == Watched \in User \union {None}
ASSUME RefAssumption == Generic \subseteq Ref /\ DOMAIN Law = Ref
ASSUME OutputAssumption == Output \subseteq [refs: SUBSET Ref, ok: BOOLEAN]
ASSUME GreenAssumption == Green \subseteq Comparison
ASSUME TextAssumption == Text # {}
ASSUME NoneAssumption == None \notin User /\ None \notin Text
ASSUME BoundAssumption == MaxVersions \in Nat

VARIABLES
  holder,    \* who holds the lock of each document (LockLease)
  ann,       \* annotations: the row of each document; edits = 0 when there is none
  denorm,    \* annotation_references: the rows of each document
  versions,  \* annotation_versions: the chain of each document, oldest first
  audit,     \* annotation_audit_logs: the newest row of each document, or NoAudit
  drafts,    \* documents for which the user has a row in drafts, as far as followed
  text,      \* documents_meta.pdf_text
  ingest,    \* text that a running ingestion is about to write, or None
  pred,      \* model_predictions: the row of each document, or NoPrediction
  shown,     \* fingerprint in the last audit report that the user received, if any
  view       \* what the list in the page of Watched begins with, if it read anything

annVars == <<ann, denorm, versions, audit, drafts>>
modelVars == <<text, ingest, pred>>
vars == <<holder, annVars, modelVars, shown, view>>

Annotation == [refs: SUBSET Ref, completed: BOOLEAN, completedBy: User \union {None},
               editor: User \union {None}, edits: Nat, users: Nat]
NoAnnotation == [refs |-> {}, completed |-> FALSE, completedBy |-> None,
                 editor |-> None, edits |-> 0, users |-> 0]

Action == {"create", "edit", "complete_mark", "uncomplete"}
Version == [user: User, refs: SUBSET Ref, added: SUBSET Ref, removed: SUBSET Ref,
            zero: BOOLEAN, action: Action]

Decision == {"model_unavailable", "human_override", "accepted_model", "no_discrepancy"}
\* refs is not a column: it is what the transaction committed with the row.
Audit == [user: User, refs: SUBSET Ref, decision: Decision]
NoAudit == [user |-> None, refs |-> {}, decision |-> "none"]

\* ok: succeeded, not truncated, well-formed.  The fingerprint is that of refs.
Prediction == [refs: SUBSET Ref, ok: BOOLEAN, text: Text]
NoPrediction == [refs |-> {}, ok |-> FALSE, text |-> None]

\* kept: read under the lock, which was not lost since.
Reading == [refs: SUBSET Ref, kept: BOOLEAN]

TypeOK ==
  /\ holder \in [Doc -> User \union {None}]
  /\ ann \in [Doc -> Annotation]
  /\ denorm \in [Doc -> SUBSET Ref]
  /\ versions \in [Doc -> Seq(Version)]
  /\ audit \in [Doc -> Audit \union {NoAudit}]
  /\ drafts \in [User -> SUBSET Doc]
  /\ text \in [Doc -> Text]
  /\ ingest \in [Doc -> Text \union {None}]
  /\ pred \in [Doc -> Prediction \union {NoPrediction}]
  /\ shown \in [User -> [Doc -> SUBSET SUBSET Ref]]
  /\ view \in [Doc -> SUBSET Reading]

Init ==
  /\ holder = [d \in Doc |-> None]
  /\ ann = [d \in Doc |-> NoAnnotation]
  /\ denorm = [d \in Doc |-> {}]
  /\ versions = [d \in Doc |-> <<>>]
  /\ audit = [d \in Doc |-> NoAudit]
  /\ drafts = [u \in User |-> {}]
  /\ text \in [Doc -> Text]
  /\ ingest = [d \in Doc |-> None]
  /\ pred = [d \in Doc |-> NoPrediction]
  /\ shown = [u \in User |-> [d \in Doc |-> {}]]
  /\ view = [d \in Doc |-> {}]

-----------------------------------------------------------------------------
(* References and versions.                                                *)

\* A generic reference gives way to a specific one of the same law.
Normalised(R) ==
  {r \in R : ~ /\ r \in Generic
               /\ Law[r] # None
               /\ \E s \in R \ Generic : Law[s] = Law[r]}

Exists(d) == ann[d].edits > 0

\* Mutant: the diff is taken against the last version of the same user.
SaveVersionOwnDiff(u, d, refs, action) ==
  LET own == {i \in DOMAIN versions[d] : versions[d][i].user = u}
      last == CHOOSE i \in own : \A j \in own : j <= i
      prev == IF own = {} THEN {} ELSE versions[d][last].refs
  IN  [user |-> u, refs |-> refs, added |-> refs \ prev, removed |-> prev \ refs,
       zero |-> refs = prev, action |-> action]

\* The version row of a save: the diff is taken inside the transaction.
SaveVersion(u, d, refs, action) ==
  [user |-> u, refs |-> refs, added |-> refs \ ann[d].refs, removed |-> ann[d].refs \ refs,
   zero |-> refs = ann[d].refs, action |-> action]

\* The version row of a change of the flag alone.
MarkVersion(u, refs, action) ==
  [user |-> u, refs |-> refs, added |-> {}, removed |-> {}, zero |-> TRUE, action |-> action]

\* Who counts in unique_users_count: the author of any version so far.
IsContributor(u, d) == \E i \in DOMAIN versions[d] : versions[d][i].user = u

\* The annotations row after _apply_save_inside_txn: a save without a diff
\* leaves content and attribution alone.
Saved(u, d, refs) ==
  LET counted == [ann[d] EXCEPT !.edits = @ + 1,
                                !.users = @ + (IF IsContributor(u, d) THEN 0 ELSE 1)]
  IN  IF ~Exists(d)
      THEN [NoAnnotation EXCEPT !.refs = refs, !.editor = u, !.edits = 1, !.users = 1]
      ELSE IF refs = ann[d].refs THEN counted
      ELSE [counted EXCEPT !.refs = refs, !.editor = u]

\* Mutant: a save leaves the flag of a completed annotation alone.
ReopenedNever(d, refs, row) == row

\* save_annotation takes the flag back when it changes the references.
Reopened(d, refs, row) ==
  IF Exists(d) /\ refs # ann[d].refs
  THEN [row EXCEPT !.completed = FALSE, !.completedBy = None]
  ELSE row

Marked(u, row) == [row EXCEPT !.completed = TRUE, !.completedBy = u]

Unmarked(row) == [row EXCEPT !.completed = FALSE, !.completedBy = None]

-----------------------------------------------------------------------------
(* The audit of a completion, evaluate_for_commit; ack is the set of the    *)
(* fingerprints that the request acknowledges, at most one.                *)

Ready(d) == pred[d].ok /\ pred[d].text = text[d]

NeedsAck(d, refs) ==
  Ready(d) /\ [human |-> refs, model |-> pred[d].refs, text |-> text[d]] \notin Green

\* Mutant: any acknowledgement will do.
AckAcceptedStale(d, refs, ack) == NeedsAck(d, refs) => ack # {}

AckAccepted(d, refs, ack) ==
  /\ NeedsAck(d, refs) => ack # {}
  /\ Ready(d) => ack \subseteq {pred[d].refs}

Decided(d, refs, prev) ==
  IF ~Ready(d) THEN "model_unavailable"
  ELSE IF NeedsAck(d, refs) THEN "human_override"
  ELSE IF (refs \intersect pred[d].refs) \ prev # {} THEN "accepted_model"
  ELSE "no_discrepancy"

Logged(u, d, refs, prev) ==
  audit' = [audit EXCEPT ![d] = [user |-> u, refs |-> refs, decision |-> Decided(d, refs, prev)]]

-----------------------------------------------------------------------------
(* Locks.                                                                  *)

Lease == INSTANCE LockLease

\* Mutant: the lock of another user does not stop a write.
MayWriteAlways(u, d) == TRUE

MayWrite(u, d) == holder[d] \in {u, None}

\* The user's own write: the page reads the annotation again.
Forget(u, d) == view' = IF u = Watched THEN [view EXCEPT ![d] = {}] ELSE view

\* The page keeps what it read, as does its cache, whatever became of the lock.
Unlocked(u, d) ==
  view' = IF u = Watched THEN [view EXCEPT ![d] = {[v EXCEPT !.kept = FALSE] : v \in @}] ELSE view

Freed(u, d) == holder' = [holder EXCEPT ![d] = IF @ = u THEN None ELSE @]

\* release_if_held, with a save or completion.
Released(u, d) == Freed(u, d) /\ Forget(u, d)

\* acquire, by a page that opens or tries again, and a heartbeat that revives a
\* lease which had run out: the page may show what it read before.
LockGranted(u, d) ==
  /\ Lease!Grant(u, d)
  /\ UNCHANGED <<annVars, modelVars, shown, view>>

LockEnds(u, d) ==
  /\ holder[d] = u
  /\ Lease!End({d})
  /\ Unlocked(u, d)
  /\ UNCHANGED <<annVars, modelVars, shown>>

-----------------------------------------------------------------------------
(* Requests of users.                                                      *)

\* GET annotation, sent beside the request for the lock.
Load(u, d) ==
  /\ u = Watched
  /\ view' = [view EXCEPT ![d] = {[refs |-> ann[d].refs, kept |-> holder[d] = u]}]
  /\ UNCHANGED <<holder, annVars, modelVars, shown>>

PutDraft(u, d) ==
  /\ u = Watched
  /\ drafts' = [drafts EXCEPT ![u] = @ \union {d}]
  /\ UNCHANGED <<holder, ann, denorm, versions, audit, modelVars, shown, view>>

DeleteDraft(u, d) ==
  /\ drafts' = [drafts EXCEPT ![u] = @ \ {d}]
  /\ UNCHANGED <<holder, ann, denorm, versions, audit, modelVars, shown, view>>

Skip(u, d) ==
  /\ drafts' = [drafts EXCEPT ![u] = @ \ {d}]
  /\ Freed(u, d) /\ Unlocked(u, d)
  /\ UNCHANGED <<ann, denorm, versions, audit, modelVars, shown>>

\* Room for one more request in the bounded chain.
Room(d) == Len(versions[d]) < MaxVersions

\* What _apply_save_inside_txn does apart from the annotations and version rows.
SaveRows(u, d, refs) ==
  /\ denorm' = [denorm EXCEPT ![d] =
                  IF Exists(d) /\ refs = ann[d].refs THEN @ ELSE refs]
  /\ drafts' = [drafts EXCEPT ![u] = @ \ {d}]

\* save_annotation
Save(u, d, payload) ==
  LET refs == Normalised(payload)
  IN  /\ MayWrite(u, d)
      /\ Room(d)
      /\ SaveRows(u, d, refs)
      /\ versions' = [versions EXCEPT ![d] =
           Append(@, SaveVersion(u, d, refs, IF Exists(d) THEN "edit" ELSE "create"))]
      /\ ann' = [ann EXCEPT ![d] = Reopened(d, refs, Saved(u, d, refs))]
      /\ Released(u, d)
      /\ UNCHANGED <<audit, modelVars, shown>>

\* set_complete without references: the flag changes.  A flag that has that
\* value already changes nothing, and the lock stays.
Complete(u, d, ack) ==
  LET refs == ann[d].refs
  IN  /\ MayWrite(u, d)
      /\ Room(d)
      /\ Exists(d) /\ ~ann[d].completed
      /\ AckAccepted(d, refs, ack)
      /\ versions' = [versions EXCEPT ![d] = Append(@, MarkVersion(u, refs, "complete_mark"))]
      /\ ann' = [ann EXCEPT ![d] = Marked(u, @)]
      /\ Logged(u, d, refs, refs)
      /\ Released(u, d)
      /\ UNCHANGED <<denorm, drafts, modelVars, shown>>

Uncomplete(u, d) ==
  /\ MayWrite(u, d)
  /\ Room(d)
  /\ ann[d].completed
  /\ versions' = [versions EXCEPT ![d] =
                    Append(@, MarkVersion(u, ann[d].refs, "uncomplete"))]
  /\ ann' = [ann EXCEPT ![d] = Unmarked(@)]
  /\ Released(u, d)
  /\ UNCHANGED <<denorm, audit, drafts, modelVars, shown>>

\* set_complete with references: save and flag in one transaction.  A new
\* annotation gets two version rows, one that is complete already an edit.
SaveAndComplete(u, d, payload, ack) ==
  LET refs == Normalised(payload)
      prev == IF Exists(d) THEN ann[d].refs ELSE refs
      action == IF ~Exists(d) THEN "create"
                ELSE IF ann[d].completed THEN "edit" ELSE "complete_mark"
      chain == Append(versions[d], SaveVersion(u, d, refs, action))
  IN  /\ MayWrite(u, d)
      /\ Room(d)
      /\ AckAccepted(d, refs, ack)
      /\ SaveRows(u, d, refs)
      /\ versions' = [versions EXCEPT ![d] =
           IF Exists(d) THEN chain ELSE Append(chain, MarkVersion(u, refs, "complete_mark"))]
      /\ ann' = [ann EXCEPT ![d] = IF @.completed THEN Saved(u, d, refs)
                                   ELSE Marked(u, Saved(u, d, refs))]
      /\ Logged(u, d, refs, prev)
      /\ Released(u, d)
      /\ UNCHANGED <<modelVars, shown>>

\* AuditAckStale: everything is rolled back, and the answer names the fingerprint.
AckStale(u, d) ==
  /\ MayWrite(u, d)
  /\ Ready(d)
  /\ shown[u][d] \notin {{}, {pred[d].refs}}
  /\ shown' = [shown EXCEPT ![u][d] = {pred[d].refs}]
  /\ UNCHANGED <<holder, annVars, modelVars, view>>

\* pre_audit reports on the row whatever its state.
PreAudit(u, d) ==
  /\ shown' = [shown EXCEPT ![u][d] = IF pred[d] = NoPrediction THEN {} ELSE {pred[d].refs}]
  /\ UNCHANGED <<holder, annVars, modelVars, view>>

-----------------------------------------------------------------------------
(* The model agent and ingestion.                                          *)

\* upsert_predictions keeps an item only if it was computed from the current text.
Predict(d, out) ==
  /\ pred' = [pred EXCEPT ![d] = [refs |-> out.refs, ok |-> out.ok, text |-> text[d]]]
  /\ UNCHANGED <<holder, annVars, text, ingest, shown, view>>

\* _upsert_meta: two statements, each committed by itself.
IngestDrops(d, t) ==
  /\ ingest[d] = None
  /\ t # text[d]
  /\ ingest' = [ingest EXCEPT ![d] = t]
  /\ pred' = [pred EXCEPT ![d] = NoPrediction]
  /\ UNCHANGED <<holder, annVars, text, shown, view>>

IngestWrites(d) ==
  /\ ingest[d] # None
  /\ text' = [text EXCEPT ![d] = ingest[d]]
  /\ ingest' = [ingest EXCEPT ![d] = None]
  /\ UNCHANGED <<holder, annVars, pred, shown, view>>

\* The process that ingests dies between the two statements.
IngestDies(d) ==
  /\ ingest[d] # None
  /\ ingest' = [ingest EXCEPT ![d] = None]
  /\ UNCHANGED <<holder, annVars, text, pred, shown, view>>

-----------------------------------------------------------------------------
LockStep(u, d) == LockGranted(u, d) \/ LockEnds(u, d)

EditorStep(u, d) ==
  \/ Load(u, d)
  \/ PutDraft(u, d)
  \/ DeleteDraft(u, d)
  \/ Skip(u, d)
  \/ PreAudit(u, d)
  \/ \E payload \in SUBSET Ref : Save(u, d, payload)

CompletionStep(u, d) ==
  \/ \E ack \in {{}, shown[u][d]} : Complete(u, d, ack)
  \/ Uncomplete(u, d)
  \/ \E payload \in SUBSET Ref, ack \in {{}, shown[u][d]} :
       SaveAndComplete(u, d, payload, ack)
  \/ AckStale(u, d)

ModelStep(d) ==
  \/ \E out \in Output : Predict(d, out)
  \/ \E t \in Text : IngestDrops(d, t)
  \/ IngestWrites(d)
  \/ IngestDies(d)

Next ==
  \/ \E u \in User, d \in Doc : LockStep(u, d) \/ EditorStep(u, d) \/ CompletionStep(u, d)
  \/ \E d \in Doc : ModelStep(d)

Spec == Init /\ [][Next]_vars

-----------------------------------------------------------------------------
(* Properties.                                                             *)

\* The references that version i of a chain found; i may be one past its end.
Before(chain, i) == IF i = 1 THEN {} ELSE chain[i - 1].refs

Newest(chain) == Before(chain, Len(chain) + 1)

\* v is the version row of a change from prev.
Follows(prev, v) ==
  /\ v.refs = (prev \ v.removed) \union v.added
  /\ v.zero = (v.refs = prev)

Replays(chain) == \A i \in DOMAIN chain : Follows(Before(chain, i), chain[i])

(***************************************************************************)
(* The chain of a document replays to its annotation: applying the diffs   *)
(* one after the other gives the references of every version, is_diff_zero *)
(* says whether one changed anything, and the newest version, the          *)
(* annotation and the denormalised rows agree, whoever wrote in between    *)
(* and whichever of the save and complete paths wrote it.                  *)
(***************************************************************************)
ChainReplays ==
  \A d \in Doc :
    /\ Replays(versions[d])
    /\ ann[d].refs = Newest(versions[d])
    /\ denorm[d] = ann[d].refs

(***************************************************************************)
(* Verified content was audited: while an annotation is completed, the     *)
(* newest audit row of the document was logged for exactly the references  *)
(* it has now, although saves, edits of the completed annotation and       *)
(* saves without a diff may have followed the completion.                  *)
(***************************************************************************)
CompletionIsAudited ==
  \A d \in Doc : ann[d].completed => audit[d] # NoAudit /\ audit[d].refs = ann[d].refs

(***************************************************************************)
(* An override is an informed decision: when the audit logs that a user    *)
(* completed against the model, the last report this user received was of  *)
(* the prediction in force at that moment, and that prediction was         *)
(* computed from the present text, although predictions and texts may have *)
(* been replaced between the report and the completion.                    *)
(***************************************************************************)
OverrideIsInformed ==
  [][\A u \in User, d \in Doc :
       /\ audit'[d] # audit[d]
       /\ audit'[d].user = u
       /\ audit'[d].decision = "human_override"
       => shown[u][d] = {pred[d].refs} /\ pred[d].text = text[d]]_vars

(***************************************************************************)
(* The lock protects a whole edit: what a user read under the lock it has  *)
(* had ever since is still the annotation, so that the list it will save   *)
(* in full does not undo a change of somebody else.  A page that read      *)
(* without the lock, or whose lease ran out and was revived or granted     *)
(* again, has no such promise, and nothing tells it.                       *)
(***************************************************************************)
EditIsCurrent ==
  \A d \in Doc : \A v \in view[d] : v.kept => v.refs = ann[d].refs

=============================================================================
