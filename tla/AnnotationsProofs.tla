------------------------- MODULE AnnotationsProofs -------------------------
(***************************************************************************)
(* For any users, documents, references, audit policy and length of the    *)
(* chains: the chain replays to the annotation, completed content was      *)
(* audited, overrides are informed, the lock protects a whole edit, the    *)
(* columns that repeat the chain agree with it, and the lock is a lease.   *)
(***************************************************************************)
EXTENDS Annotations, TLAPS, FiniteSetTheorems

\* EditIsCurrent alone is not inductive: a write by somebody else leaves a view
\* alone, and only its reader's lock rules such a write out.
ViewIsHeld ==
  \A d \in Doc : \A v \in view[d] : v.kept => Watched \in User /\ holder[d] = Watched

IInv ==
  /\ TypeOK
  /\ ChainReplays
  /\ CompletionIsAudited
  /\ ViewIsHeld
  /\ EditIsCurrent

USE WatchedAssumption, RefAssumption, GreenAssumption, OutputAssumption, TextAssumption, NoneAssumption

LEMMA InitIInv == Init => IInv
<1> SUFFICES ASSUME Init PROVE IInv
  OBVIOUS
<1>1. TypeOK
  BY DEF Init, TypeOK, NoAnnotation, Annotation, Audit, Prediction
<1>2. ChainReplays
  BY DEF Init, ChainReplays, Replays, Newest, Before, NoAnnotation
<1>3. CompletionIsAudited /\ ViewIsHeld /\ EditIsCurrent
  BY DEF Init, CompletionIsAudited, ViewIsHeld, EditIsCurrent, NoAnnotation
<1>. QED  BY <1>1, <1>2, <1>3 DEF IInv

-----------------------------------------------------------------------------
(* Chains and rows.                                                        *)

\* A version that follows from the newest one extends a chain that replays.
LEMMA AppendVersion ==
  ASSUME NEW chain \in Seq(Version), Replays(chain),
         NEW v \in Version, Follows(Newest(chain), v)
  PROVE  /\ Append(chain, v) \in Seq(Version)
         /\ Replays(Append(chain, v))
         /\ Newest(Append(chain, v)) = v.refs
<1> DEFINE longer == Append(chain, v)
<1>1. /\ longer \in Seq(Version)
      /\ Len(longer) = Len(chain) + 1
      /\ longer[Len(chain) + 1] = v
      /\ \A i \in 1 .. Len(chain) : longer[i] = chain[i]
      /\ Len(chain) \in Nat
  OBVIOUS
<1>2. Newest(longer) = v.refs
  BY <1>1 DEF Newest, Before
<1>3. ASSUME NEW i \in DOMAIN longer PROVE Follows(Before(longer, i), longer[i])
  <2>1. i \in 1 .. Len(chain) + 1
    BY <1>1
  <2>2. Before(longer, i) = Before(chain, i)
    BY <1>1, <2>1 DEF Before
  <2>3. CASE i \in 1 .. Len(chain)
    BY <1>1, <2>2, <2>3 DEF Replays
  <2>4. CASE i = Len(chain) + 1
    BY <1>1, <2>2, <2>4 DEF Newest
  <2>. QED  BY <2>1, <2>3, <2>4
<1>. QED  BY <1>1, <1>2, <1>3 DEF Replays

LEMMA NormalisedIsRefs == ASSUME NEW R \in SUBSET Ref PROVE Normalised(R) \in SUBSET Ref
BY DEF Normalised

LEMMA SaveVersionFollows ==
  ASSUME TypeOK, ChainReplays, NEW u \in User, NEW d \in Doc, NEW refs \in SUBSET Ref,
         NEW action \in Action
  PROVE  LET v == SaveVersion(u, d, refs, action)
         IN  v \in Version /\ Follows(Newest(versions[d]), v) /\ v.refs = refs
<1>1. ann[d].refs \in SUBSET Ref /\ ann[d].refs = Newest(versions[d])
  BY DEF TypeOK, Annotation, ChainReplays
<1>. QED  BY <1>1 DEF SaveVersion, Version, Follows

LEMMA MarkVersionFollows ==
  ASSUME NEW u \in User, NEW refs \in SUBSET Ref, NEW action \in Action
  PROVE  LET v == MarkVersion(u, refs, action)
         IN  v \in Version /\ Follows(refs, v) /\ v.refs = refs
BY DEF MarkVersion, Version, Follows

LEMMA SavedRow ==
  ASSUME TypeOK, NEW u \in User, NEW d \in Doc, NEW refs \in SUBSET Ref
  PROVE  /\ Saved(u, d, refs) \in Annotation
         /\ Saved(u, d, refs).refs = refs
         /\ Saved(u, d, refs).completed => ann[d].completed /\ Exists(d)
<1>1. ann[d] \in Annotation
  BY DEF TypeOK
<1> DEFINE new == IF IsContributor(u, d) THEN 0 ELSE 1
           counted == [ann[d] EXCEPT !.edits = @ + 1, !.users = @ + new]
<1>2. ann[d].edits + 1 \in Nat /\ ann[d].users + new \in Nat
  BY <1>1 DEF Annotation
<1>3. counted \in Annotation /\ counted.refs = ann[d].refs
  <2> DEFINE edits == ann[d].edits + 1
             users == ann[d].users + new
  <2>1. edits \in Nat /\ users \in Nat
    BY <1>2
  <2> HIDE DEF edits, users
  <2>2. /\ [ann[d] EXCEPT !.edits = edits, !.users = users] \in Annotation
        /\ [ann[d] EXCEPT !.edits = edits, !.users = users].refs = ann[d].refs
    BY <1>1, <2>1 DEF Annotation
  <2>. QED  BY <2>2 DEF edits, users
<1>4. counted.completed = ann[d].completed
  BY <1>1 DEF Annotation
<1>5. CASE ~Exists(d)
  BY <1>5 DEF Saved, NoAnnotation, Annotation
<1>6. CASE Exists(d) /\ refs = ann[d].refs
  <2>1. Saved(u, d, refs) = counted
    BY <1>6 DEF Saved
  <2>. QED  BY <1>3, <1>4, <1>6, <2>1
<1>7. CASE Exists(d) /\ refs # ann[d].refs
  <2>1. Saved(u, d, refs) = [counted EXCEPT !.refs = refs, !.editor = u]
    BY <1>7 DEF Saved
  <2> HIDE DEF counted
  <2>2. [counted EXCEPT !.refs = refs, !.editor = u] \in Annotation
    BY <1>3 DEF Annotation
  <2>3. /\ [counted EXCEPT !.refs = refs, !.editor = u].refs = refs
        /\ [counted EXCEPT !.refs = refs, !.editor = u].completed = counted.completed
    BY <1>3 DEF Annotation
  <2>. QED  BY <1>4, <1>7, <2>1, <2>2, <2>3
<1>. QED  BY <1>5, <1>6, <1>7

\* What a transaction writes about one document.
LEMMA RecordKeepsChain ==
  ASSUME TypeOK, ChainReplays, CompletionIsAudited, NEW d \in Doc,
         NEW row \in Annotation, NEW chain \in Seq(Version), NEW log \in Audit \union {NoAudit},
         Replays(chain), Newest(chain) = row.refs,
         row.completed => log # NoAudit /\ log.refs = row.refs,
         ann' = [ann EXCEPT ![d] = row],
         versions' = [versions EXCEPT ![d] = chain],
         denorm' = [denorm EXCEPT ![d] = row.refs],
         audit' = [audit EXCEPT ![d] = log]
  PROVE  /\ ann' \in [Doc -> Annotation]
         /\ versions' \in [Doc -> Seq(Version)]
         /\ denorm' \in [Doc -> SUBSET Ref]
         /\ audit' \in [Doc -> Audit \union {NoAudit}]
         /\ ChainReplays'
         /\ CompletionIsAudited'
<1>1. row.refs \in SUBSET Ref
  BY DEF Annotation
<1>2. /\ ann' \in [Doc -> Annotation]
      /\ versions' \in [Doc -> Seq(Version)]
      /\ denorm' \in [Doc -> SUBSET Ref]
      /\ audit' \in [Doc -> Audit \union {NoAudit}]
  BY <1>1 DEF TypeOK
<1>3. ASSUME NEW e \in Doc
      PROVE  /\ Replays(versions'[e])
             /\ ann'[e].refs = Newest(versions'[e])
             /\ denorm'[e] = ann'[e].refs
  <2>1. CASE e = d
    BY <2>1 DEF TypeOK
  <2>2. CASE e # d
    BY <2>2 DEF TypeOK, ChainReplays
  <2>. QED  BY <2>1, <2>2
<1>4. ASSUME NEW e \in Doc, ann'[e].completed
      PROVE  audit'[e] # NoAudit /\ audit'[e].refs = ann'[e].refs
  <2>1. CASE e = d
    BY <1>4, <2>1 DEF TypeOK
  <2>2. CASE e # d
    BY <1>4, <2>2 DEF TypeOK, CompletionIsAudited
  <2>. QED  BY <2>1, <2>2
<1>5. ChainReplays'
  BY <1>3 DEF ChainReplays
<1>6. CompletionIsAudited'
  BY <1>4 DEF CompletionIsAudited
<1>. QED  BY <1>2, <1>5, <1>6

\* A write, made by the holder or under no lock, takes nobody's view.
LEMMA WriteKeepsViews ==
  ASSUME IInv, NEW u \in User, NEW d \in Doc, MayWrite(u, d), Released(u, d),
         \A e \in Doc : e # d => ann'[e] = ann[e]
  PROVE  /\ holder' \in [Doc -> User \union {None}]
         /\ view' \in [Doc -> SUBSET Reading]
         /\ ViewIsHeld'
         /\ EditIsCurrent'
<1>1. /\ holder' \in [Doc -> User \union {None}]
      /\ view' \in [Doc -> SUBSET Reading]
  BY DEF IInv, TypeOK, Released, Freed, Forget
<1>2. ASSUME NEW e \in Doc, NEW v \in view'[e], v.kept
      PROVE  Watched \in User /\ holder'[e] = Watched /\ v.refs = ann'[e].refs
  <2>1. view'[e] \subseteq view[e] /\ (e = d /\ u = Watched => view'[e] = {})
    BY DEF IInv, TypeOK, Released, Forget
  <2>2. v \in view[e] /\ Watched \in User /\ holder[e] = Watched /\ v.refs = ann[e].refs
    BY <1>2, <2>1 DEF IInv, ViewIsHeld, EditIsCurrent
  <2>3. e # d
    BY <1>2, <2>1, <2>2 DEF MayWrite
  <2>4. holder'[e] = holder[e]
    BY <2>3 DEF IInv, TypeOK, Released, Freed
  <2>. QED  BY <2>2, <2>3, <2>4
<1>. QED  BY <1>1, <1>2 DEF ViewIsHeld, EditIsCurrent

\* When the lock is gone nothing that was read counts as kept.
LEMMA UnlockedViews ==
  ASSUME TypeOK, NEW u \in User, NEW d \in Doc, Unlocked(u, d)
  PROVE  /\ view' \in [Doc -> SUBSET Reading]
         /\ \A e \in Doc : \A v \in view'[e] :
              v.kept => v \in view[e] /\ (e = d => u # Watched)
<1>1. CASE u = Watched
  <2> DEFINE late == {[v EXCEPT !.kept = FALSE] : v \in view[d]}
  <2>1. view' = [view EXCEPT ![d] = late] /\ view \in [Doc -> SUBSET Reading]
    BY <1>1 DEF Unlocked, TypeOK
  <2>2. late \in SUBSET Reading /\ \A v \in late : ~v.kept
    <3>1. ASSUME NEW v \in view[d]
          PROVE  [v EXCEPT !.kept = FALSE] \in Reading /\ ~[v EXCEPT !.kept = FALSE].kept
      <4>1. v \in [refs: SUBSET Ref, kept: BOOLEAN]
        BY <2>1 DEF Reading
      <4>. QED  BY <4>1 DEF Reading
    <3>. QED  BY <3>1
  <2> HIDE DEF late
  <2>3. view' \in [Doc -> SUBSET Reading]
    BY <2>1, <2>2
  <2>4. ASSUME NEW e \in Doc, NEW v \in view'[e], v.kept  PROVE v \in view[e] /\ e # d
    BY <2>1, <2>2, <2>4
  <2>. QED  BY <2>3, <2>4
<1>2. CASE u # Watched
  BY <1>2 DEF Unlocked, TypeOK
<1>. QED  BY <1>1, <1>2
-----------------------------------------------------------------------------
(* Every step keeps the invariant.                                         *)

\* What the steps that write no annotation have in common.
LEMMA OtherStepKeeps ==
  ASSUME IInv, TypeOK', UNCHANGED <<ann, denorm, versions, audit>>,
         ViewIsHeld', EditIsCurrent'
  PROVE  IInv'
BY DEF IInv, ChainReplays, CompletionIsAudited

\* What is kept of the views after a lock was given up or taken away.
LEMMA UnlockKeepsViews ==
  ASSUME IInv, NEW u \in User, NEW d \in Doc, Unlocked(u, d), UNCHANGED ann,
         \A e \in Doc : holder'[e] = holder[e] \/ (e = d /\ holder[e] = u)
  PROVE  view' \in [Doc -> SUBSET Reading] /\ ViewIsHeld' /\ EditIsCurrent'
<1>1. /\ view' \in [Doc -> SUBSET Reading]
      /\ \A e \in Doc : \A v \in view'[e] : v.kept => v \in view[e] /\ (e = d => u # Watched)
  BY UnlockedViews DEF IInv
<1>2. ASSUME NEW e \in Doc, NEW v \in view'[e], v.kept
      PROVE  Watched \in User /\ holder'[e] = Watched /\ v.refs = ann'[e].refs
  <2>1. v \in view[e] /\ (e = d => u # Watched)
    BY <1>1, <1>2
  <2>2. Watched \in User /\ holder[e] = Watched /\ v.refs = ann[e].refs
    BY <1>2, <2>1 DEF IInv, ViewIsHeld, EditIsCurrent
  <2>. QED  BY <2>1, <2>2
<1>. QED  BY <1>1, <1>2 DEF ViewIsHeld, EditIsCurrent

LEMMA LockStepKeeps ==
  ASSUME IInv, NEW u \in User, NEW d \in Doc, LockStep(u, d)
  PROVE  IInv'
<1>1. CASE LockGranted(u, d)
  <2>1. /\ holder[d] = None /\ holder' = [holder EXCEPT ![d] = u]
        /\ UNCHANGED <<annVars, modelVars, shown, view>>
    BY <1>1 DEF LockGranted, Lease!Grant
  <2>2. TypeOK'
    BY <2>1 DEF IInv, TypeOK, annVars, modelVars
  <2>3. ASSUME NEW e \in Doc, NEW v \in view[e], v.kept
        PROVE  Watched \in User /\ holder'[e] = Watched /\ v.refs = ann[e].refs
    <3>1. Watched \in User /\ holder[e] = Watched /\ v.refs = ann[e].refs
      BY <2>3 DEF IInv, ViewIsHeld, EditIsCurrent
    <3>2. e # d
      BY <2>1, <3>1
    <3>3. holder'[e] = holder[e]
      BY <2>1, <3>2 DEF IInv, TypeOK
    <3>. QED  BY <3>1, <3>3
  <2>4. ViewIsHeld' /\ EditIsCurrent'
    BY <2>1, <2>3 DEF ViewIsHeld, EditIsCurrent, annVars
  <2>. QED  BY <2>1, <2>2, <2>4, OtherStepKeeps DEF annVars
<1>2. CASE LockEnds(u, d)
  <2>1. /\ holder[d] = u /\ Unlocked(u, d)
        /\ UNCHANGED <<annVars, modelVars, shown>>
    BY <1>2 DEF LockEnds
  <2>2. holder' = [holder EXCEPT ![d] = None]
    BY <1>2 DEF LockEnds, Lease!End, IInv, TypeOK
  <2>3. \A e \in Doc : holder'[e] = holder[e] \/ (e = d /\ holder[e] = u)
    BY <2>1, <2>2 DEF IInv, TypeOK
  <2>4. view' \in [Doc -> SUBSET Reading] /\ ViewIsHeld' /\ EditIsCurrent'
    BY <2>1, <2>3, UnlockKeepsViews DEF annVars
  <2>5. TypeOK'
    BY <2>1, <2>2, <2>4 DEF IInv, TypeOK, annVars, modelVars
  <2>. QED  BY <2>1, <2>4, <2>5, OtherStepKeeps DEF annVars
<1>. QED  BY <1>1, <1>2 DEF LockStep

LEMMA ModelStepKeeps ==
  ASSUME IInv, NEW d \in Doc, ModelStep(d)
  PROVE  IInv'
<1>1. UNCHANGED <<holder, annVars, shown, view>>
  BY DEF ModelStep, Predict, IngestDrops, IngestWrites, IngestDies
<1>2. /\ text' \in [Doc -> Text]
      /\ ingest' \in [Doc -> Text \union {None}]
      /\ pred' \in [Doc -> Prediction \union {NoPrediction}]
  <2>1. CASE \E out \in Output : Predict(d, out)
    <3>1. PICK out \in Output : Predict(d, out)
      BY <2>1
    <3>2. [refs |-> out.refs, ok |-> out.ok, text |-> text[d]] \in Prediction
      BY DEF IInv, TypeOK, Prediction
    <3>. QED  BY <3>1, <3>2 DEF Predict, IInv, TypeOK
  <2>2. CASE \E t \in Text : IngestDrops(d, t)
    BY <2>2 DEF IngestDrops, IInv, TypeOK
  <2>3. CASE IngestWrites(d) \/ IngestDies(d)
    BY <2>3 DEF IngestWrites, IngestDies, IInv, TypeOK
  <2>. QED  BY <2>1, <2>2, <2>3 DEF ModelStep
<1>. QED  BY <1>1, <1>2, OtherStepKeeps
       DEF annVars, IInv, TypeOK, ViewIsHeld, EditIsCurrent

\* The rest of the variables after a write.
LEMMA WriteStepKeeps ==
  ASSUME IInv, NEW u \in User, NEW d \in Doc,
         MayWrite(u, d), Released(u, d),
         NEW row \in Annotation, ann' = [ann EXCEPT ![d] = row],
         NEW chain \in Seq(Version), versions' = [versions EXCEPT ![d] = chain],
         Replays(chain), Newest(chain) = row.refs,
         denorm' = [denorm EXCEPT ![d] = row.refs],
         NEW log \in Audit \union {NoAudit}, audit' = [audit EXCEPT ![d] = log],
         row.completed => log # NoAudit /\ log.refs = row.refs,
         drafts' \in [User -> SUBSET Doc],
         UNCHANGED <<modelVars, shown>>
  PROVE  IInv'
<1>1. \A e \in Doc : e # d => ann'[e] = ann[e]
  BY DEF IInv, TypeOK
<1>2. /\ holder' \in [Doc -> User \union {None}]
      /\ view' \in [Doc -> SUBSET Reading]
      /\ ViewIsHeld' /\ EditIsCurrent'
  BY <1>1, WriteKeepsViews
<1>3. TypeOK /\ ChainReplays /\ CompletionIsAudited
  BY DEF IInv
<1>4. /\ ann' \in [Doc -> Annotation]
      /\ versions' \in [Doc -> Seq(Version)]
      /\ denorm' \in [Doc -> SUBSET Ref]
      /\ audit' \in [Doc -> Audit \union {NoAudit}]
      /\ ChainReplays' /\ CompletionIsAudited'
  BY <1>3, RecordKeepsChain
<1>5. TypeOK'
  BY <1>2, <1>3, <1>4 DEF TypeOK, modelVars
<1>. QED  BY <1>2, <1>4, <1>5 DEF IInv

\* A row without content changes of its own, and the audit that is in force.
LEMMA OldRow ==
  ASSUME IInv, NEW d \in Doc
  PROVE  /\ ann[d] \in Annotation
         /\ ann[d].refs \in SUBSET Ref
         /\ versions[d] \in Seq(Version)
         /\ Replays(versions[d])
         /\ Newest(versions[d]) = ann[d].refs
         /\ denorm[d] = ann[d].refs
         /\ audit[d] \in Audit \union {NoAudit}
         /\ ann[d].completed => audit[d] # NoAudit /\ audit[d].refs = ann[d].refs
BY DEF IInv, TypeOK, ChainReplays, CompletionIsAudited, Annotation

\* The row of an annotation whose flag is set or taken back.
LEMMA MarkedRow ==
  ASSUME NEW u \in User, NEW r \in Annotation
  PROVE  /\ Marked(u, r) \in Annotation /\ Marked(u, r).refs = r.refs
         /\ Marked(u, r).users = r.users /\ Marked(u, r).edits = r.edits
         /\ Marked(u, r).editor = r.editor
<1>1. Marked(u, r) \in Annotation
  BY DEF Marked, Annotation
<1>2. Marked(u, r).refs = r.refs /\ Marked(u, r).users = r.users
  BY DEF Marked, Annotation
<1>3. Marked(u, r).edits = r.edits /\ Marked(u, r).editor = r.editor
  BY DEF Marked, Annotation
<1>. QED  BY <1>1, <1>2, <1>3

LEMMA UnmarkedRow ==
  ASSUME NEW r \in Annotation
  PROVE  /\ Unmarked(r) \in Annotation /\ Unmarked(r).refs = r.refs
         /\ Unmarked(r).users = r.users /\ Unmarked(r).edits = r.edits
         /\ Unmarked(r).editor = r.editor /\ ~Unmarked(r).completed
<1>1. Unmarked(r) \in Annotation
  BY DEF Unmarked, Annotation
<1>2. Unmarked(r).refs = r.refs /\ Unmarked(r).users = r.users
  BY DEF Unmarked, Annotation
<1>3. Unmarked(r).edits = r.edits /\ Unmarked(r).editor = r.editor
  BY DEF Unmarked, Annotation
<1>4. ~Unmarked(r).completed
  BY DEF Unmarked, Annotation
<1>. QED  BY <1>1, <1>2, <1>3, <1>4

\* The audit row that a completion logs.
LEMMA LogRow ==
  ASSUME NEW u \in User, NEW d \in Doc, NEW refs \in SUBSET Ref, NEW prev \in SUBSET Ref
  PROVE  LET log == [user |-> u, refs |-> refs, decision |-> Decided(d, refs, prev)]
         IN  log \in Audit /\ log # NoAudit /\ log.refs = refs
BY DEF Decided, Audit, Decision, NoAudit

\* The row of a completed annotation that a save reopens.
LEMMA ReopenedRow ==
  ASSUME NEW saved \in Annotation
  PROVE  LET row == [saved EXCEPT !.completed = FALSE, !.completedBy = None]
         IN  row \in Annotation /\ row.refs = saved.refs /\ row.completed = FALSE
BY DEF Annotation

LEMMA SaveKeeps ==
  ASSUME IInv, NEW u \in User, NEW d \in Doc, NEW payload \in SUBSET Ref, Save(u, d, payload)
  PROVE  IInv'
<1> DEFINE refs == Normalised(payload)
           action == IF Exists(d) THEN "edit" ELSE "create"
           v == SaveVersion(u, d, refs, action)
           saved == Saved(u, d, refs)
           row == Reopened(d, refs, saved)
<1>1. TypeOK /\ ChainReplays
  BY DEF IInv
<1>2. refs \in SUBSET Ref /\ action \in Action
  BY NormalisedIsRefs DEF Action
<1> HIDE DEF refs, action
<1>3. v \in Version /\ Follows(Newest(versions[d]), v) /\ v.refs = refs
  BY <1>1, <1>2, SaveVersionFollows
<1>4. saved \in Annotation /\ saved.refs = refs /\ (saved.completed => ann[d].completed /\ Exists(d))
  BY <1>1, <1>2, SavedRow
<1> HIDE DEF v, saved
<1>5. /\ row \in Annotation
      /\ row.refs = refs
      /\ row.completed => ann[d].completed /\ refs = ann[d].refs
  <2>1. CASE Exists(d) /\ refs # ann[d].refs
    <3>1. row = [saved EXCEPT !.completed = FALSE, !.completedBy = None]
      BY <2>1 DEF Reopened
    <3> HIDE DEF row
    <3>2. row \in Annotation /\ row.refs = saved.refs /\ row.completed = FALSE
      BY <1>4, <3>1, ReopenedRow
    <3>. QED  BY <1>4, <3>2
  <2>2. CASE ~(Exists(d) /\ refs # ann[d].refs)
    <3>1. row = saved
      BY <2>2 DEF Reopened
    <3>. QED  BY <1>4, <2>2, <3>1
  <2>. QED  BY <2>1, <2>2
<1>6. /\ Append(versions[d], v) \in Seq(Version)
      /\ Replays(Append(versions[d], v))
      /\ Newest(Append(versions[d], v)) = refs
  BY <1>3, OldRow, AppendVersion
<1>7. /\ MayWrite(u, d) /\ Released(u, d)
      /\ ann' = [ann EXCEPT ![d] = row]
      /\ versions' = [versions EXCEPT ![d] = Append(@, v)]
      /\ denorm' = [denorm EXCEPT ![d] = IF Exists(d) /\ refs = ann[d].refs THEN @ ELSE refs]
      /\ drafts' = [drafts EXCEPT ![u] = @ \ {d}]
      /\ UNCHANGED <<audit, modelVars, shown>>
  BY DEF Save, SaveRows, refs, action, v, saved
<1> HIDE DEF row
<1>8. denorm' = [denorm EXCEPT ![d] = row.refs]
  BY <1>5, <1>7, OldRow DEF IInv, TypeOK
<1>9. audit' = [audit EXCEPT ![d] = audit[d]]
  BY <1>7 DEF IInv, TypeOK
<1>10. row.completed => audit[d] # NoAudit /\ audit[d].refs = row.refs
  BY <1>5, OldRow
<1>11. drafts' \in [User -> SUBSET Doc]
  BY <1>7 DEF IInv, TypeOK
<1> DEFINE chain == Append(versions[d], v)
<1>12. /\ chain \in Seq(Version) /\ Replays(chain) /\ Newest(chain) = row.refs
       /\ versions' = [versions EXCEPT ![d] = chain]
  BY <1>5, <1>6, <1>7
<1>13. audit[d] \in Audit \union {NoAudit}
  BY OldRow
<1> HIDE DEF chain
<1>14. row \in Annotation /\ ann' = [ann EXCEPT ![d] = row]
  BY <1>5, <1>7
<1>15. MayWrite(u, d) /\ Released(u, d) /\ UNCHANGED <<modelVars, shown>>
  BY <1>7
<1>. QED
  BY <1>8, <1>9, <1>10, <1>11, <1>12, <1>13, <1>14, <1>15, WriteStepKeeps

\* A version row for the flag alone.
LEMMA MarkKeeps ==
  ASSUME IInv, NEW u \in User, NEW d \in Doc, NEW action \in Action,
         MayWrite(u, d), Released(u, d),
         versions' = [versions EXCEPT ![d] = Append(@, MarkVersion(u, ann[d].refs, action))],
         NEW row \in Annotation, row.refs = ann[d].refs, ann' = [ann EXCEPT ![d] = row],
         NEW log \in Audit \union {NoAudit}, audit' = [audit EXCEPT ![d] = log],
         row.completed => log # NoAudit /\ log.refs = row.refs,
         UNCHANGED <<denorm, drafts, modelVars, shown>>
  PROVE  IInv'
<1> DEFINE v == MarkVersion(u, ann[d].refs, action)
<1>1. v \in Version /\ Follows(ann[d].refs, v) /\ v.refs = ann[d].refs
  BY OldRow, MarkVersionFollows
<1> HIDE DEF v
<1>2. /\ Append(versions[d], v) \in Seq(Version)
      /\ Replays(Append(versions[d], v))
      /\ Newest(Append(versions[d], v)) = row.refs
  BY <1>1, OldRow, AppendVersion
<1>3. versions' = [versions EXCEPT ![d] = Append(versions[d], v)]
  BY DEF v
<1>4. denorm' = [denorm EXCEPT ![d] = row.refs]
  BY OldRow DEF IInv, TypeOK
<1>5. drafts' \in [User -> SUBSET Doc]
  BY DEF IInv, TypeOK
<1>. QED
  BY <1>2, <1>3, <1>4, <1>5, WriteStepKeeps

LEMMA CompleteKeeps ==
  ASSUME IInv, NEW u \in User, NEW d \in Doc, NEW ack, Complete(u, d, ack)
  PROVE  IInv'
<1> DEFINE row == Marked(u, ann[d])
           log == [user |-> u, refs |-> ann[d].refs,
                   decision |-> Decided(d, ann[d].refs, ann[d].refs)]
<1>1. row \in Annotation /\ row.refs = ann[d].refs
  BY OldRow, MarkedRow
<1>2. log \in Audit /\ log # NoAudit /\ log.refs = ann[d].refs
  BY OldRow, LogRow
<1>3. "complete_mark" \in Action
  BY DEF Action
<1>4. /\ MayWrite(u, d) /\ Released(u, d)
      /\ versions' = [versions EXCEPT ![d] =
                        Append(@, MarkVersion(u, ann[d].refs, "complete_mark"))]
      /\ ann' = [ann EXCEPT ![d] = row]
      /\ audit' = [audit EXCEPT ![d] = log]
      /\ UNCHANGED <<denorm, drafts, modelVars, shown>>
  BY DEF Complete, Logged
<1> HIDE DEF row, log
<1>. QED
  BY <1>1, <1>2, <1>3, <1>4, MarkKeeps

LEMMA UncompleteKeeps ==
  ASSUME IInv, NEW u \in User, NEW d \in Doc, Uncomplete(u, d)
  PROVE  IInv'
<1> DEFINE row == Unmarked(ann[d])
<1>1. row \in Annotation /\ row.refs = ann[d].refs /\ ~row.completed
  BY OldRow, UnmarkedRow
<1>2. "uncomplete" \in Action
  BY DEF Action
<1>3. /\ MayWrite(u, d) /\ Released(u, d)
      /\ versions' = [versions EXCEPT ![d] =
                        Append(@, MarkVersion(u, ann[d].refs, "uncomplete"))]
      /\ ann' = [ann EXCEPT ![d] = row]
      /\ UNCHANGED <<denorm, audit, drafts, modelVars, shown>>
  BY DEF Uncomplete
<1>4. audit' = [audit EXCEPT ![d] = audit[d]]
  BY <1>3 DEF IInv, TypeOK
<1> HIDE DEF row
<1>. QED
  BY <1>1, <1>2, <1>3, <1>4, OldRow, MarkKeeps

LEMMA SaveAndCompleteKeeps ==
  ASSUME IInv, NEW u \in User, NEW d \in Doc, NEW payload \in SUBSET Ref, NEW ack,
         SaveAndComplete(u, d, payload, ack)
  PROVE  IInv'
<1> DEFINE refs == Normalised(payload)
           prev == IF Exists(d) THEN ann[d].refs ELSE refs
           action == IF ~Exists(d) THEN "create"
                     ELSE IF ann[d].completed THEN "edit" ELSE "complete_mark"
           v == SaveVersion(u, d, refs, action)
           mark == MarkVersion(u, refs, "complete_mark")
           first == Append(versions[d], v)
           chain == IF Exists(d) THEN first ELSE Append(first, mark)
           saved == Saved(u, d, refs)
           row == IF ann[d].completed THEN saved ELSE Marked(u, saved)
           log == [user |-> u, refs |-> refs, decision |-> Decided(d, refs, prev)]
<1>1. TypeOK /\ ChainReplays
  BY DEF IInv
<1>2. refs \in SUBSET Ref /\ action \in Action /\ "complete_mark" \in Action
  BY NormalisedIsRefs DEF Action
<1>3. /\ MayWrite(u, d) /\ Released(u, d)
      /\ ann' = [ann EXCEPT ![d] = row]
      /\ versions' = [versions EXCEPT ![d] = chain]
      /\ denorm' = [denorm EXCEPT ![d] = IF Exists(d) /\ refs = ann[d].refs THEN @ ELSE refs]
      /\ drafts' = [drafts EXCEPT ![u] = @ \ {d}]
      /\ audit' = [audit EXCEPT ![d] = log]
      /\ UNCHANGED <<modelVars, shown>>
  BY DEF SaveAndComplete, SaveRows, Logged
<1> HIDE DEF refs, action
<1>4. prev \in SUBSET Ref
  BY <1>2, OldRow
<1> HIDE DEF prev
<1>5. log \in Audit /\ log # NoAudit /\ log.refs = refs
  BY <1>2, <1>4, LogRow
<1>6. v \in Version /\ Follows(Newest(versions[d]), v) /\ v.refs = refs
  BY <1>1, <1>2, SaveVersionFollows
<1>7. mark \in Version /\ Follows(refs, mark) /\ mark.refs = refs
  BY <1>2, MarkVersionFollows
<1>8. saved \in Annotation /\ saved.refs = refs
  BY <1>1, <1>2, SavedRow
<1> HIDE DEF v, mark, saved, log
<1>9. row \in Annotation /\ row.refs = refs
  <2>1. Marked(u, saved) \in Annotation /\ Marked(u, saved).refs = refs
    BY <1>8 DEF Marked, Annotation
  <2>. QED  BY <1>8, <2>1
<1>10. first \in Seq(Version) /\ Replays(first) /\ Newest(first) = refs
  BY <1>6, OldRow, AppendVersion
<1> HIDE DEF first, row
<1>11. chain \in Seq(Version) /\ Replays(chain) /\ Newest(chain) = refs
  <2>1. /\ Append(first, mark) \in Seq(Version)
        /\ Replays(Append(first, mark))
        /\ Newest(Append(first, mark)) = refs
    BY <1>7, <1>10, AppendVersion
  <2>. QED  BY <1>10, <2>1
<1> HIDE DEF chain
<1>12. denorm' = [denorm EXCEPT ![d] = row.refs]
  BY <1>3, <1>9, OldRow DEF IInv, TypeOK
<1>13. drafts' \in [User -> SUBSET Doc]
  BY <1>3 DEF IInv, TypeOK
<1>. QED
  BY <1>3, <1>5, <1>9, <1>11, <1>12, <1>13, WriteStepKeeps

LEMMA SkipKeeps ==
  ASSUME IInv, NEW u \in User, NEW d \in Doc, Skip(u, d)
  PROVE  IInv'
<1>1. /\ Freed(u, d) /\ Unlocked(u, d)
      /\ drafts' = [drafts EXCEPT ![u] = @ \ {d}]
      /\ UNCHANGED <<ann, denorm, versions, audit, modelVars, shown>>
  BY DEF Skip
<1>2. /\ holder' \in [Doc -> User \union {None}]
      /\ \A e \in Doc : holder'[e] = holder[e] \/ (e = d /\ holder[e] = u)
  BY <1>1 DEF Freed, IInv, TypeOK
<1>3. view' \in [Doc -> SUBSET Reading] /\ ViewIsHeld' /\ EditIsCurrent'
  BY <1>1, <1>2, UnlockKeepsViews
<1>4. TypeOK'
  BY <1>1, <1>2, <1>3 DEF IInv, TypeOK, modelVars
<1>. QED  BY <1>1, <1>3, <1>4, OtherStepKeeps

\* Reads, drafts and reports.
LEMMA ReaderKeeps ==
  ASSUME IInv, NEW u \in User, NEW d \in Doc,
         \/ Load(u, d) \/ PutDraft(u, d) \/ DeleteDraft(u, d)
         \/ PreAudit(u, d) \/ AckStale(u, d)
  PROVE  IInv'
<1>1. TypeOK'
  <2>1. ann[d].refs \in SUBSET Ref /\ pred[d].refs \in SUBSET Ref
    <3>1. ann[d] \in Annotation /\ pred[d] \in Prediction \union {NoPrediction}
      BY DEF IInv, TypeOK
    <3>2. ann[d].refs \in SUBSET Ref
      BY <3>1 DEF Annotation
    <3>3. pred[d].refs \in SUBSET Ref
      BY <3>1 DEF Prediction, NoPrediction
    <3>. QED  BY <3>2, <3>3
  <2>2. CASE Load(u, d)
    <3>1. [refs |-> ann[d].refs, kept |-> holder[d] = u] \in Reading
      BY <2>1 DEF Reading
    <3>2. view' \in [Doc -> SUBSET Reading]
      BY <2>2, <3>1 DEF Load, IInv, TypeOK
    <3>. QED  BY <2>2, <3>2 DEF Load, IInv, TypeOK, annVars, modelVars
  <2>3. CASE PutDraft(u, d)
    BY <2>3 DEF PutDraft, IInv, TypeOK, modelVars
  <2>4. CASE DeleteDraft(u, d)
    BY <2>4 DEF DeleteDraft, IInv, TypeOK, modelVars
  <2>5. CASE PreAudit(u, d)
    BY <2>1, <2>5 DEF PreAudit, IInv, TypeOK, annVars, modelVars
  <2>6. CASE AckStale(u, d)
    BY <2>1, <2>6 DEF AckStale, IInv, TypeOK, annVars, modelVars
  <2>. QED  BY <2>2, <2>3, <2>4, <2>5, <2>6
<1>2. UNCHANGED <<holder, ann, denorm, versions, audit>>
  BY DEF Load, PutDraft, DeleteDraft, PreAudit, AckStale, annVars
<1>3. ViewIsHeld' /\ EditIsCurrent'
  <2>1. CASE Load(u, d)
    <3>1. ASSUME NEW e \in Doc, NEW v \in view'[e], v.kept
          PROVE  Watched \in User /\ holder[e] = Watched /\ v.refs = ann[e].refs
      <4>1. CASE e = d
        <5>1. v = [refs |-> ann[d].refs, kept |-> holder[d] = u] /\ u = Watched
          BY <2>1, <4>1 DEF Load, IInv, TypeOK
        <5>. QED  BY <3>1, <4>1, <5>1
      <4>2. CASE e # d
        <5>1. v \in view[e]
          BY <2>1, <4>2 DEF Load, IInv, TypeOK
        <5>. QED  BY <3>1, <5>1 DEF IInv, ViewIsHeld, EditIsCurrent
      <4>. QED  BY <4>1, <4>2
    <3>. QED  BY <1>2, <3>1 DEF ViewIsHeld, EditIsCurrent
  <2>2. CASE UNCHANGED view
    BY <1>2, <2>2 DEF IInv, ViewIsHeld, EditIsCurrent
  <2>. QED
    BY <2>1, <2>2 DEF PutDraft, DeleteDraft, PreAudit, AckStale
<1>. QED  BY <1>1, <1>2, <1>3, OtherStepKeeps

LEMMA NextIInv == IInv /\ [Next]_vars => IInv'
<1> SUFFICES ASSUME IInv, [Next]_vars PROVE IInv'
  OBVIOUS
<1>1. ASSUME NEW u \in User, NEW d \in Doc, EditorStep(u, d) PROVE IInv'
  BY <1>1, ReaderKeeps, SkipKeeps, SaveKeeps DEF EditorStep
<1>2. ASSUME NEW u \in User, NEW d \in Doc, CompletionStep(u, d) PROVE IInv'
  BY <1>2, CompleteKeeps, UncompleteKeeps, SaveAndCompleteKeeps, ReaderKeeps
    DEF CompletionStep
<1>3. CASE UNCHANGED vars
  BY <1>3 DEF vars, annVars, modelVars, IInv, TypeOK, ChainReplays, CompletionIsAudited,
              ViewIsHeld, EditIsCurrent
<1>. QED  BY <1>1, <1>2, <1>3, LockStepKeeps, ModelStepKeeps DEF Next

THEOREM InvariantHolds == Spec => []IInv
BY InitIInv, NextIInv, PTL DEF Spec

\* Every row, chain, audit, draft and prediction keeps its type, whichever of the
\* save, complete and skip paths and of the ingest writes it.
THEOREM TypesHold == Spec => []TypeOK
<1>1. IInv => TypeOK
  BY DEF IInv
<1>. QED  BY <1>1, InvariantHolds, PTL

-----------------------------------------------------------------------------
(***************************************************************************)
(* While an annotation is completed, the newest audit row was logged for   *)
(* exactly the references it has.                                          *)
(***************************************************************************)
THEOREM CompletedContentIsAudited == Spec => []CompletionIsAudited
<1>1. IInv => CompletionIsAudited
  BY DEF IInv
<1>. QED  BY <1>1, InvariantHolds, PTL

(***************************************************************************)
(* The version chain of every document replays to its annotation and to    *)
(* its denormalised rows.                                                  *)
(***************************************************************************)
THEOREM ChainsReplay == Spec => []ChainReplays
<1>1. IInv => ChainReplays
  BY DEF IInv
<1>. QED  BY <1>1, InvariantHolds, PTL

(***************************************************************************)
(* What an editor read under its lock stays current until the lock is gone.*)
(***************************************************************************)
THEOREM EditsAreCurrent == Spec => []EditIsCurrent
<1>1. IInv => EditIsCurrent
  BY DEF IInv
<1>. QED  BY <1>1, InvariantHolds, PTL

(***************************************************************************)
(* Every logged override rests on a report of the prediction in force.     *)
(***************************************************************************)
THEOREM OverridesAreInformed == Spec => OverrideIsInformed
<1> DEFINE Informed(u, d) ==
      /\ audit'[d] # audit[d]
      /\ audit'[d].user = u
      /\ audit'[d].decision = "human_override"
      => shown[u][d] = {pred[d].refs} /\ pred[d].text = text[d]
<1>1. ASSUME IInv, Next, NEW u \in User, NEW d \in Doc PROVE Informed(u, d)
  <2>1. ASSUME NEW w \in User, NEW e \in Doc, NEW ack \in {{}, shown[w][e]},
               NEW refs, NEW prev, AckAccepted(e, refs, ack),
               Logged(w, e, refs, prev)
        PROVE  Informed(u, d)
    <3> SUFFICES ASSUME audit'[d] # audit[d], audit'[d].user = u,
                        audit'[d].decision = "human_override"
                 PROVE  shown[u][d] = {pred[d].refs} /\ pred[d].text = text[d]
      OBVIOUS
    <3>1. d = e
      BY <2>1 DEF Logged, IInv, TypeOK
    <3>2. audit'[d] = [user |-> w, refs |-> refs, decision |-> Decided(e, refs, prev)]
      BY <2>1, <3>1 DEF Logged, IInv, TypeOK
    <3>3. w = u /\ Decided(e, refs, prev) = "human_override"
      BY <3>2
    <3>4. Ready(e) /\ NeedsAck(e, refs)
      BY <3>3 DEF Decided
    <3>5. ack = {pred[e].refs} /\ ack = shown[w][e]
      BY <2>1, <3>4 DEF AckAccepted
    <3>. QED  BY <3>1, <3>3, <3>4, <3>5 DEF Ready
  <2>2. ASSUME NEW w \in User, NEW e \in Doc, CompletionStep(w, e) PROVE Informed(u, d)
    <3>1. ASSUME NEW ack \in {{}, shown[w][e]}, Complete(w, e, ack) PROVE Informed(u, d)
      <4> DEFINE refs == ann[e].refs
      <4>1. AckAccepted(e, refs, ack) /\ Logged(w, e, refs, refs)
        BY <3>1 DEF Complete
      <4> HIDE DEF refs
      <4>. QED  BY <2>1, <4>1
    <3>2. ASSUME NEW payload \in SUBSET Ref, NEW ack \in {{}, shown[w][e]},
                 SaveAndComplete(w, e, payload, ack)
          PROVE  Informed(u, d)
      BY <2>1, <3>2 DEF SaveAndComplete
    <3>3. CASE UNCHANGED audit
      BY <3>3
    <3>4. CASE Uncomplete(w, e) \/ AckStale(w, e)
      BY <3>3, <3>4 DEF Uncomplete, AckStale, annVars
    <3>. QED  BY <2>2, <3>1, <3>2, <3>4 DEF CompletionStep
  <2>3. CASE UNCHANGED audit
    BY <2>3
  <2>4. ASSUME NEW w \in User, NEW e \in Doc, LockStep(w, e) PROVE UNCHANGED audit
    BY <2>4 DEF LockStep, LockGranted, LockEnds, annVars
  <2>5. ASSUME NEW w \in User, NEW e \in Doc, EditorStep(w, e) PROVE UNCHANGED audit
    <3>1. ASSUME NEW payload \in SUBSET Ref, Save(w, e, payload) PROVE UNCHANGED audit
      BY <3>1 DEF Save
    <3>2. CASE Load(w, e) \/ PutDraft(w, e) \/ DeleteDraft(w, e)
      BY <3>2 DEF Load, PutDraft, DeleteDraft, annVars
    <3>3. CASE Skip(w, e) \/ PreAudit(w, e)
      BY <3>3 DEF Skip, PreAudit, annVars
    <3>. QED  BY <2>5, <3>1, <3>2, <3>3 DEF EditorStep
  <2>6. ASSUME NEW e \in Doc, ModelStep(e) PROVE UNCHANGED audit
    <3>1. ASSUME NEW out \in Output, Predict(e, out) PROVE UNCHANGED audit
      BY <3>1 DEF Predict, annVars
    <3>2. ASSUME NEW t \in Text, IngestDrops(e, t) PROVE UNCHANGED audit
      BY <3>2 DEF IngestDrops, annVars
    <3>3. CASE IngestWrites(e) \/ IngestDies(e)
      BY <3>3 DEF IngestWrites, IngestDies, annVars
    <3>. QED  BY <2>6, <3>1, <3>2, <3>3 DEF ModelStep
  <2>. QED  BY <1>1, <2>2, <2>3, <2>4, <2>5, <2>6 DEF Next
<1>2. IInv /\ [Next]_vars => [\A u \in User, d \in Doc : Informed(u, d)]_vars
  BY <1>1
<1>. QED  BY <1>2, InvariantHolds, PTL DEF Spec, OverrideIsInformed

-----------------------------------------------------------------------------
(* The columns that repeat what the chain says.                            *)

Authors(chain) == {chain[i].user : i \in DOMAIN chain}

\* u wrote the newest version with a change, or the first if none has one.
IsAttribution(chain, u) ==
  \E i \in DOMAIN chain :
    /\ chain[i].user = u
    /\ i = 1 \/ ~chain[i].zero
    /\ \A j \in DOMAIN chain : j > i => chain[j].zero

\* unique_users_count never counts an author twice (_apply_save_inside_txn).
AuthorsAreCountedOnce ==
  \A d \in Doc : ann[d].users <= Cardinality(Authors(versions[d]))

\* last_edited_by is whoever wrote the present content: saves without a diff and
\* changes of the flag, by whomever, take the credit from nobody.
EditorWroteTheContent ==
  \A d \in Doc : IF Exists(d) THEN IsAttribution(versions[d], ann[d].editor)
                 ELSE versions[d] = <<>>

\* What a row says of its chain.
Told(row, chain) ==
  /\ row.users <= Cardinality(Authors(chain))
  /\ row.edits # 0 => IsAttribution(chain, row.editor)
  /\ row.edits = 0 => chain = <<>> /\ ~row.completed

AllTold == \A d \in Doc : Told(ann[d], versions[d])

LEMMA AuthorsFinite ==
  ASSUME NEW chain \in Seq(Version)
  PROVE  IsFiniteSet(Authors(chain)) /\ Cardinality(Authors(chain)) \in Nat
<1> DEFINE f == [i \in 1..Len(chain) |-> chain[i].user]
<1>1. Len(chain) \in Nat /\ DOMAIN chain = 1..Len(chain)
  OBVIOUS
<1>2. IsFiniteSet(1..Len(chain))
  BY <1>1, FS_Interval
<1>3. f \in Surjection(1..Len(chain), Authors(chain))
  BY <1>1 DEF Surjection, Authors
<1>. QED  BY <1>2, <1>3, FS_Surjection, FS_CardinalityType

LEMMA AuthorsAppend ==
  ASSUME NEW chain \in Seq(Version), NEW v \in Version
  PROVE  Authors(Append(chain, v)) = Authors(chain) \union {v.user}
<1> DEFINE longer == Append(chain, v)
<1>1. /\ Len(chain) \in Nat
      /\ DOMAIN longer = 1..(Len(chain) + 1) /\ DOMAIN chain = 1..Len(chain)
      /\ longer[Len(chain) + 1] = v
      /\ \A i \in 1..Len(chain) : longer[i] = chain[i]
  OBVIOUS
<1>2. ASSUME NEW a \in Authors(longer) PROVE a \in Authors(chain) \union {v.user}
  <2>1. PICK i \in DOMAIN longer : a = longer[i].user
    BY <1>2 DEF Authors
  <2>2. CASE i = Len(chain) + 1
    BY <1>1, <2>1, <2>2
  <2>3. CASE i \in 1..Len(chain)
    BY <1>1, <2>1, <2>3 DEF Authors
  <2>. QED  BY <1>1, <2>1, <2>2, <2>3
<1>3. ASSUME NEW a \in Authors(chain) PROVE a \in Authors(longer)
  <2>1. PICK i \in 1..Len(chain) : a = chain[i].user
    BY <1>1, <1>3 DEF Authors
  <2>2. i \in DOMAIN longer /\ longer[i].user = a
    BY <1>1, <2>1
  <2>. QED  BY <2>2 DEF Authors
<1>4. v.user \in Authors(longer)
  <2>1. Len(chain) + 1 \in DOMAIN longer
    BY <1>1
  <2>. QED  BY <1>1, <2>1 DEF Authors
<1>. QED  BY <1>2, <1>3, <1>4

\* One more version, whose author is credited exactly if it changed something.
LEMMA AppendTold ==
  ASSUME NEW chain \in Seq(Version), NEW v \in Version,
         NEW row \in Annotation, NEW new \in Annotation, Told(row, chain),
         new.users <= row.users + (IF v.user \in Authors(chain) THEN 0 ELSE 1),
         new.edits # 0,
         \/ v.zero /\ row.edits # 0 /\ new.editor = row.editor
         \/ (~v.zero \/ chain = <<>>) /\ new.editor = v.user
  PROVE  Told(new, Append(chain, v))
<1> DEFINE longer == Append(chain, v)
<1>1. /\ Len(chain) \in Nat
      /\ DOMAIN longer = 1..(Len(chain) + 1) /\ DOMAIN chain = 1..Len(chain)
      /\ longer[Len(chain) + 1] = v
      /\ \A i \in 1..Len(chain) : longer[i] = chain[i]
  OBVIOUS
<1>2. new.users <= Cardinality(Authors(longer))
  <2>1. /\ IsFiniteSet(Authors(chain)) /\ Cardinality(Authors(chain)) \in Nat
        /\ Authors(longer) = Authors(chain) \union {v.user}
    BY AuthorsFinite, AuthorsAppend
  <2> DEFINE a == v.user
             old == Authors(chain)
  <2> HIDE DEF a, old, longer
  <2>2. Cardinality(old \union {a}) = IF a \in old THEN Cardinality(old) ELSE Cardinality(old) + 1
    BY <2>1, FS_AddElement DEF old
  <2>3. row.users \in Nat /\ new.users \in Nat /\ row.users <= Cardinality(Authors(chain))
    BY DEF Annotation, Told
  <2>. QED  BY <2>1, <2>2, <2>3 DEF a, old
<1>3. IsAttribution(longer, new.editor)
  <2>1. CASE v.zero /\ row.edits # 0 /\ new.editor = row.editor
    <3>1. PICK i \in DOMAIN chain : /\ chain[i].user = row.editor
                                    /\ i = 1 \/ ~chain[i].zero
                                    /\ \A j \in DOMAIN chain : j > i => chain[j].zero
      BY <2>1 DEF Told, IsAttribution
    <3>2. i \in DOMAIN longer /\ longer[i] = chain[i]
      BY <1>1, <3>1
    <3>3. ASSUME NEW j \in DOMAIN longer, j > i PROVE longer[j].zero
      BY <1>1, <2>1, <3>1, <3>3
    <3>. QED  BY <2>1, <3>1, <3>2, <3>3 DEF IsAttribution
  <2>2. CASE (~v.zero \/ chain = <<>>) /\ new.editor = v.user
    <3> DEFINE n == Len(chain) + 1
    <3>1. n \in DOMAIN longer /\ longer[n] = v /\ (n = 1 \/ ~v.zero)
      BY <1>1, <2>2
    <3>2. \A j \in DOMAIN longer : ~(j > n)
      BY <1>1
    <3>. QED  BY <2>2, <3>1, <3>2 DEF IsAttribution
  <2>. QED  BY <2>1, <2>2
<1>. QED  BY <1>2, <1>3 DEF Told

\* A row with the counters and the attribution of another says the same.
LEMMA SameTold ==
  ASSUME NEW chain, NEW row, NEW new, Told(row, chain), row.edits # 0,
         new.users = row.users, new.edits = row.edits, new.editor = row.editor
  PROVE  Told(new, chain)
BY DEF Told

\* The row and the version of a save.
LEMMA SaveTold ==
  ASSUME IInv, NEW u \in User, NEW d \in Doc, NEW refs \in SUBSET Ref,
         NEW action \in Action, Told(ann[d], versions[d])
  PROVE  /\ Told(Saved(u, d, refs), Append(versions[d], SaveVersion(u, d, refs, action)))
         /\ Saved(u, d, refs).edits # 0
<1> DEFINE v == SaveVersion(u, d, refs, action)
           new == Saved(u, d, refs)
           more == IF IsContributor(u, d) THEN 0 ELSE 1
<1>1. v \in Version /\ new \in Annotation /\ ann[d] \in Annotation /\ versions[d] \in Seq(Version)
  BY SaveVersionFollows, SavedRow, OldRow DEF IInv
<1>2. v.user = u /\ v.zero = (refs = ann[d].refs)
  BY DEF SaveVersion
<1>3. more = (IF u \in Authors(versions[d]) THEN 0 ELSE 1)
  BY DEF IsContributor, Authors
<1>4. ann[d].edits \in Nat /\ ann[d].users \in Nat
  BY <1>1 DEF Annotation
<1>5. CASE ~Exists(d)
  <2>1. ann[d].edits = 0 /\ versions[d] = <<>>
    BY <1>4, <1>5 DEF Exists, Told
  <2>2. new.users = 1 /\ new.edits = 1 /\ new.editor = u
    BY <1>5 DEF Saved, NoAnnotation
  <2>3. Authors(versions[d]) = {}
    BY <2>1 DEF Authors
  <2>4. new.users <= ann[d].users + (IF v.user \in Authors(versions[d]) THEN 0 ELSE 1)
    BY <1>4, <2>2, <2>3
  <2> HIDE DEF v, new
  <2>5. new.editor = v.user
    BY <1>2, <2>2
  <2>6. new.edits # 0 /\ (~v.zero \/ versions[d] = <<>>)
    BY <2>1, <2>2
  <2>7. Told(new, Append(versions[d], v))
    BY <1>1, <2>4, <2>5, <2>6, AppendTold
  <2>. QED  BY <2>6, <2>7 DEF v, new
<1>6. CASE Exists(d)
  <2>1. ann[d].edits # 0
    BY <1>4, <1>6 DEF Exists
  <2>2. /\ new.users = ann[d].users + more /\ new.edits = ann[d].edits + 1
        /\ new.editor = IF refs = ann[d].refs THEN ann[d].editor ELSE u
    <3> DEFINE edits == ann[d].edits + 1
               users == ann[d].users + more
               counted == [ann[d] EXCEPT !.edits = edits, !.users = users]
    <3>1. new = IF refs = ann[d].refs THEN counted
                ELSE [counted EXCEPT !.refs = refs, !.editor = u]
      BY <1>6 DEF Saved
    <3> HIDE DEF edits, users, more, new
    <3>2. /\ counted.users = users /\ counted.edits = edits /\ counted.editor = ann[d].editor
          /\ [counted EXCEPT !.refs = refs, !.editor = u].users = users
          /\ [counted EXCEPT !.refs = refs, !.editor = u].edits = edits
          /\ [counted EXCEPT !.refs = refs, !.editor = u].editor = u
      BY <1>1 DEF Annotation
    <3>. QED  BY <3>1, <3>2 DEF edits, users
  <2> HIDE DEF v, new, more
  <2>3. new.edits # 0 /\ new.users <= ann[d].users + (IF v.user \in Authors(versions[d]) THEN 0 ELSE 1)
    <3>1. more \in Nat
      BY DEF more
    <3>. QED  BY <1>2, <1>3, <1>4, <2>2, <3>1
  <2>4. \/ v.zero /\ ann[d].edits # 0 /\ new.editor = ann[d].editor
        \/ (~v.zero \/ versions[d] = <<>>) /\ new.editor = v.user
    BY <1>2, <2>1, <2>2
  <2>5. Told(new, Append(versions[d], v))
    BY <1>1, <2>3, <2>4, AppendTold
  <2>. QED  BY <2>3, <2>5 DEF v, new
<1>. QED  BY <1>5, <1>6

\* The row and the version of a change of the flag.
LEMMA MarkTold ==
  ASSUME NEW chain \in Seq(Version), NEW row \in Annotation, Told(row, chain), row.edits # 0,
         NEW u \in User, NEW refs \in SUBSET Ref, NEW action \in Action
  PROVE  Told(row, Append(chain, MarkVersion(u, refs, action)))
<1> DEFINE v == MarkVersion(u, refs, action)
<1>1. v \in Version /\ v.zero
  BY MarkVersionFollows DEF MarkVersion
<1>2. row.users <= row.users + (IF v.user \in Authors(chain) THEN 0 ELSE 1)
  BY DEF Annotation
<1> HIDE DEF v
<1>3. Told(row, Append(chain, v))
  BY <1>1, <1>2, AppendTold
<1>. QED  BY <1>3 DEF v

LEMMA RecordTold ==
  ASSUME IInv, AllTold, NEW d \in Doc, NEW row, NEW chain, Told(row, chain),
         ann' = [ann EXCEPT ![d] = row], versions' = [versions EXCEPT ![d] = chain]
  PROVE  AllTold'
BY DEF AllTold, IInv, TypeOK

LEMMA SaveKeepsTold ==
  ASSUME IInv, AllTold, NEW u \in User, NEW d \in Doc, NEW payload \in SUBSET Ref,
         Save(u, d, payload)
  PROVE  AllTold'
<1> DEFINE refs == Normalised(payload)
           action == IF Exists(d) THEN "edit" ELSE "create"
           saved == Saved(u, d, refs)
           row == Reopened(d, refs, saved)
           chain == Append(versions[d], SaveVersion(u, d, refs, action))
<1>1. refs \in SUBSET Ref /\ action \in Action
  BY NormalisedIsRefs DEF Action
<1>2. ann' = [ann EXCEPT ![d] = row] /\ versions' = [versions EXCEPT ![d] = chain]
  BY DEF Save
<1> HIDE DEF refs, action
<1>3. Told(saved, chain) /\ saved.edits # 0 /\ saved \in Annotation
  BY <1>1, SaveTold, SavedRow DEF AllTold, IInv
<1> HIDE DEF saved, chain
<1>4. row.users = saved.users /\ row.edits = saved.edits /\ row.editor = saved.editor
  BY <1>3 DEF Reopened, Annotation
<1> HIDE DEF row
<1>5. Told(row, chain)
  BY <1>3, <1>4, SameTold
<1>. QED  BY <1>2, <1>5, RecordTold

LEMMA FlagKeepsTold ==
  ASSUME IInv, AllTold, NEW u \in User, NEW d \in Doc,
         \/ \E ack \in {{}, shown[u][d]} : Complete(u, d, ack)
         \/ Uncomplete(u, d)
  PROVE  AllTold'
<1>1. PICK action \in {"complete_mark", "uncomplete"},
           row \in {Marked(u, ann[d]), Unmarked(ann[d])} :
        /\ ann[d].edits # 0
        /\ ann' = [ann EXCEPT ![d] = row]
        /\ versions' = [versions EXCEPT ![d] =
                          Append(versions[d], MarkVersion(u, ann[d].refs, action))]
  <2>1. ann[d] \in Annotation /\ Told(ann[d], versions[d])
    BY OldRow DEF AllTold
  <2>2. ASSUME NEW ack, Complete(u, d, ack)
        PROVE  /\ ann[d].edits # 0
               /\ ann' = [ann EXCEPT ![d] = Marked(u, ann[d])]
               /\ versions' = [versions EXCEPT ![d] =
                    Append(versions[d], MarkVersion(u, ann[d].refs, "complete_mark"))]
    BY <2>1, <2>2 DEF Complete, Exists, Annotation
  <2>3. ASSUME Uncomplete(u, d)
        PROVE  /\ ann[d].edits # 0
               /\ ann' = [ann EXCEPT ![d] = Unmarked(ann[d])]
               /\ versions' = [versions EXCEPT ![d] =
                    Append(versions[d], MarkVersion(u, ann[d].refs, "uncomplete"))]
    BY <2>1, <2>3 DEF Uncomplete, Told
  <2>. QED  BY <2>2, <2>3
<1>2. /\ row \in Annotation /\ row.users = ann[d].users /\ row.edits = ann[d].edits
      /\ row.editor = ann[d].editor
  <2>1. ann[d] \in Annotation
    BY OldRow
  <2>2. CASE row = Marked(u, ann[d])
    BY <2>1, <2>2, MarkedRow
  <2>3. CASE row = Unmarked(ann[d])
    BY <2>1, <2>3, UnmarkedRow
  <2>. QED  BY <1>1, <2>2, <2>3
<1>3. Told(ann[d], versions[d]) /\ versions[d] \in Seq(Version) /\ ann[d].refs \in SUBSET Ref
  BY OldRow DEF AllTold
<1>4. Told(row, versions[d]) /\ row.edits # 0
  BY <1>1, <1>2, <1>3, SameTold
<1>5. action \in Action
  BY DEF Action
<1>6. Told(row, Append(versions[d], MarkVersion(u, ann[d].refs, action)))
  BY <1>2, <1>3, <1>4, <1>5, MarkTold
<1>. QED  BY <1>1, <1>6, RecordTold

LEMMA SaveAndCompleteKeepsTold ==
  ASSUME IInv, AllTold, NEW u \in User, NEW d \in Doc, NEW payload \in SUBSET Ref, NEW ack,
         SaveAndComplete(u, d, payload, ack)
  PROVE  AllTold'
<1> DEFINE refs == Normalised(payload)
           action == IF ~Exists(d) THEN "create"
                     ELSE IF ann[d].completed THEN "edit" ELSE "complete_mark"
           v == SaveVersion(u, d, refs, action)
           mark == MarkVersion(u, refs, "complete_mark")
           first == Append(versions[d], v)
           chain == IF Exists(d) THEN first ELSE Append(first, mark)
           saved == Saved(u, d, refs)
           row == IF ann[d].completed THEN saved ELSE Marked(u, saved)
<1>1. refs \in SUBSET Ref /\ action \in Action /\ "complete_mark" \in Action
  BY NormalisedIsRefs DEF Action
<1>2. ann' = [ann EXCEPT ![d] = row] /\ versions' = [versions EXCEPT ![d] = chain]
  BY DEF SaveAndComplete
<1> HIDE DEF refs, action
<1>3. /\ Told(saved, first) /\ saved.edits # 0 /\ saved \in Annotation
      /\ first \in Seq(Version)
  <2>1. v \in Version /\ versions[d] \in Seq(Version)
    BY <1>1, SaveVersionFollows, OldRow DEF IInv
  <2> HIDE DEF v
  <2>2. first \in Seq(Version)
    BY <2>1
  <2>. QED  BY <1>1, <2>2, SaveTold, SavedRow DEF v, AllTold, IInv
<1> HIDE DEF saved, v, first
<1>4. /\ row \in Annotation /\ row.users = saved.users /\ row.edits = saved.edits
      /\ row.editor = saved.editor
  BY <1>3 DEF Marked, Annotation
<1> HIDE DEF row
<1>5. Told(row, first) /\ row.edits # 0
  BY <1>3, <1>4, SameTold
<1>6. Told(row, Append(first, mark))
  BY <1>1, <1>3, <1>4, <1>5, MarkTold
<1> HIDE DEF mark
<1>7. Told(row, chain)
  BY <1>5, <1>6
<1> HIDE DEF chain
<1>. QED  BY <1>2, <1>7, RecordTold

LEMMA NextTold == IInv /\ AllTold /\ [Next]_vars => AllTold'
<1> SUFFICES ASSUME IInv, AllTold, [Next]_vars PROVE AllTold'
  OBVIOUS
<1>1. CASE UNCHANGED <<ann, versions>>
  BY <1>1 DEF AllTold
<1>2. ASSUME NEW u \in User, NEW d \in Doc, LockStep(u, d) \/ EditorStep(u, d)
      PROVE  AllTold'
  BY <1>1, <1>2, SaveKeepsTold
    DEF LockStep, LockGranted, LockEnds, EditorStep, Load, PutDraft, DeleteDraft, Skip,
        PreAudit, annVars
<1>3. ASSUME NEW u \in User, NEW d \in Doc, CompletionStep(u, d) PROVE AllTold'
  BY <1>1, <1>3, FlagKeepsTold, SaveAndCompleteKeepsTold DEF CompletionStep, AckStale, annVars
<1>4. ASSUME NEW d \in Doc, ModelStep(d) PROVE AllTold'
  BY <1>1, <1>4 DEF ModelStep, Predict, IngestDrops, IngestWrites, IngestDies, annVars
<1>5. CASE UNCHANGED vars
  BY <1>1, <1>5 DEF vars, annVars
<1>. QED  BY <1>2, <1>3, <1>4, <1>5 DEF Next

LEMMA ColumnsAreTold == Spec => [](IInv /\ AllTold)
<1>1. Init => AllTold
  <2> SUFFICES ASSUME Init PROVE AllTold
    OBVIOUS
  <2>1. ASSUME NEW d \in Doc PROVE ann[d] = NoAnnotation /\ versions[d] = <<>>
    BY <2>1 DEF Init
  <2>2. Authors(<<>>) = {}
    BY DEF Authors
  <2>3. Told(NoAnnotation, <<>>)
    <3>1. Cardinality({}) = 0
      BY FS_EmptySet
    <3>2. 0 <= Cardinality(Authors(<<>>))
      BY <2>2, <3>1
    <3>. QED  BY <3>2 DEF Told, NoAnnotation
  <2>. QED  BY <2>1, <2>3 DEF AllTold
<1>. QED  BY <1>1, NextTold, InitIInv, NextIInv, PTL DEF Spec

(***************************************************************************)
(* unique_users_count, which every save adds to after a look at the chain, *)
(* is never above the number of authors in it.                             *)
(***************************************************************************)
THEOREM AuthorsCounted == Spec => []AuthorsAreCountedOnce
<1>1. AllTold => AuthorsAreCountedOnce
  BY DEF AllTold, Told, AuthorsAreCountedOnce
<1>. QED  BY <1>1, ColumnsAreTold, PTL

(***************************************************************************)
(* last_edited_by names the author of the newest version that changed the  *)
(* references, whichever path saved, completed or reopened since.          *)
(***************************************************************************)
THEOREM CreditIsDue == Spec => []EditorWroteTheContent
<1>1. IInv /\ AllTold => EditorWroteTheContent
  BY DEF AllTold, Told, EditorWroteTheContent, Exists, IInv, TypeOK, Annotation
<1>. QED  BY <1>1, ColumnsAreTold, PTL

-----------------------------------------------------------------------------
(* Who completed.                                                          *)

\* u wrote the newest mark of the chain, a complete_mark.
IsCompleter(chain, u) ==
  \E i \in DOMAIN chain :
    /\ chain[i].user = u
    /\ chain[i].action = "complete_mark"
    /\ \A j \in DOMAIN chain : j > i => chain[j].action = "edit"

\* annotations/service.py:566, "every completed annotation must have at least one
\* 'complete_mark' version": and the author of the newest one, which no uncomplete
\* follows, is completed_by_user_id, whatever was saved, by whomever, since.
CompleterMarkedIt ==
  \A d \in Doc : ann[d].completed => IsCompleter(versions[d], ann[d].completedBy)

\* What the row of d says after a step, where the chain has grown by one version.
LEMMA AppendMark ==
  ASSUME NEW chain \in Seq(Version), NEW v \in Version, NEW u,
         \/ v.action = "complete_mark" /\ v.user = u
         \/ v.action = "edit" /\ IsCompleter(chain, u)
  PROVE  IsCompleter(Append(chain, v), u)
<1> DEFINE longer == Append(chain, v)
<1>1. /\ Len(chain) \in Nat
      /\ DOMAIN longer = 1..(Len(chain) + 1) /\ DOMAIN chain = 1..Len(chain)
      /\ longer[Len(chain) + 1] = v
      /\ \A i \in 1..Len(chain) : longer[i] = chain[i]
  OBVIOUS
<1> HIDE DEF longer
<1>2. CASE v.action = "complete_mark" /\ v.user = u
  <2>1. /\ Len(chain) + 1 \in DOMAIN longer
        /\ \A j \in DOMAIN longer : ~ j > Len(chain) + 1
    BY <1>1
  <2>. QED  BY <1>1, <1>2, <2>1 DEF IsCompleter, longer
<1>3. CASE v.action = "edit" /\ IsCompleter(chain, u)
  <2>1. PICK i \in 1..Len(chain) :
          /\ chain[i].user = u /\ chain[i].action = "complete_mark"
          /\ \A j \in 1..Len(chain) : j > i => chain[j].action = "edit"
    BY <1>1, <1>3 DEF IsCompleter
  <2>2. i \in DOMAIN longer /\ longer[i].user = u /\ longer[i].action = "complete_mark"
    BY <1>1, <2>1
  <2>3. ASSUME NEW j \in DOMAIN longer, j > i PROVE longer[j].action = "edit"
    BY <1>1, <1>3, <2>1, <2>3
  <2>. QED  BY <2>2, <2>3 DEF IsCompleter, longer
<1>. QED  BY <1>2, <1>3

LEMMA RecordMark ==
  ASSUME IInv, CompleterMarkedIt, NEW d \in Doc, NEW row, NEW chain,
         row.completed => IsCompleter(chain, row.completedBy),
         ann' = [ann EXCEPT ![d] = row], versions' = [versions EXCEPT ![d] = chain]
  PROVE  CompleterMarkedIt'
BY DEF CompleterMarkedIt, IInv, TypeOK

\* A save keeps the flag of a completed annotation and who set it.
LEMMA SavedFlag ==
  ASSUME TypeOK, NEW u \in User, NEW d \in Doc, NEW refs \in SUBSET Ref
  PROVE  Saved(u, d, refs).completed =>
           ann[d].completed /\ Saved(u, d, refs).completedBy = ann[d].completedBy
<1>1. ann[d] \in Annotation
  BY DEF TypeOK
<1>. QED  BY <1>1 DEF Saved, Annotation, NoAnnotation

LEMMA SaveKeepsMark ==
  ASSUME IInv, CompleterMarkedIt, NEW u \in User, NEW d \in Doc, NEW payload \in SUBSET Ref,
         Save(u, d, payload)
  PROVE  CompleterMarkedIt'
<1> DEFINE refs == Normalised(payload)
           action == IF Exists(d) THEN "edit" ELSE "create"
           v == SaveVersion(u, d, refs, action)
           saved == Saved(u, d, refs)
           row == Reopened(d, refs, saved)
<1>1. refs \in SUBSET Ref /\ action \in Action
  BY NormalisedIsRefs DEF Action
<1>2. /\ ann' = [ann EXCEPT ![d] = row]
      /\ versions' = [versions EXCEPT ![d] = Append(versions[d], v)]
  BY DEF Save
<1>3. v \in Version /\ v.action = action
  BY <1>1, SaveVersionFollows DEF IInv, SaveVersion
<1>4. saved \in Annotation /\ (saved.completed => ann[d].completed /\ Exists(d)
                                /\ saved.completedBy = ann[d].completedBy)
  BY <1>1, SavedRow, SavedFlag DEF IInv
<1> HIDE DEF refs, v, saved
<1>5. row.completed => saved.completed /\ row.completedBy = saved.completedBy
  BY <1>4 DEF Reopened, Annotation
<1> HIDE DEF row
<1>6. ASSUME row.completed PROVE IsCompleter(Append(versions[d], v), row.completedBy)
  <2>1. v.action = "edit" /\ ann[d].completed /\ row.completedBy = ann[d].completedBy
    BY <1>3, <1>4, <1>5, <1>6
  <2>2. IsCompleter(versions[d], row.completedBy) /\ versions[d] \in Seq(Version)
    BY <2>1, OldRow DEF CompleterMarkedIt
  <2>. QED  BY <1>3, <2>1, <2>2, AppendMark
<1>. QED  BY <1>2, <1>6, RecordMark

LEMMA FlagKeepsMark ==
  ASSUME IInv, CompleterMarkedIt, NEW u \in User, NEW d \in Doc,
         \/ \E ack \in {{}, shown[u][d]} : Complete(u, d, ack)
         \/ Uncomplete(u, d)
  PROVE  CompleterMarkedIt'
<1> DEFINE v == MarkVersion(u, ann[d].refs, "complete_mark")
<1>1. ann[d] \in Annotation /\ ann[d].refs \in SUBSET Ref /\ versions[d] \in Seq(Version)
  BY OldRow
<1>2. ASSUME NEW ack, Complete(u, d, ack) PROVE CompleterMarkedIt'
  <2> DEFINE row == Marked(u, ann[d])
  <2>1. /\ ann' = [ann EXCEPT ![d] = row]
        /\ versions' = [versions EXCEPT ![d] = Append(versions[d], v)]
    BY <1>2 DEF Complete
  <2>2. v \in Version /\ v.action = "complete_mark" /\ v.user = u
    BY <1>1 DEF MarkVersion, Version, Action
  <2>3. row.completedBy = u
    BY <1>1 DEF Marked, Annotation
  <2> HIDE DEF row, v
  <2>. QED  BY <1>1, <2>1, <2>2, <2>3, AppendMark, RecordMark
<1>3. ASSUME Uncomplete(u, d) PROVE CompleterMarkedIt'
  <2> DEFINE row == Unmarked(ann[d])
             chain == Append(versions[d], MarkVersion(u, ann[d].refs, "uncomplete"))
  <2>1. ann' = [ann EXCEPT ![d] = row] /\ versions' = [versions EXCEPT ![d] = chain]
    BY <1>3 DEF Uncomplete
  <2>2. ~row.completed
    BY <1>1 DEF Unmarked, Annotation
  <2> HIDE DEF row, chain
  <2>. QED  BY <2>1, <2>2, RecordMark
<1>. QED  BY <1>2, <1>3

LEMMA SaveAndCompleteKeepsMark ==
  ASSUME IInv, AllTold, CompleterMarkedIt, NEW u \in User, NEW d \in Doc,
         NEW payload \in SUBSET Ref, NEW ack, SaveAndComplete(u, d, payload, ack)
  PROVE  CompleterMarkedIt'
<1> DEFINE refs == Normalised(payload)
           action == IF ~Exists(d) THEN "create"
                     ELSE IF ann[d].completed THEN "edit" ELSE "complete_mark"
           v == SaveVersion(u, d, refs, action)
           mark == MarkVersion(u, refs, "complete_mark")
           first == Append(versions[d], v)
           chain == IF Exists(d) THEN first ELSE Append(first, mark)
           saved == Saved(u, d, refs)
           row == IF ann[d].completed THEN saved ELSE Marked(u, saved)
<1>1. refs \in SUBSET Ref /\ action \in Action
  BY NormalisedIsRefs DEF Action
<1>2. ann' = [ann EXCEPT ![d] = row] /\ versions' = [versions EXCEPT ![d] = chain]
  BY DEF SaveAndComplete
<1>3. /\ v \in Version /\ v.action = action /\ v.user = u
      /\ mark \in Version /\ mark.action = "complete_mark" /\ mark.user = u
  <2>1. v \in Version /\ v.action = action /\ v.user = u
    BY <1>1, SaveVersionFollows DEF IInv, SaveVersion
  <2>2. mark \in Version /\ mark.action = "complete_mark" /\ mark.user = u
    BY <1>1 DEF MarkVersion, Version, Action
  <2>. QED  BY <2>1, <2>2
<1>4. saved \in Annotation /\ (saved.completed => ann[d].completed
                                /\ saved.completedBy = ann[d].completedBy)
  BY <1>1, SavedRow, SavedFlag DEF IInv
<1>5. versions[d] \in Seq(Version) /\ ann[d].completed \in BOOLEAN
  BY OldRow DEF Annotation
<1> HIDE DEF refs, v, mark, saved
<1>6. first \in Seq(Version)
  BY <1>3, <1>5
<1>7. CASE ann[d].completed
  <2>1. Exists(d) /\ row = saved /\ chain = first /\ v.action = "edit"
    <3>1. ann[d].edits \in Nat /\ ann[d].edits # 0
      BY <1>7, OldRow DEF AllTold, Told, Annotation
    <3>2. Exists(d)
      BY <3>1 DEF Exists
    <3>. QED  BY <1>3, <1>7, <3>2
  <2>2. row.completed => IsCompleter(versions[d], row.completedBy)
    BY <1>4, <1>7, <2>1 DEF CompleterMarkedIt
  <2> HIDE DEF row, chain
  <2>3. row.completed => IsCompleter(chain, row.completedBy)
    BY <1>3, <1>5, <2>1, <2>2, AppendMark
  <2>. QED  BY <1>2, <2>3, RecordMark
<1>8. CASE ~ann[d].completed
  <2>1. row.completedBy = u
    BY <1>4, <1>8 DEF Marked, Annotation
  <2>2. IsCompleter(chain, u)
    <3>1. CASE Exists(d)
      <4>1. chain = first /\ v.action = "complete_mark"
        BY <1>3, <1>8, <3>1
      <4> HIDE DEF chain
      <4>. QED  BY <1>3, <1>5, <4>1, AppendMark
    <3>2. CASE ~Exists(d)
      BY <1>3, <1>6, <3>2, AppendMark
    <3>. QED  BY <3>1, <3>2
  <2> HIDE DEF row, chain
  <2>. QED  BY <1>2, <2>1, <2>2, RecordMark
<1>. QED  BY <1>5, <1>7, <1>8

(***************************************************************************)
(* Whichever of the two completing paths completed an annotation, and      *)
(* however often it was reopened, completed again, saved without a diff or *)
(* edited while complete, its chain has the mark of completed_by_user_id   *)
(* as the newest one.                                                      *)
(***************************************************************************)
THEOREM CompletionsAreSigned == Spec => []CompleterMarkedIt
<1>1. Init => CompleterMarkedIt
  BY DEF Init, CompleterMarkedIt, NoAnnotation
<1>2. IInv /\ AllTold /\ CompleterMarkedIt /\ [Next]_vars => CompleterMarkedIt'
  <2> SUFFICES ASSUME IInv, AllTold, CompleterMarkedIt, [Next]_vars PROVE CompleterMarkedIt'
    OBVIOUS
  <2>1. CASE UNCHANGED <<ann, versions>>
    BY <2>1 DEF CompleterMarkedIt
  <2>2. ASSUME NEW u \in User, NEW d \in Doc, LockStep(u, d) \/ EditorStep(u, d)
        PROVE  CompleterMarkedIt'
    BY <2>1, <2>2, SaveKeepsMark
      DEF LockStep, LockGranted, LockEnds, EditorStep, Load, PutDraft, DeleteDraft, Skip,
          PreAudit, annVars
  <2>3. ASSUME NEW u \in User, NEW d \in Doc, CompletionStep(u, d) PROVE CompleterMarkedIt'
    BY <2>1, <2>3, FlagKeepsMark, SaveAndCompleteKeepsMark DEF CompletionStep, AckStale, annVars
  <2>4. ASSUME NEW d \in Doc, ModelStep(d) PROVE CompleterMarkedIt'
    BY <2>1, <2>4 DEF ModelStep, Predict, IngestDrops, IngestWrites, IngestDies, annVars
  <2>5. CASE UNCHANGED vars
    BY <2>1, <2>5 DEF vars, annVars
  <2>. QED  BY <2>2, <2>3, <2>4, <2>5 DEF Next
<1>. QED  BY <1>1, <1>2, ColumnsAreTold, PTL DEF Spec

-----------------------------------------------------------------------------
(* The locks.                                                              *)

\* Whoever a lock is taken from, it is taken by an end of the lease.
LEMMA ReleasedIsEnd ==
  ASSUME TypeOK, NEW u \in User, NEW d \in Doc, Freed(u, d)
  PROVE  [Lease!Next]_holder
<1> DEFINE D == IF holder[d] = u THEN {d} ELSE {}
<1>1. D \in SUBSET Doc
  OBVIOUS
<1>2. holder' = [e \in Doc |-> IF e \in D THEN None ELSE holder[e]]
  BY DEF Freed, TypeOK
<1>. QED  BY <1>1, <1>2 DEF Lease!Next, Lease!End

(***************************************************************************)
(* What annotations assume of locks is what LockLease promises and         *)
(* DocumentLocks implements: saves, completions and skips, which release   *)
(* the lock in their own transaction, never hand it on or take another's.  *)
(***************************************************************************)
THEOREM AnnotationsKeepLease == Spec => Lease!Spec
<1>1. Init => Lease!Init
  BY DEF Init, Lease!Init
<1>2. ASSUME TypeOK, [Next]_vars PROVE [Lease!Next]_holder
  <2>1. ASSUME NEW u \in User, NEW d \in Doc, LockStep(u, d) PROVE [Lease!Next]_holder
    <3>1. CASE LockGranted(u, d)
      BY <3>1 DEF LockGranted, Lease!Next
    <3>2. CASE LockEnds(u, d)
      <4>1. {d} \in SUBSET Doc /\ Lease!End({d})
        BY <3>2 DEF LockEnds
      <4>. QED  BY <4>1 DEF Lease!Next
    <3>. QED  BY <2>1, <3>1, <3>2 DEF LockStep
  <2>2. ASSUME NEW u \in User, NEW d \in Doc, EditorStep(u, d) PROVE [Lease!Next]_holder
    BY <1>2, <2>2, ReleasedIsEnd
      DEF EditorStep, Load, PutDraft, DeleteDraft, Skip, PreAudit, Save, Released
  <2>3. ASSUME NEW u \in User, NEW d \in Doc, CompletionStep(u, d) PROVE [Lease!Next]_holder
    BY <1>2, <2>3, ReleasedIsEnd
      DEF CompletionStep, Complete, Uncomplete, SaveAndComplete, AckStale, Released
  <2>4. ASSUME NEW d \in Doc, ModelStep(d) PROVE [Lease!Next]_holder
    BY <2>4 DEF ModelStep, Predict, IngestDrops, IngestWrites, IngestDies
  <2>5. CASE UNCHANGED vars
    BY <2>5 DEF vars
  <2>. QED  BY <1>2, <2>1, <2>2, <2>3, <2>4, <2>5 DEF Next
<1>3. IInv => TypeOK
  BY DEF IInv
<1>. QED  BY <1>1, <1>2, <1>3, InvariantHolds, PTL DEF Spec, Lease!Spec
=============================================================================
