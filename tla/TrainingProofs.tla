--------------------------- MODULE TrainingProofs ---------------------------
(* One verdict and one award for an attempt, a gate that opens for a pass  *)
(* or a skip only, and pools that never run dry, for any users, documents, *)
(* questions, thresholds, draws and any side effects that fail.            *)
EXTENDS Training, FiniteSetTheorems, TLAPS

\* An open attempt lacks the quiz or a document.
OpenIsIncomplete == \A a \in live : ~att[a].details.finalized => ~Complete(att[a])

\* Awards: none before an id exists, none for an open or failed attempt.
AwardsFit ==
  \A a \in AttemptId :
    /\ awards[a] <= 1 /\ notices[a] <= 1
    /\ a > made => awards[a] = 0 /\ notices[a] = 0
    /\ a \in live /\ ~att[a].passed => awards[a] = 0 /\ notices[a] = 0

\* The numbers of a user's attempts lie within their count.
NumbersFit ==
  \A u \in User : \A a \in AttemptsOf(u) : att[a].number <= Cardinality(AttemptsOf(u))

IInv ==
  /\ TypeOK /\ PoolsAreKept /\ ColumnsMatchDetails /\ OpenIsIncomplete
  /\ AwardsFit /\ GateIsEarned /\ NumbersFit /\ AttemptsAreCounted

\* What a submission keeps of the row it rewrites, before finalisation.
RowMatches(row) ==
  ~row.details.finalized =>
    /\ row.passCount = Cardinality(PassedDocs(row.details))
    /\ ~row.details.quiz => row.quizScore = 0
    /\ ~row.passed

Submission(u, a, row) ==
  /\ VerifyOwner(u, a)
  /\ row \in Attempt
  /\ row.owner = att[a].owner /\ row.number = att[a].number /\ row.passed = att[a].passed
  /\ row.details.finalized = att[a].details.finalized
  /\ RowMatches(row)
  /\ finalize_if_complete(a, u, row)
  /\ UNCHANGED <<made, poolVars, skipVars>>

-----------------------------------------------------------------------------
(* Lemmas.                                                                 *)

LEMMA SubsetsOfDocs ==
  ASSUME NEW S \in SUBSET Doc
  PROVE  IsFiniteSet(S) /\ Cardinality(S) \in Nat
BY PoolAssumption, FS_Subset, FS_CardinalityType

LEMMA RowType ==
  ASSUME TypeOK, NEW a \in live
  PROVE  /\ a \in AttemptId /\ a \in Int /\ a <= made
         /\ att[a] \in Attempt /\ att[a].details \in Details
BY DEF TypeOK, AttemptId, Attempt

LEMMA AttemptsAreFinite ==
  ASSUME TypeOK, NEW u
  PROVE  IsFiniteSet(AttemptsOf(u)) /\ Cardinality(AttemptsOf(u)) \in Nat
<1>1. AttemptsOf(u) \subseteq 1..MaxAttemptId
  BY DEF TypeOK, AttemptsOf, AttemptId
<1>2. IsFiniteSet(1..MaxAttemptId)
  BY IdAssumption, FS_Interval
<1>. QED  BY <1>1, <1>2, FS_Subset, FS_CardinalityType

\* Both submissions are one kind of step.
LEMMA SubmitsIsSubmission ==
  ASSUME TypeOK, ColumnsMatchDetails, NEW u \in User, NEW a \in AttemptId, Submits(u, a)
  PROVE  \E row : Submission(u, a, row)
<1>0. a \in live
  BY DEF Submits, submit_quiz, submit_annotation, VerifyOwner
<1>1. att[a] \in Attempt /\ att[a].details \in Details
  BY <1>0, RowType
<1>2. RowMatches(att[a])
  BY <1>0 DEF RowMatches, ColumnsMatchDetails
<1>3. ASSUME NEW score \in 0..QUIZ_QUESTION_COUNT, submit_quiz(u, a, score)
      PROVE  \E row : Submission(u, a, row)
  <2> DEFINE row == [att[a] EXCEPT !.quizScore = score, !.details.quiz = TRUE]
  <2>1. score \in Nat
    BY CountAssumption
  <2>2. row \in Attempt /\ row.details = [att[a].details EXCEPT !.quiz = TRUE]
    BY <1>1, <2>1 DEF Attempt, Details
  <2>3. row.details.result = att[a].details.result /\ row.passCount = att[a].passCount
    BY <1>1, <2>2 DEF Attempt, Details
  <2>4. PassedDocs(row.details) = PassedDocs(att[a].details)
    BY <2>3 DEF PassedDocs
  <2>5. /\ row.details.finalized = att[a].details.finalized /\ row.details.quiz
        /\ row.owner = att[a].owner /\ row.number = att[a].number /\ row.passed = att[a].passed
    BY <1>1, <2>2 DEF Attempt, Details
  <2>6. RowMatches(row)
    BY <1>2, <2>3, <2>4, <2>5 DEF RowMatches
  <2>7. Submission(u, a, row)
    BY <1>3, <2>2, <2>5, <2>6 DEF submit_quiz, Submission
  <2>. QED  BY <2>7
<1>4. ASSUME NEW d \in Doc, NEW result \in {"failed", "passed"}, submit_annotation(u, a, d, result)
      PROVE  \E row : Submission(u, a, row)
  <2> DEFINE details == [att[a].details EXCEPT !.result[d] = result]
             row == [att[a] EXCEPT !.passCount = Cardinality(PassedDocs(details)), !.details = details]
  <2>1. details \in Details /\ details.finalized = att[a].details.finalized
        /\ details.quiz = att[a].details.quiz
    BY <1>1 DEF Details, Result
  <2>2. PassedDocs(details) \subseteq Doc
    BY DEF PassedDocs
  <2>3. Cardinality(PassedDocs(details)) \in Nat
    BY <2>2, SubsetsOfDocs
  <2> HIDE DEF details
  <2>4. /\ row \in Attempt /\ row.details = details
        /\ row.passCount = Cardinality(PassedDocs(details)) /\ row.quizScore = att[a].quizScore
        /\ row.owner = att[a].owner /\ row.number = att[a].number /\ row.passed = att[a].passed
    BY <1>1, <2>1, <2>3 DEF Attempt
  <2>5. RowMatches(row)
    BY <1>2, <2>1, <2>4 DEF RowMatches
  <2>6. finalize_if_complete(a, u, row) /\ VerifyOwner(u, a) /\ UNCHANGED <<made, poolVars, skipVars>>
    BY <1>4 DEF submit_annotation, details
  <2>7. Submission(u, a, row)
    BY <2>1, <2>4, <2>5, <2>6 DEF Submission
  <2>. QED  BY <2>7
<1>. QED  BY <1>3, <1>4 DEF Submits

\* What a submission does to the row, to the flags and to the rewards.
LEMMA SubmissionResult ==
  ASSUME TypeOK, NEW u \in User, NEW a, NEW row, Submission(u, a, row)
  PROVE  /\ a \in live /\ att[a].owner = u /\ DOMAIN att' = live
         /\ att'[a] \in Attempt /\ att'[a].owner = u /\ att'[a].number = att[a].number
         /\ \A b \in live : b # a => att'[b] = att[b]
         /\ ~att'[a].details.finalized => att'[a] = row /\ ~Finalizes(row)
         /\ att[a].details.finalized => att'[a].details.finalized /\ att'[a].passed = att[a].passed
         /\ att[a].passed => att'[a].passed
         /\ \/ UNCHANGED <<hasPassed, awards, notices>> /\ att'[a].passed = att[a].passed
            \/ UNCHANGED <<hasPassed, awards, notices>> /\ ~att'[a].passed
            \/ Rewards(a, u) /\ ~att[a].passed /\ ~att[a].details.finalized /\ att'[a].passed
<1>1. a \in live /\ att[a].owner = u /\ att[a] \in Attempt
  BY RowType DEF Submission, VerifyOwner
<1>2. row \in Attempt /\ row.details \in Details
  BY DEF Submission, Attempt
<1>3. DEFINE final == [row EXCEPT !.passed = Verdict(row), !.details.finalized = TRUE]
<1>4. final \in Attempt /\ final.owner = row.owner /\ final.number = row.number
      /\ final.passed = Verdict(row) /\ final.details.finalized
  <2>1. Verdict(row) \in BOOLEAN
    BY DEF Verdict
  <2>. QED  BY <1>2, <2>1 DEF Attempt, Details
<1>5. CASE Finalizes(row)
  <2>1. att' = [att EXCEPT ![a] = final]
    BY <1>5 DEF Submission, finalize_if_complete
  <2>2. ~row.passed /\ ~row.details.finalized
    BY <1>5 DEF Finalizes
  <2>3. Verdict(row) => Rewards(a, u)
    BY <1>5 DEF Submission, finalize_if_complete
  <2>4. ~Verdict(row) => UNCHANGED <<hasPassed, awards, notices>>
    BY <1>5 DEF Submission, finalize_if_complete, rewardVars
  <2>5. att'[a] = final /\ DOMAIN att' = live /\ \A b \in live : b # a => att'[b] = att[b]
    BY <1>1, <2>1 DEF live, TypeOK
  <2> HIDE DEF final
  <2>. QED  BY <1>1, <1>4, <2>2, <2>3, <2>4, <2>5 DEF Submission
<1>6. CASE ~Finalizes(row)
  <2>1. att' = [att EXCEPT ![a] = row] /\ UNCHANGED <<hasPassed, awards, notices>>
    BY <1>6 DEF Submission, finalize_if_complete, rewardVars
  <2>2. att'[a] = row /\ DOMAIN att' = live /\ \A b \in live : b # a => att'[b] = att[b]
    BY <1>1, <2>1 DEF live, TypeOK
  <2>. QED  BY <1>1, <1>2, <1>6, <2>1, <2>2 DEF Submission
<1>. QED  BY <1>5, <1>6

\* Every step is one of these.
LEMMA Steps ==
  ASSUME TypeOK, ColumnsMatchDetails, Next
  PROVE  \/ AdminEdits
         \/ \E u \in User : \/ start_attempt(u)
                            \/ \E a \in AttemptId, row \in Attempt : Submission(u, a, row)
                            \/ skip_training_checks(u) \/ skip_training_reads(u)
                            \/ skip_training_closes(u) \/ reset_user_training(u)
<1>1. ASSUME NEW u \in User, NEW a \in AttemptId, Submits(u, a)
      PROVE  \E row \in Attempt : Submission(u, a, row)
  BY <1>1, SubmitsIsSubmission DEF Submission
<1>. QED  BY <1>1 DEF Next, Requests

\* Edits of the pools and the first steps of a skip leave the attempts alone.
Quiet == UNCHANGED <<hasPassed, made, att, rewardVars, bypassed>>

LEMMA AdminEditsAreQuiet == ASSUME AdminEdits PROVE Quiet /\ UNCHANGED <<skip, skips>>
BY DEF AdminEdits, upsert_gold_doc_override, soft_delete_gold_doc, upsert_quiz_override,
       soft_delete_quiz_override, Quiet, skipVars

LEMMA SkipChecksAreQuiet ==
  ASSUME NEW u, skip_training_checks(u) \/ skip_training_reads(u)
  PROVE  Quiet /\ UNCHANGED poolVars
BY DEF skip_training_checks, skip_training_reads, Quiet

LEMMA StartResult ==
  ASSUME TypeOK, NEW u \in User, start_attempt(u)
  PROVE  /\ DOMAIN att' = live \cup {made + 1} /\ made + 1 \notin live
         /\ att'[made + 1] = Blank(u, NextNumber(u)) /\ att'[made + 1] \in Attempt
         /\ \A a \in live : att'[a] = att[a]
         /\ made + 1 \in AttemptId /\ made' = made + 1
<1>1. made \in Nat /\ live \subseteq 1..made
  BY DEF TypeOK
<1>2. NextNumber(u) \in Nat
  BY AttemptsAreFinite DEF NextNumber
<1>3. Blank(u, NextNumber(u)) \in Attempt
  BY <1>2 DEF Blank, Untouched, Attempt, Details, Result
<1>. QED  BY <1>1, <1>3 DEF start_attempt, live

\* A skip that closes attempts rewrites their details only, and finalises them.
LEMMA CloseResult ==
  ASSUME TypeOK, NEW u \in User, skip_training_closes(u)
  PROVE  /\ DOMAIN att' = live
         /\ \A a \in live :
              /\ att'[a] \in Attempt
              /\ att'[a].owner = att[a].owner /\ att'[a].number = att[a].number
              /\ att'[a].passed = att[a].passed
              /\ att'[a] = att[a] \/ att'[a].details.finalized
<1>1. DOMAIN att' = live
  BY DEF skip_training_closes
<1>2. ASSUME NEW a \in live
      PROVE  /\ att'[a] \in Attempt
             /\ att'[a].owner = att[a].owner /\ att'[a].number = att[a].number
             /\ att'[a].passed = att[a].passed
             /\ att'[a] = att[a] \/ att'[a].details.finalized
  <2>1. att[a] \in Attempt
    BY RowType
  <2>2. CASE a \in {b \in DOMAIN skip[u].read : ~skip[u].read[b].finalized}
    <3>1. skip[u].read[a] \in Details
      BY <2>2 DEF TypeOK
    <3>2. Closed(skip[u].read[a]) \in Details /\ Closed(skip[u].read[a]).finalized
      BY <3>1 DEF Closed, Details
    <3>3. att'[a] = [att[a] EXCEPT !.details = Closed(skip[u].read[a])]
      BY <2>2 DEF skip_training_closes
    <3>. QED  BY <2>1, <3>2, <3>3 DEF Attempt
  <2>3. CASE a \notin {b \in DOMAIN skip[u].read : ~skip[u].read[b].finalized}
    <3>1. att'[a] = att[a]
      BY <2>3 DEF skip_training_closes
    <3>. QED  BY <2>1, <3>1
  <2>. QED  BY <2>2, <2>3
<1>. QED  BY <1>1, <1>2

LEMMA ResetResult ==
  ASSUME TypeOK, NEW u \in User, reset_user_training(u)
  PROVE  /\ DOMAIN att' = {a \in live : att[a].owner # u}
         /\ \A a \in DOMAIN att' : att'[a] = att[a]
         /\ UNCHANGED <<made, awards, notices>>
BY DEF reset_user_training, Deleted, AttemptsOf, live, rewardVars

\* A reward changes the flags of one user and the awards of one attempt.
LEMMA RewardResult ==
  ASSUME TypeOK, NEW u \in User, NEW a \in AttemptId, Rewards(a, u)
  PROVE  /\ hasPassed' \in [User -> BOOLEAN]
         /\ \A v \in User : v # u => hasPassed'[v] = hasPassed[v]
         /\ hasPassed[u] => hasPassed'[u]
         /\ "flag" \notin Failable => hasPassed'[u]
         /\ awards' \in [AttemptId -> Nat] /\ notices' \in [AttemptId -> Nat]
         /\ \A b \in AttemptId : b # a => awards'[b] = awards[b] /\ notices'[b] = notices[b]
         /\ awards'[a] <= awards[a] + 1 /\ notices'[a] <= notices[a] + 1
<1>1. PICK failed \in SUBSET Failable :
        /\ hasPassed' = IF "flag" \in failed THEN hasPassed ELSE [hasPassed EXCEPT ![u] = TRUE]
        /\ awards' = IF "points" \in failed THEN awards ELSE [awards EXCEPT ![a] = @ + 1]
        /\ notices' = IF "notice" \in failed THEN notices ELSE [notices EXCEPT ![a] = @ + 1]
  BY DEF Rewards
<1>2. hasPassed \in [User -> BOOLEAN] /\ awards \in [AttemptId -> Nat] /\ notices \in [AttemptId -> Nat]
  BY DEF TypeOK
<1>3. /\ hasPassed' \in [User -> BOOLEAN]
      /\ \A v \in User : v # u => hasPassed'[v] = hasPassed[v]
      /\ hasPassed[u] => hasPassed'[u]
      /\ "flag" \notin Failable => hasPassed'[u]
  BY <1>1, <1>2
<1>4. /\ awards' \in [AttemptId -> Nat] /\ awards'[a] <= awards[a] + 1
      /\ \A b \in AttemptId : b # a => awards'[b] = awards[b]
  BY <1>1, <1>2
<1>5. /\ notices' \in [AttemptId -> Nat] /\ notices'[a] <= notices[a] + 1
      /\ \A b \in AttemptId : b # a => notices'[b] = notices[b]
  BY <1>1, <1>2
<1>. QED  BY <1>3, <1>4, <1>5

-----------------------------------------------------------------------------
(* Types.                                                                  *)

LEMMA SkipKeepsType ==
  ASSUME TypeOK, NEW u \in User, skip_training_checks(u) \/ skip_training_reads(u),
         UNCHANGED maxAttempts
  PROVE  TypeOK'
<1>1. UNCHANGED <<hasPassed, made, att, awards, notices, docRow, questionRow, bypassed>>
  BY SkipChecksAreQuiet DEF Quiet, rewardVars, poolVars
<1>2. skips' \in Nat /\ edits' \in Nat
  BY SkipChecksAreQuiet DEF TypeOK, skip_training_checks, skip_training_reads, poolVars
<1>3. DOMAIN skip' = User /\ \A v \in User : v # u => skip'[v] = skip[v]
  BY DEF TypeOK, skip_training_checks, skip_training_reads
<1>4. /\ skip'[u].stage \in {"idle", "checked", "read"}
      /\ DOMAIN skip'[u].read \subseteq AttemptId
      /\ \A a \in DOMAIN skip'[u].read : skip'[u].read[a] \in Details
  <2>1. CASE skip_training_checks(u)
    <3>1. skip'[u] = [skip[u] EXCEPT !.stage = "checked"]
      BY <2>1 DEF skip_training_checks, TypeOK
    <3>2. skip'[u].read = skip[u].read /\ skip'[u].stage \in {"checked", skip[u].stage}
      BY <3>1
    <3>. QED  BY <3>2 DEF TypeOK
  <2>2. CASE skip_training_reads(u)
    <3>1. /\ skip'[u].stage = "read"
          /\ skip'[u].read = [a \in {b \in AttemptsOf(u) : ~att[b].passed} |-> att[a].details]
      BY <2>2 DEF skip_training_reads, TypeOK
    <3>2. \A a \in {b \in AttemptsOf(u) : ~att[b].passed} : a \in AttemptId /\ att[a].details \in Details
      BY RowType DEF AttemptsOf
    <3>. QED  BY <3>1, <3>2
  <2>. QED  BY <2>1, <2>2
<1>. QED  BY <1>1, <1>2, <1>3, <1>4 DEF TypeOK, live

LEMMA TypeStep ==
  ASSUME TypeOK, ColumnsMatchDetails, [Next]_vars
  PROVE  TypeOK'
<1>1. CASE Next
  <2>0. maxAttempts' \in MaxAttemptsValues /\ made \in Nat
    BY <1>1 DEF Next, TypeOK
  <2>1. CASE AdminEdits
    <3>1. UNCHANGED <<hasPassed, made, att, awards, notices, bypassed, skip, skips>>
      BY <2>1, AdminEditsAreQuiet DEF Quiet, rewardVars
    <3>2. docRow' \in [Doc -> RowState] /\ questionRow' \in [Question -> RowState] /\ edits' \in Nat
      BY <2>1 DEF AdminEdits, upsert_gold_doc_override, soft_delete_gold_doc, Edit, RowState,
                  upsert_quiz_override, soft_delete_quiz_override, TypeOK
    <3>. QED  BY <2>0, <3>1, <3>2 DEF TypeOK, live
  <2>2. ASSUME NEW u \in User, start_attempt(u)
        PROVE  TypeOK'
    <3>1. UNCHANGED <<hasPassed, awards, notices, bypassed, skip, skips, edits, docRow, questionRow>>
      BY <2>2 DEF start_attempt, rewardVars, skipVars, poolVars
    <3>2. live' = live \cup {made + 1} /\ made' = made + 1 /\ made + 1 \in AttemptId
      BY <2>2, StartResult DEF live
    <3>3. \A a \in live' : att'[a] \in Attempt
      BY <2>2, <3>2, StartResult, RowType
    <3>4. att' \in [live' -> Attempt]
      BY <2>2, <3>3 DEF start_attempt, live
    <3>5. live' \subseteq AttemptId \cap 1..made'
      BY <2>0, <3>2 DEF TypeOK
    <3>. QED  BY <2>0, <3>1, <3>2, <3>4, <3>5 DEF TypeOK
  <2>3. ASSUME NEW u \in User, NEW a \in AttemptId, NEW row \in Attempt, Submission(u, a, row)
        PROVE  TypeOK'
    <3>1. UNCHANGED <<made, bypassed, skip, skips, edits, docRow, questionRow>>
      BY <2>3 DEF Submission, skipVars, poolVars
    <3>2. live' = live /\ \A b \in live : att'[b] \in Attempt
      BY <2>3, SubmissionResult, RowType DEF live
    <3>3. att' \in [live' -> Attempt]
      <4>1. att \in [live -> Attempt] /\ a \in live
        BY <2>3, SubmissionResult DEF TypeOK
      <4>2. \E new : att' = [att EXCEPT ![a] = new]
        BY <2>3 DEF Submission, finalize_if_complete
      <4>. QED  BY <3>2, <4>1, <4>2 DEF live
    <3>4. hasPassed' \in [User -> BOOLEAN] /\ awards' \in [AttemptId -> Nat] /\ notices' \in [AttemptId -> Nat]
      BY <2>3, SubmissionResult, RewardResult DEF TypeOK
    <3>. QED  BY <2>0, <3>1, <3>2, <3>3, <3>4 DEF TypeOK
  <2>4. ASSUME NEW u \in User, skip_training_checks(u) \/ skip_training_reads(u)
        PROVE  TypeOK'
    BY <1>1, <2>4, SkipKeepsType DEF Next
  <2>5. ASSUME NEW u \in User, skip_training_closes(u)
        PROVE  TypeOK'
    <3>1. UNCHANGED <<made, awards, notices, edits, docRow, questionRow, skips>>
      BY <2>5 DEF skip_training_closes, rewardVars, poolVars
    <3>2. live' = live /\ att' \in [live' -> Attempt]
      BY <2>5, CloseResult DEF skip_training_closes, live
    <3>3. hasPassed' \in [User -> BOOLEAN] /\ bypassed' \subseteq User
      BY <2>5 DEF skip_training_closes, TypeOK
    <3>4. /\ DOMAIN skip' = User
          /\ \A v \in User : skip'[v] = IF v = u THEN NoSkip ELSE skip[v]
      BY <2>5 DEF skip_training_closes, TypeOK
    <3>5. NoSkip.stage = "idle" /\ DOMAIN NoSkip.read = {}
      BY DEF NoSkip
    <3>6. \A v \in User :
            /\ skip'[v].stage \in {"idle", "checked", "read"}
            /\ DOMAIN skip'[v].read \subseteq AttemptId
            /\ \A a \in DOMAIN skip'[v].read : skip'[v].read[a] \in Details
      BY <3>4, <3>5 DEF TypeOK
    <3>. QED  BY <2>0, <3>1, <3>2, <3>3, <3>4, <3>6 DEF TypeOK
  <2>6. ASSUME NEW u \in User, reset_user_training(u)
        PROVE  TypeOK'
    <3>1. UNCHANGED <<made, awards, notices, edits, docRow, questionRow, skip, skips>>
      BY <2>6 DEF reset_user_training, rewardVars, poolVars
    <3>2. att' = [a \in live \ Deleted(u) |-> att[a]] /\ live' = live \ Deleted(u)
      BY <2>6 DEF reset_user_training, live
    <3>3. att' \in [live' -> Attempt] /\ live' \subseteq AttemptId \cap 1..made'
      BY <3>1, <3>2 DEF TypeOK
    <3>4. hasPassed' \in [User -> BOOLEAN] /\ bypassed' \subseteq User
      BY <2>6 DEF reset_user_training, TypeOK
    <3>. QED  BY <2>0, <3>1, <3>3, <3>4 DEF TypeOK
  <2>. QED  BY <1>1, <2>1, <2>2, <2>3, <2>4, <2>5, <2>6, Steps
<1>2. CASE UNCHANGED vars
  BY <1>2 DEF vars, rewardVars, poolVars, skipVars, TypeOK, live
<1>. QED  BY <1>1, <1>2

-----------------------------------------------------------------------------
(* Open attempts.                                                          *)

\* An open attempt's columns and its missing parts, in one statement.
OpenFits(row) == RowMatches(row) /\ (~row.details.finalized => ~Complete(row))

LEMMA OpenStep ==
  ASSUME TypeOK, ColumnsMatchDetails, OpenIsIncomplete, [Next]_vars
  PROVE  ColumnsMatchDetails' /\ OpenIsIncomplete'
<1>0. \A a \in live : OpenFits(att[a])
  BY DEF ColumnsMatchDetails, OpenIsIncomplete, OpenFits, RowMatches
<1>1. SUFFICES \A a \in DOMAIN att' : OpenFits(att'[a])
  BY DEF ColumnsMatchDetails, OpenIsIncomplete, OpenFits, RowMatches, live, Complete, Submitted, PassedDocs
<1>2. CASE Next
  <2>1. ASSUME Quiet
        PROVE  \A a \in DOMAIN att' : OpenFits(att'[a])
    BY <1>0, <2>1 DEF Quiet, live
  <2>2. ASSUME NEW u \in User, start_attempt(u)
        PROVE  \A a \in DOMAIN att' : OpenFits(att'[a])
    <3> DEFINE new == Blank(u, NextNumber(u))
    <3>1. /\ ~new.details.quiz /\ ~new.passed /\ new.quizScore = 0 /\ new.passCount = 0
          /\ \A d \in Doc : new.details.result[d] = "none"
      BY DEF Blank, Untouched
    <3> HIDE DEF new
    <3>2. PassedDocs(new.details) = {}
      BY <3>1 DEF PassedDocs
    <3>3. Cardinality(PassedDocs(new.details)) = 0
      BY <3>2, FS_EmptySet
    <3>4. OpenFits(new)
      BY <3>1, <3>3 DEF OpenFits, RowMatches, Complete
    <3>. QED  BY <1>0, <2>2, <3>4, StartResult DEF new
  <2>3. ASSUME NEW u \in User, NEW a \in AttemptId, NEW row \in Attempt, Submission(u, a, row)
        PROVE  \A b \in DOMAIN att' : OpenFits(att'[b])
    <3>1. RowMatches(row)
      BY <2>3 DEF Submission
    <3>2. ~att'[a].details.finalized => OpenFits(att'[a])
      <4>1. SUFFICES ASSUME ~att'[a].details.finalized
                     PROVE  OpenFits(att'[a])
        OBVIOUS
      <4>2. att'[a] = row /\ ~Finalizes(row) /\ ~row.details.finalized
        BY <2>3, <4>1, SubmissionResult
      <4>3. ~row.passed
        BY <3>1, <4>2 DEF RowMatches
      <4>. QED  BY <3>1, <4>2, <4>3 DEF OpenFits, Finalizes
    <3>3. att'[a].details.finalized => OpenFits(att'[a])
      BY DEF OpenFits, RowMatches
    <3>. QED  BY <1>0, <2>3, <3>2, <3>3, SubmissionResult
  <2>4. ASSUME NEW u \in User, skip_training_closes(u)
        PROVE  \A a \in DOMAIN att' : OpenFits(att'[a])
    <3>1. ASSUME NEW a \in live
          PROVE  OpenFits(att'[a])
      <4>1. CASE att'[a] = att[a]
        BY <1>0, <4>1
      <4>2. CASE att'[a].details.finalized
        BY <4>2 DEF OpenFits, RowMatches
      <4>. QED  BY <2>4, <4>1, <4>2, CloseResult
    <3>. QED  BY <2>4, <3>1, CloseResult
  <2>5. ASSUME NEW u \in User, reset_user_training(u)
        PROVE  \A a \in DOMAIN att' : OpenFits(att'[a])
    BY <1>0, <2>5, ResetResult
  <2>. QED  BY <1>2, <2>1, <2>2, <2>3, <2>4, <2>5, Steps, AdminEditsAreQuiet, SkipChecksAreQuiet
<1>3. CASE UNCHANGED vars
  BY <1>0, <1>3 DEF vars, live
<1>. QED  BY <1>2, <1>3

-----------------------------------------------------------------------------
(* Awards.                                                                 *)

LEMMA AwardStep ==
  ASSUME TypeOK, ColumnsMatchDetails, AwardsFit, [Next]_vars
  PROVE  AwardsFit'
<1>1. CASE Next
  <2>1. ASSUME Quiet
        PROVE  AwardsFit'
    BY <2>1 DEF Quiet, rewardVars, AwardsFit, live
  <2>2. ASSUME NEW u \in User, start_attempt(u)
        PROVE  AwardsFit'
    <3>1. UNCHANGED <<awards, notices>> /\ made' = made + 1 /\ made \in Nat
      BY <2>2 DEF start_attempt, rewardVars, TypeOK
    <3>2. live' = live \cup {made + 1} /\ \A a \in live : att'[a] = att[a]
      BY <2>2, StartResult DEF live
    <3>3. \A a \in AttemptId : a \in Int
      BY DEF AttemptId
    <3>. QED  BY <3>1, <3>2, <3>3 DEF AwardsFit
  <2>3. ASSUME NEW u \in User, NEW a \in AttemptId, NEW row \in Attempt, Submission(u, a, row)
        PROVE  AwardsFit'
    <3>1. made' = made /\ live' = live /\ a \in live /\ a <= made /\ a \in Int /\ made \in Nat
      BY <2>3, SubmissionResult, RowType DEF Submission, live, TypeOK
    <3>2. \A b \in live : b # a => att'[b] = att[b]
      BY <2>3, SubmissionResult
    <3>3. CASE UNCHANGED <<awards, notices>> /\ (att'[a].passed = att[a].passed \/ ~att[a].passed)
      BY <3>1, <3>2, <3>3 DEF AwardsFit
    <3>4. CASE Rewards(a, u) /\ ~att[a].passed /\ att'[a].passed
      <4>1. awards[a] = 0 /\ notices[a] = 0
        BY <3>1, <3>4 DEF AwardsFit
      <4>2. /\ awards' \in [AttemptId -> Nat] /\ notices' \in [AttemptId -> Nat]
            /\ \A b \in AttemptId : b # a => awards'[b] = awards[b] /\ notices'[b] = notices[b]
            /\ awards'[a] <= 1 /\ notices'[a] <= 1
        BY <3>4, <4>1, RewardResult
      <4>. QED  BY <3>1, <3>2, <3>4, <4>2 DEF AwardsFit
    <3>5. CASE UNCHANGED <<awards, notices>> /\ att[a].passed /\ ~att'[a].passed
      BY <2>3, <3>5, SubmissionResult
    <3>. QED  BY <2>3, <3>3, <3>4, <3>5, SubmissionResult
  <2>4. ASSUME NEW u \in User, skip_training_closes(u)
        PROVE  AwardsFit'
    <3>1. UNCHANGED <<made, awards, notices>>
      BY <2>4 DEF skip_training_closes, rewardVars
    <3>2. live' = live /\ \A a \in live : att'[a].passed = att[a].passed
      BY <2>4, CloseResult DEF live
    <3>. QED  BY <3>1, <3>2 DEF AwardsFit
  <2>5. ASSUME NEW u \in User, reset_user_training(u)
        PROVE  AwardsFit'
    <3>1. live' \subseteq live /\ \A a \in live' : att'[a] = att[a]
      BY <2>5, ResetResult DEF live
    <3>. QED  BY <2>5, <3>1, ResetResult DEF AwardsFit
  <2>. QED  BY <1>1, <2>1, <2>2, <2>3, <2>4, <2>5, Steps, AdminEditsAreQuiet, SkipChecksAreQuiet
<1>2. CASE UNCHANGED vars
  BY <1>2 DEF vars, rewardVars, AwardsFit, live
<1>. QED  BY <1>1, <1>2

-----------------------------------------------------------------------------
(* The gate.                                                               *)

LEMMA GateStep ==
  ASSUME TypeOK, ColumnsMatchDetails, GateIsEarned, [Next]_vars
  PROVE  GateIsEarned'
<1> DEFINE Earned(u) == u \in bypassed \/ \E a \in live : att[a].owner = u /\ att[a].passed
           Opens == "flag" \notin Failable => \A a \in live : att[a].passed => hasPassed[att[a].owner]
<1>0. GateIsEarned <=> (\A u \in User : hasPassed[u] => Earned(u)) /\ Opens
  BY DEF GateIsEarned, AttemptsOf
<1>00. GateIsEarned' <=> (\A u \in User : hasPassed'[u] => Earned(u)') /\ Opens'
  BY DEF GateIsEarned, AttemptsOf
<1>1. CASE Next
  <2>1. ASSUME Quiet
        PROVE  GateIsEarned'
    BY <2>1 DEF Quiet, GateIsEarned, AttemptsOf, live
  <2>2. ASSUME NEW u \in User, start_attempt(u)
        PROVE  GateIsEarned'
    <3>1. UNCHANGED <<hasPassed, bypassed>>
      BY <2>2 DEF start_attempt, skipVars
    <3>2. live' = live \cup {made + 1} /\ \A a \in live : att'[a] = att[a]
      BY <2>2, StartResult DEF live
    <3>3. ~att'[made + 1].passed
      <4>1. ~Blank(u, NextNumber(u)).passed
        BY DEF Blank
      <4>. QED  BY <2>2, <4>1, StartResult
    <3>. QED  BY <1>0, <1>00, <3>1, <3>2, <3>3
  <2>3. ASSUME NEW u \in User, NEW a \in AttemptId, NEW row \in Attempt, Submission(u, a, row)
        PROVE  GateIsEarned'
    <3>1. bypassed' = bypassed /\ live' = live /\ a \in live /\ att[a].owner = u /\ att'[a].owner = u
      BY <2>3, SubmissionResult DEF Submission, live, skipVars
    <3>2. /\ \A b \in live : b # a => att'[b] = att[b]
          /\ att[a].passed => att'[a].passed
      BY <2>3, SubmissionResult
    <3>3. \A v \in User : Earned(v) => Earned(v)'
      BY <3>1, <3>2
    <3>4. CASE UNCHANGED hasPassed /\ (att'[a].passed => att[a].passed)
      <4>1. \A v \in User : hasPassed'[v] => Earned(v)'
        BY <1>0, <3>3, <3>4
      <4>2. Opens'
        BY <1>0, <3>1, <3>2, <3>4
      <4>. QED  BY <1>00, <4>1, <4>2
    <3>5. CASE Rewards(a, u) /\ att'[a].passed
      <4>1. /\ \A v \in User : v # u => hasPassed'[v] = hasPassed[v]
            /\ hasPassed[u] => hasPassed'[u]
            /\ "flag" \notin Failable => hasPassed'[u]
        BY <3>5, RewardResult
      <4>2. Earned(u)'
        BY <3>1, <3>5
      <4>3. \A v \in User : hasPassed'[v] => Earned(v)'
        BY <1>0, <3>3, <4>1, <4>2
      <4>4. \A b \in live : att[b].owner \in User
        BY RowType DEF Attempt
      <4>5. Opens'
        BY <1>0, <3>1, <3>2, <4>1, <4>4
      <4>. QED  BY <1>00, <4>3, <4>5
    <3>. QED  BY <2>3, <3>4, <3>5, SubmissionResult
  <2>4. ASSUME NEW u \in User, skip_training_closes(u)
        PROVE  GateIsEarned'
    <3>1. hasPassed' = [hasPassed EXCEPT ![u] = TRUE] /\ bypassed' = bypassed \cup {u}
          /\ hasPassed \in [User -> BOOLEAN]
      BY <2>4 DEF skip_training_closes, TypeOK
    <3>2. live' = live /\ \A a \in live : att'[a].passed = att[a].passed /\ att'[a].owner = att[a].owner
      BY <2>4, CloseResult DEF live
    <3>3. \A a \in live : att[a].owner \in User
      BY RowType DEF Attempt
    <3>. QED  BY <1>0, <1>00, <3>1, <3>2, <3>3
  <2>5. ASSUME NEW u \in User, reset_user_training(u)
        PROVE  GateIsEarned'
    <3>1. hasPassed' = [hasPassed EXCEPT ![u] = FALSE] /\ bypassed' = bypassed \ {u}
          /\ hasPassed \in [User -> BOOLEAN]
      BY <2>5 DEF reset_user_training, TypeOK
    <3>2. live' = {a \in live : att[a].owner # u} /\ \A a \in live' : att'[a] = att[a]
      BY <2>5, ResetResult DEF live
    <3>3. \A a \in live : att[a].owner \in User
      BY RowType DEF Attempt
    <3>. QED  BY <1>0, <1>00, <3>1, <3>2, <3>3
  <2>. QED  BY <1>1, <2>1, <2>2, <2>3, <2>4, <2>5, Steps, AdminEditsAreQuiet, SkipChecksAreQuiet
<1>2. CASE UNCHANGED vars
  BY <1>2 DEF vars, skipVars, GateIsEarned, AttemptsOf, live
<1>. QED  BY <1>1, <1>2

-----------------------------------------------------------------------------
(* Numbers and the lockout.                                                *)

Counted == NumbersFit /\ AttemptsAreCounted

\* A step that keeps every attempt with its owner, number and no pass undone.
LEMMA CountsKept ==
  ASSUME TypeOK, Counted, maxAttempts' = maxAttempts, DOMAIN att' = live,
         \A a \in live : /\ att'[a].owner = att[a].owner /\ att'[a].number = att[a].number
                         /\ att[a].passed => att'[a].passed
  PROVE  Counted'
<1>1. \A u : AttemptsOf(u)' = AttemptsOf(u)
  BY DEF AttemptsOf, live
<1>2. \A u \in User : \A a \in AttemptsOf(u) : a \in live
  BY DEF AttemptsOf
<1>. QED  BY <1>1, <1>2 DEF Counted, NumbersFit, AttemptsAreCounted

LEMMA CountStep ==
  ASSUME TypeOK, ColumnsMatchDetails, Counted, [Next]_vars
  PROVE  Counted'
<1>1. CASE Next
  <2>0. maxAttempts' = maxAttempts
    BY <1>1 DEF Next
  <2>1. ASSUME Quiet
        PROVE  Counted'
    BY <2>0, <2>1, CountsKept DEF Quiet, live
  <2>2. ASSUME NEW u \in User, start_attempt(u)
        PROVE  Counted'
    <3> DEFINE n == made + 1
    <3>1. /\ DOMAIN att' = live \cup {n} /\ n \notin live /\ att'[n] = Blank(u, NextNumber(u))
          /\ \A a \in live : att'[a] = att[a]
      BY <2>2, StartResult
    <3>2. att'[n].owner = u /\ att'[n].number = Cardinality(AttemptsOf(u)) + 1 /\ ~att'[n].passed
      BY <3>1 DEF Blank, NextNumber
    <3> HIDE DEF n
    <3>3. AttemptsOf(u)' = AttemptsOf(u) \cup {n} /\ n \notin AttemptsOf(u)
      BY <3>1, <3>2 DEF AttemptsOf, live
    <3>4. \A v : v # u => AttemptsOf(v)' = AttemptsOf(v)
      BY <3>1, <3>2 DEF AttemptsOf, live
    <3>5. \A v \in User : \A a \in AttemptsOf(v) : a \in live
      BY DEF AttemptsOf
    <3>6. IsFiniteSet(AttemptsOf(u)) /\ Cardinality(AttemptsOf(u)) \in Nat
      BY AttemptsAreFinite
    <3>7. Cardinality(AttemptsOf(u)') = Cardinality(AttemptsOf(u)) + 1
      BY <3>3, <3>6, FS_AddElement
    <3>8. \A a \in AttemptsOf(u) : att[a].number \in Nat /\ att[a].number <= Cardinality(AttemptsOf(u))
      BY <3>5, RowType DEF Attempt, Counted, NumbersFit
    <3>9. NumbersFit'
      <4>1. ASSUME NEW v \in User, NEW a \in AttemptsOf(v)'
            PROVE  att'[a].number <= Cardinality(AttemptsOf(v)')
        <5>1. CASE v # u
          BY <3>1, <3>4, <3>5, <4>1, <5>1 DEF Counted, NumbersFit
        <5>2. CASE v = u /\ a = n
          BY <3>2, <3>6, <3>7, <5>2
        <5>3. CASE v = u /\ a # n
          <6>1. a \in AttemptsOf(u) /\ att'[a] = att[a]
            BY <3>1, <3>3, <3>5, <4>1, <5>3
          <6>. QED  BY <3>6, <3>7, <3>8, <5>3, <6>1
        <5>. QED  BY <5>1, <5>2, <5>3
      <4>. QED  BY <4>1 DEF NumbersFit
    <3>10. ASSUME NEW v \in User, NEW a \in AttemptsOf(v)', NEW b \in AttemptsOf(v)', a # b
           PROVE  att'[a].number # att'[b].number
      <4>1. CASE v # u
        BY <3>1, <3>4, <3>5, <3>10, <4>1 DEF Counted, AttemptsAreCounted
      <4>2. CASE v = u
        BY <3>1, <3>2, <3>3, <3>5, <3>6, <3>8, <3>10, <4>2 DEF Counted, AttemptsAreCounted
      <4>. QED  BY <4>1, <4>2
    <3>11. ASSUME NEW v \in User, \A a \in AttemptsOf(v)' : ~att'[a].passed
           PROVE  Cardinality(AttemptsOf(v)') <= maxAttempts'
      <4>1. CASE v # u
        <5>1. \A a \in AttemptsOf(v) : ~att[a].passed
          BY <3>1, <3>4, <3>5, <3>11, <4>1
        <5>. QED  BY <2>0, <3>4, <4>1, <5>1 DEF Counted, AttemptsAreCounted
      <4>2. CASE v = u
        <5>1. \A a \in AttemptsOf(u) : ~att[a].passed
          BY <3>1, <3>3, <3>5, <3>11, <4>2
        <5>2. ~is_locked_out(u)
          BY <2>2 DEF start_attempt
        <5>3. maxAttempts \in Nat \ {0}
          BY SettingAssumption DEF TypeOK
        <5>4. CASE AttemptsOf(u) = {}
          <6>1. Cardinality(AttemptsOf(u)) = 0
            BY <5>4, FS_EmptySet
          <6>. QED  BY <2>0, <3>7, <4>2, <5>3, <6>1
        <5>5. CASE AttemptsOf(u) # {}
          <6>1. Cardinality(AttemptsOf(u)) < maxAttempts
            BY <3>6, <5>1, <5>2, <5>3, <5>5 DEF is_locked_out
          <6>. QED  BY <2>0, <3>6, <3>7, <4>2, <5>3, <6>1
        <5>. QED  BY <5>4, <5>5
      <4>. QED  BY <4>1, <4>2
    <3>. QED  BY <3>9, <3>10, <3>11 DEF Counted, AttemptsAreCounted
  <2>3. ASSUME NEW u \in User, NEW a \in AttemptId, NEW row \in Attempt, Submission(u, a, row)
        PROVE  Counted'
    BY <2>0, <2>3, SubmissionResult, CountsKept
  <2>4. ASSUME NEW u \in User, skip_training_closes(u)
        PROVE  Counted'
    BY <2>0, <2>4, CloseResult, CountsKept
  <2>5. ASSUME NEW u \in User, reset_user_training(u)
        PROVE  Counted'
    <3>1. DOMAIN att' = {a \in live : att[a].owner # u} /\ \A a \in DOMAIN att' : att'[a] = att[a]
      BY <2>5, ResetResult
    <3>2. AttemptsOf(u)' = {} /\ \A v : v # u => AttemptsOf(v)' = AttemptsOf(v)
      BY <3>1 DEF AttemptsOf, live
    <3>3. \A v \in User : v # u => \A a \in AttemptsOf(v) : att'[a] = att[a]
      BY <3>1 DEF AttemptsOf, live
    <3>4. Cardinality({}) = 0 /\ maxAttempts \in Nat
      BY FS_EmptySet, SettingAssumption DEF TypeOK
    <3>5. NumbersFit'
      BY <3>2, <3>3 DEF Counted, NumbersFit
    <3>6. ASSUME NEW v \in User
          PROVE  /\ \A a, b \in AttemptsOf(v)' : a # b => att'[a].number # att'[b].number
                 /\ (\A a \in AttemptsOf(v)' : ~att'[a].passed) => Cardinality(AttemptsOf(v)') <= maxAttempts'
      <4>1. CASE v = u
        BY <2>0, <3>2, <3>4, <4>1
      <4>2. CASE v # u
        BY <2>0, <3>2, <3>3, <4>2 DEF Counted, AttemptsAreCounted
      <4>. QED  BY <4>1, <4>2
    <3>. QED  BY <3>5, <3>6 DEF Counted, AttemptsAreCounted
  <2>. QED  BY <1>1, <2>1, <2>2, <2>3, <2>4, <2>5, Steps, AdminEditsAreQuiet, SkipChecksAreQuiet
<1>2. CASE UNCHANGED vars
  BY <1>2, CountsKept DEF vars, live
<1>. QED  BY <1>1, <1>2

-----------------------------------------------------------------------------
(* The pools.                                                              *)

\* Making a row live never takes an item out of a pool.
LEMMA UpsertKeepsPool ==
  ASSUME NEW S, IsFiniteSet(S), NEW base, NEW row \in [S -> RowState], NEW x \in S
  PROVE  Cardinality(Resolved(base, [row EXCEPT ![x] = "live"])) >= Cardinality(Resolved(base, row))
<1> DEFINE before == Resolved(base, row)
           after  == Resolved(base, [row EXCEPT ![x] = "live"])
<1>1. before \subseteq after /\ after \subseteq S
  BY DEF Resolved, RowState
<1> HIDE DEF before, after
<1>2. IsFiniteSet(after) /\ Cardinality(before) <= Cardinality(after)
  BY <1>1, FS_Subset
<1>3. Cardinality(before) \in Nat /\ Cardinality(after) \in Nat
  BY <1>1, <1>2, FS_Subset, FS_CardinalityType
<1>. QED  BY <1>2, <1>3 DEF before, after

\* A delete that is not refused leaves enough.
LEMMA DeleteKeepsPool ==
  ASSUME NEW S, IsFiniteSet(S), NEW base, NEW row \in [S -> RowState], NEW x \in S,
         NEW required \in Nat, Cardinality(Resolved(base, row)) >= required,
         MayDelete(x, Resolved(base, row), required)
  PROVE  Cardinality(Resolved(base, [row EXCEPT ![x] = "deleted"])) >= required
<1> DEFINE before == Resolved(base, row)
           after  == Resolved(base, [row EXCEPT ![x] = "deleted"])
<1>1. after = before \ {x} /\ before \subseteq S
  BY DEF Resolved, RowState
<1>2. MayDelete(x, before, required) /\ Cardinality(before) >= required
  OBVIOUS
<1> HIDE DEF before, after
<1>3. IsFiniteSet(before) /\ Cardinality(before) \in Nat
  BY <1>1, FS_Subset, FS_CardinalityType
<1>4. CASE x \in before
  <2>1. Cardinality(after) = Cardinality(before) - 1
    BY <1>1, <1>3, <1>4, FS_RemoveElement
  <2>. QED  BY <1>2, <1>3, <1>4, <2>1 DEF MayDelete, after
<1>5. CASE x \notin before
  <2>1. after = before
    BY <1>1, <1>5
  <2>. QED  BY <1>2, <2>1 DEF after
<1>. QED  BY <1>4, <1>5

LEMMA PoolStep ==
  ASSUME TypeOK, PoolsAreKept, [Next]_vars
  PROVE  PoolsAreKept'
<1>0. /\ docRow \in [Doc -> RowState] /\ questionRow \in [Question -> RowState]
      /\ IsFiniteSet(Doc) /\ IsFiniteSet(Question)
      /\ GOLD_DOC_COUNT \in Nat /\ QUIZ_QUESTION_COUNT \in Nat
  BY PoolAssumption, CountAssumption DEF TypeOK
<1>1. /\ Cardinality(Resolved(BaseDoc, docRow)) >= GOLD_DOC_COUNT
      /\ Cardinality(Resolved(BaseQuestion, questionRow)) >= QUIZ_QUESTION_COUNT
  BY DEF PoolsAreKept, get_active_gold_docs, get_active_quiz_questions
<1>2. SUFFICES /\ Cardinality(Resolved(BaseDoc, docRow')) >= GOLD_DOC_COUNT
               /\ Cardinality(Resolved(BaseQuestion, questionRow')) >= QUIZ_QUESTION_COUNT
  BY DEF PoolsAreKept, get_active_gold_docs, get_active_quiz_questions, Resolved
<1>3. CASE UNCHANGED <<docRow, questionRow>>
  BY <1>1, <1>3
<1>4. ASSUME NEW d \in Doc, upsert_gold_doc_override(d) \/ soft_delete_gold_doc(d)
      PROVE  /\ questionRow' = questionRow
             /\ Cardinality(Resolved(BaseDoc, docRow')) >= GOLD_DOC_COUNT
  <2>1. questionRow' = questionRow
    BY <1>4 DEF upsert_gold_doc_override, soft_delete_gold_doc
  <2>2. CASE upsert_gold_doc_override(d)
    <3>1. docRow' = [docRow EXCEPT ![d] = "live"]
      BY <2>2 DEF upsert_gold_doc_override
    <3>2. docRow' \in [Doc -> RowState]
      BY <1>0, <3>1 DEF RowState
    <3>3. Cardinality(Resolved(BaseDoc, docRow')) >= Cardinality(Resolved(BaseDoc, docRow))
      BY <1>0, <3>1, UpsertKeepsPool
    <3>4. \A r \in [Doc -> RowState] : Cardinality(Resolved(BaseDoc, r)) \in Nat
      BY SubsetsOfDocs DEF Resolved
    <3>. QED  BY <1>0, <1>1, <2>1, <3>2, <3>3, <3>4
  <2>3. CASE soft_delete_gold_doc(d)
    <3>1. docRow' = [docRow EXCEPT ![d] = "deleted"] /\ MayDelete(d, Resolved(BaseDoc, docRow), GOLD_DOC_COUNT)
      BY <2>3 DEF soft_delete_gold_doc, get_active_gold_docs
    <3>2. Cardinality(Resolved(BaseDoc, docRow')) >= GOLD_DOC_COUNT
      BY <1>0, <1>1, <3>1, DeleteKeepsPool
    <3>. QED  BY <2>1, <3>2
  <2>. QED  BY <1>4, <2>2, <2>3
<1>5. ASSUME NEW q \in Question, upsert_quiz_override(q) \/ soft_delete_quiz_override(q)
      PROVE  /\ docRow' = docRow
             /\ Cardinality(Resolved(BaseQuestion, questionRow')) >= QUIZ_QUESTION_COUNT
  <2>1. docRow' = docRow
    BY <1>5 DEF upsert_quiz_override, soft_delete_quiz_override
  <2>2. CASE upsert_quiz_override(q)
    <3>1. questionRow' = [questionRow EXCEPT ![q] = "live"]
      BY <2>2 DEF upsert_quiz_override
    <3>2. questionRow' \in [Question -> RowState]
      BY <1>0, <3>1 DEF RowState
    <3>3. Cardinality(Resolved(BaseQuestion, questionRow')) >= Cardinality(Resolved(BaseQuestion, questionRow))
      BY <1>0, <3>1, UpsertKeepsPool
    <3>4. \A r \in [Question -> RowState] : Cardinality(Resolved(BaseQuestion, r)) \in Nat
      BY PoolAssumption, FS_Subset, FS_CardinalityType DEF Resolved
    <3>. QED  BY <1>0, <1>1, <2>1, <3>2, <3>3, <3>4
  <2>3. CASE soft_delete_quiz_override(q)
    <3>1. /\ questionRow' = [questionRow EXCEPT ![q] = "deleted"]
          /\ MayDelete(q, Resolved(BaseQuestion, questionRow), QUIZ_QUESTION_COUNT)
      BY <2>3 DEF soft_delete_quiz_override, get_active_quiz_questions
    <3>2. Cardinality(Resolved(BaseQuestion, questionRow')) >= QUIZ_QUESTION_COUNT
      BY <1>0, <1>1, <3>1, DeleteKeepsPool
    <3>. QED  BY <2>1, <3>2
  <2>. QED  BY <1>5, <2>2, <2>3
<1>6. CASE Next
  <2>1. CASE AdminEdits
    BY <1>1, <1>4, <1>5, <2>1 DEF AdminEdits
  <2>2. CASE \E u \in User : Requests(u)
    <3>1. PICK u \in User : Requests(u)
      BY <2>2
    <3>2. ASSUME NEW a \in AttemptId, Submits(u, a)  PROVE UNCHANGED poolVars
      BY <3>2 DEF Submits, submit_quiz, submit_annotation
    <3>3. CASE start_attempt(u) \/ reset_user_training(u)
      BY <1>3, <3>3 DEF start_attempt, reset_user_training, poolVars
    <3>4. CASE skip_training_checks(u) \/ skip_training_reads(u) \/ skip_training_closes(u)
      BY <1>3, <3>4 DEF skip_training_checks, skip_training_reads, skip_training_closes, poolVars
    <3>. QED  BY <1>3, <3>1, <3>2, <3>3, <3>4 DEF Requests, poolVars
  <2>. QED  BY <1>6, <2>1, <2>2 DEF Next
<1>7. CASE UNCHANGED vars
  BY <1>3, <1>7 DEF vars, poolVars
<1>. QED  BY <1>6, <1>7

\* Enough documents to draw from, and fewer submitted than drawn: one is left.
LEMMA AttemptsCanBeFinished ==
  ASSUME TypeOK, PoolsAreKept, OpenIsIncomplete
  PROVE  AttemptCanBeFinished
<1> SUFFICES ASSUME NEW a \in live, ~att[a].details.finalized, att[a].details.quiz,
                    \A d \in Selected(a) : att[a].details.result[d] # "none",
                    Selected(a) \cap Underscored = {}
             PROVE  FALSE
  BY DEF AttemptCanBeFinished
<1>1. get_active_gold_docs \subseteq Doc /\ Cardinality(get_active_gold_docs) >= GOLD_DOC_COUNT
  BY DEF get_active_gold_docs, Resolved, TypeOK, PoolsAreKept
<1>2. Selected(a) \subseteq get_active_gold_docs /\ Cardinality(Selected(a)) = GOLD_DOC_COUNT
  BY <1>1, RowType, DrawAssumption DEF Selected
<1>3. Selected(a) \subseteq Submitted(att[a].details) /\ Submitted(att[a].details) \subseteq Doc
  BY <1>1, <1>2 DEF Submitted
<1>4. Cardinality(Selected(a)) <= Cardinality(Submitted(att[a].details))
  BY <1>3, SubsetsOfDocs, FS_Subset
<1>5. ~Complete(att[a])
  BY DEF OpenIsIncomplete
<1>. QED  BY <1>2, <1>3, <1>4, <1>5, SubsetsOfDocs, CountAssumption DEF Complete

-----------------------------------------------------------------------------
(* The theorems.                                                           *)

LEMMA InitHolds == Init => IInv
<1> SUFFICES ASSUME Init PROVE IInv
  OBVIOUS
<1>1. live = {} /\ \A u : AttemptsOf(u) = {}
  BY DEF Init, live, AttemptsOf
<1>2. TypeOK
  <2>1. NoSkip.stage = "idle" /\ DOMAIN NoSkip.read = {}
    BY DEF NoSkip
  <2>2. att \in [live -> Attempt]
    BY <1>1 DEF Init
  <2>. QED  BY <1>1, <2>1, <2>2, BoundAssumption DEF Init, TypeOK, RowState
<1>3. PoolsAreKept
  <2>1. BaseDoc \subseteq get_active_gold_docs /\ get_active_gold_docs \subseteq Doc
    BY PoolAssumption DEF Init, get_active_gold_docs, Resolved
  <2>2. BaseQuestion \subseteq get_active_quiz_questions /\ get_active_quiz_questions \subseteq Question
    BY PoolAssumption DEF Init, get_active_quiz_questions, Resolved
  <2>3. /\ IsFiniteSet(get_active_gold_docs) /\ IsFiniteSet(get_active_quiz_questions)
    BY <2>1, <2>2, PoolAssumption, FS_Subset
  <2>4. /\ Cardinality(BaseDoc) <= Cardinality(get_active_gold_docs)
        /\ Cardinality(BaseQuestion) <= Cardinality(get_active_quiz_questions)
    BY <2>1, <2>2, <2>3, FS_Subset
  <2>5. /\ Cardinality(BaseDoc) \in Nat /\ Cardinality(get_active_gold_docs) \in Nat
        /\ Cardinality(BaseQuestion) \in Nat /\ Cardinality(get_active_quiz_questions) \in Nat
    BY <2>1, <2>2, <2>3, FS_Subset, FS_CardinalityType
  <2>. QED  BY <2>4, <2>5, CountAssumption DEF PoolsAreKept
<1>4. ColumnsMatchDetails /\ OpenIsIncomplete
  BY <1>1 DEF ColumnsMatchDetails, OpenIsIncomplete
<1>5. AwardsFit
  BY <1>1 DEF AwardsFit, Init
<1>6. GateIsEarned
  BY <1>1 DEF GateIsEarned, Init
<1>7. NumbersFit /\ AttemptsAreCounted
  <2>1. Cardinality({}) = 0 /\ maxAttempts \in Nat
    BY FS_EmptySet, SettingAssumption DEF Init
  <2>. QED  BY <1>1, <2>1 DEF NumbersFit, AttemptsAreCounted
<1>. QED  BY <1>2, <1>3, <1>4, <1>5, <1>6, <1>7 DEF IInv

LEMMA StepHolds == IInv /\ [Next]_vars => IInv'
BY TypeStep, PoolStep, OpenStep, AwardStep, GateStep, CountStep DEF IInv, Counted

THEOREM InvariantHolds == Spec => []IInv
BY InitHolds, StepHolds, PTL DEF Spec

\* Every variable keeps its type.
THEOREM TypesHold == Spec => []TypeOK
<1>1. IInv => TypeOK
  BY DEF IInv
<1>. QED  BY <1>1, InvariantHolds, PTL

\* An attempt is rewarded at most once, and only if it passed.
THEOREM OneAward == Spec => []AwardedOnce
<1>1. IInv => AwardedOnce
  BY DEF IInv, AwardsFit, AwardedOnce, TypeOK
<1>. QED  BY <1>1, InvariantHolds, PTL

\* The columns an attempt is judged by say what its details say.
THEOREM ColumnsAgree == Spec => []ColumnsMatchDetails
<1>1. IInv => ColumnsMatchDetails
  BY DEF IInv
<1>. QED  BY <1>1, InvariantHolds, PTL

\* The gate is open for those who passed, skipped or were inserted with it open.
THEOREM GateEarned == Spec => []GateIsEarned
<1>1. IInv => GateIsEarned
  BY DEF IInv
<1>. QED  BY <1>1, InvariantHolds, PTL

\* Attempts are numbered without a repetition and limited in number.
THEOREM AttemptsCounted == Spec => []AttemptsAreCounted
<1>1. IInv => AttemptsAreCounted
  BY DEF IInv
<1>. QED  BY <1>1, InvariantHolds, PTL

\* No sequence of edits empties a pool below what an attempt draws.
THEOREM PoolsKept == Spec => []PoolsAreKept
<1>1. IInv => PoolsAreKept
  BY DEF IInv
<1>. QED  BY <1>1, InvariantHolds, PTL

\* An attempt without a verdict can always be continued to one, unless its draw
\* has a document whose id begins with an underscore.
THEOREM NoAttemptIsStuck == Spec => []AttemptCanBeFinished
<1>1. IInv => AttemptCanBeFinished
  BY AttemptsCanBeFinished DEF IInv
<1>. QED  BY <1>1, InvariantHolds, PTL

\* A verdict is final.
THEOREM VerdictStands == Spec => VerdictIsFinal
<1> DEFINE Final == \A a \in live \cap live' : att[a].details.finalized =>
                      att'[a].details.finalized /\ att'[a].passed = att[a].passed
<1>1. IInv /\ [Next]_vars => [Final]_vars
  <2> SUFFICES ASSUME IInv, Next PROVE Final
    BY DEF vars
  <2>0. TypeOK /\ ColumnsMatchDetails
    BY DEF IInv
  <2>1. Quiet => Final
    BY DEF Quiet
  <2>2. ASSUME NEW u \in User, start_attempt(u) PROVE Final
    BY <2>0, <2>2, StartResult
  <2>3. ASSUME NEW u \in User, NEW a \in AttemptId, NEW row \in Attempt, Submission(u, a, row)
        PROVE  Final
    BY <2>0, <2>3, SubmissionResult
  <2>4. ASSUME NEW u \in User, skip_training_closes(u) PROVE Final
    BY <2>0, <2>4, CloseResult
  <2>5. ASSUME NEW u \in User, reset_user_training(u) PROVE Final
    BY <2>0, <2>5, ResetResult DEF live
  <2>. QED  BY <2>0, <2>1, <2>2, <2>3, <2>4, <2>5, Steps, AdminEditsAreQuiet, SkipChecksAreQuiet
<1>. QED  BY <1>1, InvariantHolds, PTL DEF Spec, VerdictIsFinal
=============================================================================
