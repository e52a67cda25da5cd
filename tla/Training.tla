------------------------------ MODULE Training ------------------------------
(* The training gate: attempts of a quiz and gold documents, their verdict *)
(* with its rewards, the escape hatch that skips them, the administrator's *)
(* reset, and the pools the questions and documents are drawn from         *)
(* (backend/training/service.py, routes.py and quiz_data.py).  A request   *)
(* that is one SQLite transaction is one step; skip_training reads before  *)
(* its transaction and takes three.                                        *)
EXTENDS Integers, FiniteSets

CONSTANTS
  User,
  MaxAttemptId,               \* bound: AUTOINCREMENT never gives an id again
  Doc, BaseDoc,               \* gold documents, and those of the code
  Underscored,                \* documents whose id begins with an underscore
  Question, BaseQuestion,     \* quiz questions, and those of the code
  GOLD_DOC_COUNT, QUIZ_QUESTION_COUNT,
  MaxAttemptsValues,          \* what training.max_attempts may be set to
  QuizThreshold, AnnotationThreshold,  \* settings
  Draw,                       \* the seeded sample: Draw[attempt][pool]
  Failable,                   \* side effects of a pass that may fail
  MaxEdits, MaxSkips          \* bounds on pool edits and on skips

AttemptId == 1..MaxAttemptId

ASSUME IdAssumption == MaxAttemptId \in Nat
ASSUME PoolAssumption ==
  /\ IsFiniteSet(Doc) /\ BaseDoc \subseteq Doc /\ Underscored \subseteq Doc \ BaseDoc
  /\ IsFiniteSet(Question) /\ BaseQuestion \subseteq Question
ASSUME CountAssumption ==
  /\ GOLD_DOC_COUNT \in Nat /\ GOLD_DOC_COUNT <= Cardinality(BaseDoc)
  /\ QUIZ_QUESTION_COUNT \in Nat /\ QUIZ_QUESTION_COUNT <= Cardinality(BaseQuestion)
ASSUME SettingAssumption ==
  MaxAttemptsValues \subseteq Nat \ {0} /\ QuizThreshold \in Nat /\ AnnotationThreshold \in Nat
ASSUME DrawAssumption ==
  \A a \in AttemptId, pool \in SUBSET Doc : Cardinality(pool) >= GOLD_DOC_COUNT =>
     Draw[a][pool] \subseteq pool /\ Cardinality(Draw[a][pool]) = GOLD_DOC_COUNT
ASSUME BoundAssumption == MaxEdits \in Nat /\ MaxSkips \in Nat
ASSUME FailableAssumption == Failable \subseteq {"flag", "points", "notice"}

Result == {"none", "failed", "passed"}
RowState == {"none", "live", "deleted"}

\* annotation_details_json, and a row of training_attempts.  The blob keeps the
\* results under the ids of the documents, beside the flags, whose names begin
\* with an underscore; no document is called like a flag.
Details == [quiz: BOOLEAN, result: [Doc -> Result], finalized: BOOLEAN, skipped: BOOLEAN]
Attempt == [owner: User, number: Nat, quizScore: Nat, passCount: Nat,
            passed: BOOLEAN, details: Details]

VARIABLES
  maxAttempts,  \* training.max_attempts of this deployment
  hasPassed,    \* users.has_passed_training
  made,         \* the last id given
  att,          \* training_attempts: id of a row -> the row
  docRow,       \* training_gold_doc_overrides
  questionRow,  \* training_quiz_overrides
  awards,       \* id -> training_pass rows in the points ledger
  notices,      \* id -> training_passed notifications
  skip,         \* user -> its skip request: stage, details read of open attempts
  bypassed,     \* users let in without an attempt since their last reset (history)
  edits, skips  \* pool edits and skips made (bounded)

poolVars   == <<docRow, questionRow, edits>>
rewardVars == <<awards, notices>>
skipVars   == <<skip, bypassed, skips>>
vars == <<maxAttempts, hasPassed, made, att, rewardVars, poolVars, skipVars>>

live == DOMAIN att

Untouched == [quiz |-> FALSE, result |-> [d \in Doc |-> "none"],
              finalized |-> FALSE, skipped |-> FALSE]
Blank(u, n) == [owner |-> u, number |-> n, quizScore |-> 0, passCount |-> 0,
                passed |-> FALSE, details |-> Untouched]
NoSkip == [stage |-> "idle", read |-> [a \in {} |-> Untouched]]

\* The bootstrap administrator is inserted with the gate open.
Init ==
  /\ maxAttempts \in MaxAttemptsValues
  /\ bypassed \in SUBSET User
  /\ hasPassed = [u \in User |-> u \in bypassed]
  /\ made = 0
  /\ att = <<>>
  /\ docRow = [d \in Doc |-> "none"]
  /\ questionRow = [q \in Question |-> "none"]
  /\ awards = [a \in AttemptId |-> 0]
  /\ notices = [a \in AttemptId |-> 0]
  /\ skip = [u \in User |-> NoSkip]
  /\ edits = 0 /\ skips = 0

-----------------------------------------------------------------------------
(* The pools: the baseline of the code under the administrators' rows.     *)

\* A tombstone hides an item of the code; a live row of another id adds one.
Resolved(base, row) ==
  {x \in DOMAIN row : IF x \in base THEN row[x] # "deleted" ELSE row[x] = "live"}

get_active_gold_docs == Resolved(BaseDoc, docRow)
get_active_quiz_questions == Resolved(BaseQuestion, questionRow)

\* The refusal of a delete that would leave too few active items.
MayDelete(x, active, required) == x \in active => Cardinality(active) > required

Edit == edits < MaxEdits /\ edits' = edits + 1

upsert_gold_doc_override(d) ==
  /\ Edit
  /\ docRow' = [docRow EXCEPT ![d] = "live"]
  /\ UNCHANGED <<hasPassed, made, att, rewardVars, questionRow, skipVars>>

soft_delete_gold_doc(d) ==
  /\ Edit
  /\ MayDelete(d, get_active_gold_docs, GOLD_DOC_COUNT)
  /\ docRow' = [docRow EXCEPT ![d] = "deleted"]
  /\ UNCHANGED <<hasPassed, made, att, rewardVars, questionRow, skipVars>>

upsert_quiz_override(q) ==
  /\ Edit
  /\ questionRow' = [questionRow EXCEPT ![q] = "live"]
  /\ UNCHANGED <<hasPassed, made, att, rewardVars, docRow, skipVars>>

soft_delete_quiz_override(q) ==
  /\ Edit
  /\ MayDelete(q, get_active_quiz_questions, QUIZ_QUESTION_COUNT)
  /\ questionRow' = [questionRow EXCEPT ![q] = "deleted"]
  /\ UNCHANGED <<hasPassed, made, att, rewardVars, docRow, skipVars>>

-----------------------------------------------------------------------------
(* Attempts.                                                               *)

AttemptsOf(u) == {a \in live : att[a].owner = u}

is_locked_out(u) ==
  /\ AttemptsOf(u) # {}
  /\ \A a \in AttemptsOf(u) : ~att[a].passed
  /\ Cardinality(AttemptsOf(u)) >= maxAttempts

NextNumber(u) == Cardinality(AttemptsOf(u)) + 1

\* Nothing refuses a second attempt while one is open.
start_attempt(u) ==
  /\ made + 1 \in AttemptId
  /\ ~hasPassed[u] /\ ~is_locked_out(u)
  /\ Cardinality(get_active_quiz_questions) >= QUIZ_QUESTION_COUNT
  /\ Cardinality(get_active_gold_docs) >= GOLD_DOC_COUNT
  /\ made' = made + 1
  /\ att' = [a \in live \cup {made + 1} |->
               IF a = made + 1 THEN Blank(u, NextNumber(u)) ELSE att[a]]
  /\ UNCHANGED <<hasPassed, rewardVars, poolVars, skipVars>>

VerifyExists(u, a) == a \in live
VerifyOwner(u, a) == a \in live /\ att[a].owner = u

\* Drawn again at every call, from the pool of the moment.
Selected(a) == Draw[a][get_active_gold_docs]

\* Keys of the blob that begin with an underscore are taken for flags and are
\* not counted, a document's among them.
Submitted(details) == {d \in Doc \ Underscored : details.result[d] # "none"}
PassedDocs(details) == {d \in Doc \ Underscored : details.result[d] = "passed"}

CompleteWithSpare(row) == row.details.quiz /\ Cardinality(Submitted(row.details)) > GOLD_DOC_COUNT
Complete(row) == row.details.quiz /\ Cardinality(Submitted(row.details)) >= GOLD_DOC_COUNT

\* The early returns of finalize_if_complete.
FinalizesAgain(row) == Complete(row)
FinalizesFailed(row) == Complete(row) /\ ~row.passed
Finalizes(row) == Complete(row) /\ ~row.passed /\ ~row.details.finalized

Verdict(row) == row.quizScore >= QuizThreshold /\ row.passCount >= AnnotationThreshold

\* Each reward is fault-isolated: it may fail and leave the verdict standing.
Rewards(a, u) ==
  \E failed \in SUBSET Failable :
    /\ hasPassed' = IF "flag" \in failed THEN hasPassed ELSE [hasPassed EXCEPT ![u] = TRUE]
    /\ awards' = IF "points" \in failed THEN awards ELSE [awards EXCEPT ![a] = @ + 1]
    /\ notices' = IF "notice" \in failed THEN notices ELSE [notices EXCEPT ![a] = @ + 1]

\* The row a submission wrote, finalised in the same transaction.
finalize_if_complete(a, u, row) ==
  IF Finalizes(row)
  THEN /\ att' = [att EXCEPT ![a] =
             [row EXCEPT !.passed = Verdict(row), !.details.finalized = TRUE]]
       /\ IF Verdict(row) THEN Rewards(a, u) ELSE UNCHANGED <<hasPassed, rewardVars>>
  ELSE /\ att' = [att EXCEPT ![a] = row]
       /\ UNCHANGED <<hasPassed, rewardVars>>

\* The answers decide the score, any number of right ones.
submit_quiz(u, a, score) ==
  /\ VerifyOwner(u, a)
  /\ ~att[a].details.quiz
  /\ Cardinality(get_active_quiz_questions) >= QUIZ_QUESTION_COUNT
  /\ finalize_if_complete(a, u,
        [att[a] EXCEPT !.quizScore = score, !.details.quiz = TRUE])
  /\ UNCHANGED <<made, poolVars, skipVars>>

\* The references decide whether the document is passed.
submit_annotation(u, a, d, result) ==
  /\ VerifyOwner(u, a)
  /\ Cardinality(get_active_gold_docs) >= GOLD_DOC_COUNT
  /\ d \in Selected(a)
  /\ att[a].details.result[d] = "none"
  /\ LET details == [att[a].details EXCEPT !.result[d] = result]
     IN  finalize_if_complete(a, u,
           [att[a] EXCEPT !.passCount = Cardinality(PassedDocs(details)), !.details = details])
  /\ UNCHANGED <<made, poolVars, skipVars>>

-----------------------------------------------------------------------------
(* Skip and reset.                                                         *)

skip_training_checks(u) ==
  /\ skip[u].stage = "idle" /\ skips < MaxSkips
  /\ ~hasPassed[u]
  /\ skips' = skips + 1
  /\ skip' = [skip EXCEPT ![u].stage = "checked"]
  /\ UNCHANGED <<hasPassed, made, att, rewardVars, poolVars, bypassed>>

\* The open attempts, read before BEGIN.
skip_training_reads(u) ==
  /\ skip[u].stage = "checked"
  /\ skip' = [skip EXCEPT ![u] =
       [stage |-> "read",
        read |-> [a \in {b \in AttemptsOf(u) : ~att[b].passed} |-> att[a].details]]]
  /\ UNCHANGED <<hasPassed, made, att, rewardVars, poolVars, bypassed, skips>>

Stamped(details) == [details EXCEPT !.skipped = TRUE]
Closed(details) == [details EXCEPT !.finalized = TRUE, !.skipped = TRUE]

\* The transaction writes back the details as they were read.
skip_training_closes(u) ==
  LET toClose == {a \in DOMAIN skip[u].read : ~skip[u].read[a].finalized}
  IN  /\ skip[u].stage = "read"
      /\ att' = [a \in live |->
           IF a \in toClose THEN [att[a] EXCEPT !.details = Closed(skip[u].read[a])]
           ELSE att[a]]
      /\ hasPassed' = [hasPassed EXCEPT ![u] = TRUE]
      /\ bypassed' = bypassed \cup {u}
      /\ skip' = [skip EXCEPT ![u] = NoSkip]
      /\ UNCHANGED <<made, rewardVars, poolVars, skips>>

Deleted(u) == AttemptsOf(u)

\* The notification and the audit row of a reset come after its transaction.
reset_user_training(u) ==
  /\ att' = [a \in live \ Deleted(u) |-> att[a]]
  /\ hasPassed' = [hasPassed EXCEPT ![u] = FALSE]
  /\ bypassed' = bypassed \ {u}
  /\ UNCHANGED <<made, rewardVars, poolVars, skip, skips>>

-----------------------------------------------------------------------------
AdminEdits ==
  \/ \E d \in Doc : upsert_gold_doc_override(d) \/ soft_delete_gold_doc(d)
  \/ \E q \in Question : upsert_quiz_override(q) \/ soft_delete_quiz_override(q)

Submits(u, a) ==
  \/ \E score \in 0..QUIZ_QUESTION_COUNT : submit_quiz(u, a, score)
  \/ \E d \in Doc, result \in {"failed", "passed"} : submit_annotation(u, a, d, result)

Requests(u) ==
  \/ start_attempt(u)
  \/ \E a \in AttemptId : Submits(u, a)
  \/ skip_training_checks(u) \/ skip_training_reads(u) \/ skip_training_closes(u)
  \/ reset_user_training(u)

Next == (AdminEdits \/ \E u \in User : Requests(u)) /\ UNCHANGED maxAttempts

Spec == Init /\ [][Next]_vars

-----------------------------------------------------------------------------
(* Properties.                                                             *)

\* Every variable has its type.
TypeOK ==
  /\ maxAttempts \in MaxAttemptsValues
  /\ hasPassed \in [User -> BOOLEAN]
  /\ made \in Nat /\ live \subseteq AttemptId \cap 1..made
  /\ att \in [live -> Attempt]
  /\ docRow \in [Doc -> RowState] /\ questionRow \in [Question -> RowState]
  /\ awards \in [AttemptId -> Nat] /\ notices \in [AttemptId -> Nat]
  /\ \A u \in User :
       /\ skip[u].stage \in {"idle", "checked", "read"}
       /\ DOMAIN skip[u].read \subseteq AttemptId
       /\ \A a \in DOMAIN skip[u].read : skip[u].read[a] \in Details
  /\ DOMAIN skip = User
  /\ bypassed \subseteq User
  /\ edits \in Nat /\ skips \in Nat

\* No sequence of edits leaves fewer active documents or questions than an
\* attempt draws (the refusals of both soft deletes).
PoolsAreKept ==
  /\ Cardinality(get_active_gold_docs) >= GOLD_DOC_COUNT
  /\ Cardinality(get_active_quiz_questions) >= QUIZ_QUESTION_COUNT

\* Whatever the administrators do to the pool in the meantime, an attempt that
\* has no verdict can be continued: its quiz is open or a document it may
\* submit is left (documents are drawn again at every call).  The exception is
\* a draw with a document that the counters take for a flag: such an attempt
\* waits until the administrator takes the document out of the pool.
AttemptCanBeFinished ==
  \A a \in live : ~att[a].details.finalized =>
     \/ ~att[a].details.quiz
     \/ \E d \in Selected(a) : att[a].details.result[d] = "none"
     \/ Selected(a) \cap Underscored # {}

\* Points and the congratulation are given at most once for an attempt, and
\* only for one that passed, in whichever order its parts arrive.
AwardedOnce ==
  \A a \in AttemptId :
    LET most == IF a \in live /\ ~att[a].passed THEN 0 ELSE 1
    IN  awards[a] <= most /\ notices[a] <= most

\* A verdict stands: documents submitted after it, or a skip that writes old
\* details back, change neither the verdict nor its being final.
VerdictIsFinal ==
  [][\A a \in live \cap live' : att[a].details.finalized =>
       att'[a].details.finalized /\ att'[a].passed = att[a].passed]_vars

\* While an attempt is open its score columns say what its details say, so the
\* verdict is given for the work done (a skip that overtakes a submission
\* writes details back, and must close the attempt with them).
ColumnsMatchDetails ==
  \A a \in live : ~att[a].details.finalized =>
    /\ att[a].passCount = Cardinality(PassedDocs(att[a].details))
    /\ ~att[a].details.quiz => att[a].quizScore = 0
    /\ ~att[a].passed

\* The gate is open for a user who passed an attempt or skipped since the last
\* reset, or was inserted with it open, and for nobody else: nobody opens it for another user, and a reset
\* takes the attempts and the pass away together.
GateIsEarned ==
  /\ \A u \in User : hasPassed[u] => u \in bypassed \/ \E a \in AttemptsOf(u) : att[a].passed
  /\ "flag" \notin Failable => \A a \in live : att[a].passed => hasPassed[att[a].owner]

\* A user without a pass has at most maxAttempts attempts, numbered 1, 2, ...
AttemptsAreCounted ==
  \A u \in User :
    /\ \A a, b \in AttemptsOf(u) : a # b => att[a].number # att[b].number
    /\ (\A a \in AttemptsOf(u) : ~att[a].passed) => Cardinality(AttemptsOf(u)) <= maxAttempts

=============================================================================
