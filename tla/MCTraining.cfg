SPECIFICATION Spec
CONSTANTS
  q1 = q1
  q2 = q2
  User = {ann, bob}
  MaxAttemptId = 2
  Doc <- Docs
  BaseDoc <- BaseDocs
  Underscored <- UnderscoredDocs
  Question = {q1, q2}
  BaseQuestion = {q1, q2}
  GOLD_DOC_COUNT = 2
  QUIZ_QUESTION_COUNT = 1
  MaxAttemptsValues = {2}
  QuizThreshold = 1
  AnnotationThreshold = 1
  Draw <- Sample
  Failable = {"points"}
  MaxEdits = 1
  MaxSkips = 1
SYMMETRY Symmetry
INVARIANTS AttemptCanBeFinished AwardedOnce ColumnsMatchDetails
INVARIANTS GateIsEarned
PROPERTY VerdictIsFinal
CHECK_DEADLOCK FALSE
