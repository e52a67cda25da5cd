CONSTANTS
  None = None
  NumberOf <- MCNumberOf
  SavedNumberOf <- MCSavedNumberOf
  Ignored <- MCIgnored
  Alike <- MCAlike
  References <- MCReferences
  Pool <- MCPool
  Lists <- MCLists
  Predictions <- MCPredictions
  Opened <- MCOpened
  Answers <- MCAnswers
  Jobs = {j1, j2}
  MaxUpsets = 1
  MaxPredictions = 2
SYMMETRY JobSymmetry
SPECIFICATION Spec
INVARIANTS RowsMatchBucket OffersAreNew UnpressedOverride RefusedOnlyIfOvertaken
CHECK_DEADLOCK FALSE
