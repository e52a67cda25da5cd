CONSTANTS
  None = None
  NumberOf <- MCNumberOf
  SavedNumberOf <- MCNumberOf
  Ignored <- MCIgnored
  Alike <- MCAlike
  References <- MCReferences
  Pool <- MCPool
  Lists <- MCLists
  Predictions <- MCPredictions
  Opened <- MCNewPage
  Answers <- MCAnswers
  Jobs = {j1, j2}
  MaxUpsets = 1
  MaxPredictions = 2
SYMMETRY JobSymmetry
SPECIFICATION Spec
INVARIANT OverrideIsHis
CHECK_DEADLOCK FALSE
