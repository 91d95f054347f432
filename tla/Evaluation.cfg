SPECIFICATION Spec
CONSTANTS
  RrfK = 60
  LexicalWeight = 1
  VectorWeight = 1
  Datasets <- MCDatasets
  ModeLists <- MCModeLists
  Thresholds <- MCThresholds
  OutputLists <- MCOutputLists
  TopK = 2
  Unit = 2
  Discount <- MCDiscount
  None = None
INVARIANTS
  FusionIsReciprocalRank NdcgIsProportion CategoriesAddUp ExitCodeIsVerdict
