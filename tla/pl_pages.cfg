SPECIFICATION Spec
CONSTANTS
  AllowedNTPDiff = 2
  V2MinRevision = 1
  MaxKey = 6
  Clusters = {0, 1, 2}
  Home <- ThreeHomes
  Selections <- TwoSelections
  Limit = 1
  MaxWrites = 0
  MaxCompactions = 0
INVARIANT ContinueIsOneList
CHECK_DEADLOCK FALSE
