SPECIFICATION Spec
CONSTANTS
  AllowedNTPDiff = 2
  V2MinRevision = 1
  MaxKey = 6
  Clusters = {0, 1, 2}
  Home <- ThreeHomes
  Selections <- TwoSelections
  Limit = 2
  MaxWrites = 2
  MaxCompactions = 1
INVARIANTS TypeOK NothingLostBetweenPages PagesAreSnapshot VersionNotFarBehind
CHECK_DEADLOCK FALSE
