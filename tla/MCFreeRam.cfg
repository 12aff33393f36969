CONSTANTS
  t = t
  MaxAddr = 23
  PageSize = 4
  Tags <- MCTags
  MinRam = 1
  Used = {0, 1, 4, 7, 8, 10, 12, 13, 15}
  Searches <- MCSearches
SPECIFICATION Spec
INVARIANTS SearchRight
PROPERTY SearchEnds
