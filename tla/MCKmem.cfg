CONSTANTS
  used = used
  kmem = kmem
  Starts = {0, 2, 4, 8, 10, 14}
  Ends = {1, 3, 5, 9, 11, 15}
  MaxAddr = 15
  PageSize = 4
  Tags <- MCTags
  Kmem = kmem
  Cases <- MCCases
SPECIFICATION Spec
INVARIANTS KmemRight
PROPERTY KmemEnds
