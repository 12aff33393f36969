\* The list is used while the memory map is set up, and then left alone.
CHECK_DEADLOCK FALSE
CONSTANTS
  ram = ram
  tcm = tcm
  MaxAddr = 15
  PageSize = 2
  Tags <- MCTags
  Capacity = 2
  AddrLimit = 11
  MaxCombined = 8
  TempTags = {}
  ModTags = {}
  MergedTag = ram
  Sysalloc <- Empty
  Requests <- MCRequests
SPECIFICATION Spec
INVARIANTS
  LimitsKept
