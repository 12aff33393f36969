CONSTANTS
  mod = mod
  moved = moved
  merged = merged
  MaxAddr = 7
  PageSize = 4
  Tags <- MCTags
  Capacity = 3
  AddrLimit = 7
  MaxCombined <- Unlimited
  TempTags = {mod}
  ModTags = {moved}
  MergedTag = merged
  Sysalloc <- MCSysalloc
  Requests <- MCRequests
SPECIFICATION Spec
INVARIANTS
  TypeOK
  StoreBound
  RegionsSorted
PROPERTIES
  ImplementsClaims
  CallsEnd
