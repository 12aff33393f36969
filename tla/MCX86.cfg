CONSTANTS
  MaxAddr = 83
  PageSize = 4
  Tags <- MCTags
  Chunk = 2
  MbiCells = 3
  VbeCells = 7
  TagLists <- MCTagLists
  Boots <- MCBoots
  KernelSize = 6
  MaxEvents = 4
  WordSize = 2
  InfoSize = 2
  EntrySize = 1
  ModeSize = 2
  CtrlSize = 1
  Top = 68
  E820 <- MCE820
SPECIFICATION MCSpec
INVARIANTS ConversionRight RamRight KernelOwned CleanExit InfoIntact ModulesDelivered
