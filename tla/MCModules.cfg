CONSTANTS
  busy = busy
  root = root
  Grain = 4
  Sizes = {2, 4, 7}
  MaxAddr = 31
  PageSize = 4
  Tags <- MCTags
  ModTag = root
  MaxMods = 3
  Layouts <- MCLayouts
SPECIFICATION Spec
INVARIANTS ModulesMoved OnlyTargetWritten
