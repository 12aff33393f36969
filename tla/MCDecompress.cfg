CONSTANTS
  elf = elf
  Bottoms = {4, 8, 18}
  RamStart = 2
  MaxAddr = 55
  PageSize = 2
  Tags <- MCTags
  ElfTag = elf
  MinRam = 1
  Setups <- MCSetups
SPECIFICATION Spec
INVARIANTS UnpackedIntact StopsOnlyWithoutRam ModulesSafe
