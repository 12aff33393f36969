CONSTANTS
  MaxAddr = 63
  PageSize = 4
  Tags = {"ram", "sysalloc", "image", "reserved", "dtb", "fb", "vbe"}
  CellBase = 8
  StackLen = 4
  CacheMax = 9
  Machines <- PlainMachines
  SuperPage = 8
  Stride = 2
  Default = 3
  BufLen = 3
  VbeSize = 2
  Words <- InsideWord
  Kilo = 2
  WordMax = 63
  CmdLen = 4
  MaxHarts = 2
  Words32 = 4
  Harts = {h1, h2, h3}
  RamBase = 8
  ModAddr = 16
SPECIFICATION Spec
PROPERTY ArgsEnd
