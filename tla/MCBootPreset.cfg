CONSTANTS
  MaxAddr = 95
  PageSize = 4
  SuperPage = 8
  Grain = 2
  Tags <- MCTags
  Setups <- MCSetups
  Orders <- MCOrders
  Links <- MCLinks
  ModAddrs <- MCModAddrs
  KipsAndKopts <- MCKipsAndKopts
  Maps <- MCMaps
  Presets = {TRUE, FALSE}
  Relocatable = {TRUE, FALSE}
SPECIFICATION Spec
INVARIANT PresetHarmless
