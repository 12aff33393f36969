CONSTANTS
  Entries = 4
  PoolPages = 6
  PageSize = 2
  Limit = 128
  MaxReservations = 5
  Machines <- MCMachines
  NumBars = 2
  Buses = 2
  Devs = 2
  Funcs = 3
  MaxWait = 3
  Setups <- MCSetups
SPECIFICATION MCSpec
INVARIANTS TablesRight StubRight BusQuiet DmaUntilHandoff PortsRight
PROPERTY StartEnds
