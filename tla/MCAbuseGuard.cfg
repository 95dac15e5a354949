CONSTANTS
  Handler = {h1, h2, h3}
  Host = {a, b}
  NoHost = NoHost
  Unknown = Unknown
  NoKey = NoKey
  MaxActiveConnections = 2
  MaxConnectionsPerClient = 1
  MaxUpgradesPerClientPerMinute = 2
  WindowLength = 2
  MaxDelay = 2
  MaxClock = 4
SYMMETRY HandlerSymmetry
SPECIFICATION Spec
INVARIANTS TypeOK SlotsMatchHolders
PROPERTIES WindowNeverRewinds RefusalIsJustified ImplementsSlotPool
