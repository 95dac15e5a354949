CONSTANTS
  Handler = {h1, h2}
  Host = {a}
  NoHost = NoHost
  Unknown = Unknown
  NoKey = NoKey
  MaxActiveConnections = 2
  MaxConnectionsPerClient = 1
  MaxUpgradesPerClientPerMinute = 1
  WindowLength = 1
  MaxDelay = 1
  MaxClock = 2
  HasPing = TRUE
  HasIdle = TRUE
SPECIFICATION Spec
INVARIANTS SessionsWithinCaps NothingLeftBehind
PROPERTIES DisconnectIsLast ImplementsGuard SlotsReclaimed KeeperEnds
