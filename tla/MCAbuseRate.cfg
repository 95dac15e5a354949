CONSTANTS
  Handler = {h1, h2, h3}
  Host = {}
  NoHost = NoHost
  Unknown = Unknown
  NoKey = NoKey
  MaxActiveConnections = 2
  MaxConnectionsPerClient = 0
  MaxUpgradesPerClientPerMinute = 2
  WindowLength = 2
  MaxDelay = 3
  MaxClock = 5
SYMMETRY HandlerSymmetry
SPECIFICATION RateSpec
INVARIANT AttemptsInAnyMinute
