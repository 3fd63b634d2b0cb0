\* A process with reloads, stops, failing commands and sends, and peers and mail servers that stay silent.
SPECIFICATION FairSpec
CONSTANTS
  Contents <- AllFiles
  Env = "secret"
  Ifaces <- TwoInterfaces
  Hangs = TRUE
  MaxSignals = 3
  MaxFailures = 1
INVARIANTS TypeOK UsableConfig  AlertTriesAll
PROPERTIES AcceptedTermEnds LatestTakesOver
CHECK_DEADLOCK FALSE
