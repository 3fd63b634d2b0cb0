\* One reload.
SPECIFICATION Spec
CONSTANTS
  Contents <- AllFiles
  Env = "secret"
  Ifaces <- TwoInterfaces
  Hangs = FALSE
  MaxSignals = 1
  MaxFailures = 0
INVARIANTS ReloadAsDocumented
CHECK_DEADLOCK FALSE
