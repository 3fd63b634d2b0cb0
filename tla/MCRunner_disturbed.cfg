\* A failing command, a killed process and a stop, at every point of a cycle.
SPECIFICATION Spec
CONSTANTS
  Configs <- OneConfig
  HealthResults <- SomeHealth
  Reports <- PlainReports
  NPeers = 1
  Advskew = 100
  PreemptCooldown = 0
  KernelGrace = 1
  MaxFailures = 1
  MaxRestarts = 1
  MayStop = TRUE
  GoodRunCap = 2
INVARIANTS QuietStopRestores
PROPERTIES VIPControlled
CHECK_DEADLOCK FALSE
