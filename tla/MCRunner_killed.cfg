\* The process is killed once and started again.
SPECIFICATION FairSpec
CONSTANTS
  Configs <- OneConfig
  HealthResults <- GoodOrBad
  Reports <- KernelReports
  NPeers = 1
  Advskew = 100
  PreemptCooldown = 1
  KernelGrace = 1
  MaxFailures = 0
  MaxRestarts = 1
  MayStop = FALSE
  GoodRunCap = 3
PROPERTIES FullyHealthyServes

