\* Undisturbed cycles: reloads between two configurations, one peer.
SPECIFICATION FairSpec
CONSTANTS
  Configs <- TwoConfigs
  HealthResults <- AllHealth
  Reports <- AllReports
  NPeers = 1
  Advskew = 100
  PreemptCooldown = 2
  KernelGrace = 2
  MaxFailures = 0
  MaxRestarts = 0
  MayStop = FALSE
  GoodRunCap = 3
INVARIANTS TypeOK Posture DownIsCostly GraceGiven KernelTracked
PROPERTIES VIPControlled ReclaimEarned CooldownKept UnhealthyWithdraws FullyHealthyServes
