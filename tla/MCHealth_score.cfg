\* A service that changes at any time, two addresses, six configurations.
SPECIFICATION Spec
CONSTANTS
  Configs <- SomeConfigs
  NProcesses = 1
  NAddresses = 2
  NDomains = 2
INVARIANTS TypeOK FullyHealthyIsExact DeadIsUnhealthy HealthyAnswered
