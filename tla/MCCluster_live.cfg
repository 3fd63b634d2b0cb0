\* Two nodes whose health may change at any check.
SPECIFICATION FairSpec
CONSTANTS
  N = 2
  Skews <- FarPair
  KernelPreempts <- None
  Mode = "preempt"
  Confirm = 2
  Carp <- Default
  HealthResults <- AlsoLimping
  Lossy = FALSE
  MaxMisreads = 0
  MaxRestarts = 0
PROPERTIES Settles NeverAbandoned
