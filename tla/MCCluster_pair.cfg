\* Two nodes, lost heartbeats, one agent killed and perhaps started again.
SPECIFICATION Spec
CONSTANTS
  N = 2
  Skews <- NearPair
  KernelPreempts <- First
  Mode = "preempt"
  Confirm = 2
  Carp <- Default
  HealthResults <- GoodOrBad
  Lossy = TRUE
  MaxMisreads = 1
  MaxRestarts = 1
INVARIANTS TypeOK YieldsToServing DownLooksWorse
