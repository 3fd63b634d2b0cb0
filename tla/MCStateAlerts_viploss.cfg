\* A healthy MASTER loses the VIP.
SPECIFICATION Spec
CONSTANTS
  Confirm = 1
  Duration = 1
  VIPLossAlert = TRUE
  Modes <- PreemptOnly
  States <- AnyState
  Carps <- MasterOrBackup
  Advskew = 100
  Effectives <- TwoPriorities
  Demotions <- DemotedOrNot
  MaxRestarts = 0
  MaxFailures = 0
PROPERTIES VIPLossReported
