\* State changes, the state file, the VIP loss alert and a restart.
SPECIFICATION FairSpec
CONSTANTS
  Confirm = 2
  Duration = 1
  VIPLossAlert = TRUE
  Modes <- BothModes
  States <- GoodOrBad
  Carps <- MasterOrBackup
  Advskew = 100
  Effectives <- TwoPriorities
  Demotions <- Demoted
  MaxRestarts = 1
  MaxFailures = 1
INVARIANTS TypeOK DebounceKept RecordKept
PROPERTIES VIPLossHasCause PersistentStateRecorded
