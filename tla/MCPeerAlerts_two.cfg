\* Two peers.
SPECIFICATION FairSpec
CONSTANTS
  p1 = p1
  p2 = p2
  Peers <- TwoPeers
  Results <- SomeResults
  Threshold = 2
  Duration = 1
INVARIANTS TypeOK DownIsConfirmed StatusIsTold
PROPERTIES EdgesAlternate CriticalKeepsRinging
