SPECIFICATION FairSpec
CONSTANTS
  Releases = {1, 2}
  Assets <- OneBinary
  Sums = "sums"
  Posts = 2
  Polls = 2
  MirrorRuns = 2
CHECK_DEADLOCK FALSE
INVARIANTS
  DeliveryInv
  InstallNeedsOneForge
PROPERTIES
  Delivers
  RunsEnd
