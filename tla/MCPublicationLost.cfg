SPECIFICATION TirelessSpec
CONSTANTS
  Releases = {1}
  Assets <- MCAssets
  Sums = "sums"
  Posts = 3
  Polls = 3
  MirrorRuns = 2
CHECK_DEADLOCK FALSE
PROPERTY ForgeCarriesIt
