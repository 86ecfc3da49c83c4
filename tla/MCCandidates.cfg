SPECIFICATION FairSpec
CONSTANTS
  PRs = {p1, p2}
  Stages = {"rc"}
  Branch <- OneBranch
  Proposed = {"dated", "open", "other"}
  MaxRevisions = 3
  MaxTags = 1
CHECK_DEADLOCK FALSE
INVARIANTS
  OrdinalInv
  ReleasedFromTrunk
  LateCandidatesAreNotBuilt
PROPERTY RunsEnd
