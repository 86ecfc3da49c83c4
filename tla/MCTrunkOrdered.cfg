SPECIFICATION Spec
CONSTANTS
  MaxComponent = 3
  Empty = Empty
  AllowedSections = {"Added"}
  Overlong <- NoOverlong
  Docs <- MCDocs
  Severities <- TrunkSeverities
  Ordered = TRUE
  MaxCommits = 3
  MaxDay = 2
CHECK_DEADLOCK FALSE
INVARIANTS
  ReleasesRise
  ReleasedEntriesKept
  MajorTagsKeepUp
  ReleaseStaysGreen
