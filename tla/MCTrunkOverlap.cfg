SPECIFICATION Spec
CONSTANTS
  MaxComponent = 3
  Empty = Empty
  AllowedSections = {"Added"}
  Overlong <- NoOverlong
  Docs <- MCDocsFew
  Severities <- DefaultSeverities
  Ordered = FALSE
  MaxCommits = 3
  MaxDay = 1
CHECK_DEADLOCK FALSE
INVARIANTS
  ReleaseInv
  OneTagPerVersion
PROPERTY TagsNeverMove
