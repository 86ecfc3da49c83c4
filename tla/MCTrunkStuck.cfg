SPECIFICATION Spec
CONSTANTS
  MaxComponent = 3
  Empty = Empty
  AllowedSections = {"Added"}
  Overlong <- NoOverlong
  Docs <- MCDocs
  Severities <- DefaultSeverities
  Ordered = TRUE
  MaxCommits = 1
  MaxDay = 2
CHECK_DEADLOCK FALSE
INVARIANT SomeMoveIsGreen
