SPECIFICATION Spec
CONSTANTS
  MaxComponent = 3
  Empty = Empty
  AllowedSections = {"Added"}
  Overlong <- MCOverlong
  d1 = d1
  d2 = d2
  Delims = {d1, d2}
  Draws = 2
  Bodies <- MCBodies
  Fired <- MCFired
  Flags <- MCFlags
  Befores <- MCBefores
CHECK_DEADLOCK FALSE
INVARIANTS
  ReadsBack
  RedRunsReport
PROPERTY RunEnds
