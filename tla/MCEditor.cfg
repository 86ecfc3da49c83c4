SPECIFICATION Spec
CONSTANTS
  MaxComponent = 2
  Empty <- NoBody
  AllowedSections <- MCSections
  Overlong <- NoOverlong
  Fold <- MCFold
  Breaking <- MCBreaking
  c1 = c1
  c2 = c2
  Commands = {c1, c2}
  Requests <- MCAsked
  StartDocs <- MCStart
  MaxLines = 11
  MaxDay = 2
  Numbers <- MCNumbers
CHECK_DEADLOCK FALSE
INVARIANTS
  WritesLintClean
  SectionsInOrder
  LinksChain
  RerunAddsNothing
  ReportsItsRelease
  BreakingIsNoPatch
PROPERTY KeepsTheLedger
