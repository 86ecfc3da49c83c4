SPECIFICATION Spec
CONSTANTS
  MaxComponent = 2
  Empty <- NoBody
  AllowedSections <- MCSections
  Overlong <- NoOverlong
  Fold <- MCFold
  Breaking <- MCBreaking
  c1 = c1
  c2 = c2
  Commands = {c1}
  Requests <- MCAsked
  StartDocs <- Above1
  MaxLines = 8
  MaxDay = 1
  Numbers <- MCNumbers
CHECK_DEADLOCK FALSE
INVARIANT NotesMove
