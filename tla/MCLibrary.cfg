SPECIFICATION Spec
CONSTANTS
  MaxComponent = 3
  MaxEntries = 3
  Empty = Empty
  AllowedSections = {"Added"}
  Overlong <- MCOverlong
  Stream <- MCVersions
  Origin <- v100
  Entries <- MCEntries
  Repos <- MCRepos
CHECK_DEADLOCK FALSE
INVARIANTS
  TotalOrder
  NumeralsByValue
  PrereleaseBetweenFinals
  FullSpellingWins
  GreenRunsNewestFirst
  CheckAgreesWithOutput
  DueIsAboveReference
  NothingBelowUnreadable
  KeptIsSilent
