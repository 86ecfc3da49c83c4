SPECIFICATION HistorySpec
CONSTANTS
  MaxComponent = 3
  Empty = Empty
  AllowedSections = {"Added"}
  Overlong <- MCOverlong
  NoCommit = NoCommit
  Commits = {1, 2, 3}
  Names <- TwoNames
  Zones <- BehindAndAhead
  Dating = {"utc", "local"}
  MaxMoment = 2
CHECK_DEADLOCK FALSE
INVARIANTS
  HonestDatesSettle
  ShallowIsWholeOrRefused
