SPECIFICATION Spec
CONSTANTS
  MaxComponent = 3
  c1 = c1
  c2 = c2
  c3 = c3
  NoCommit = NoCommit
  Commits <- MCCommits
  Names <- MCNames
  Checkouts <- MCCheckouts
CHECK_DEADLOCK FALSE
INVARIANTS IInv QueueBounded
PROPERTIES KeepsPromise Returns
