SPECIFICATION FairSpec
CHECK_DEADLOCK FALSE
CONSTANTS
  Workers = {w1}
  Jobs = {j1, j2}
  Rows = {numbered, plain}
  NoRow = NoRow
  Numbered = {numbered}
  Faults = {"crash", "job", "request"}
  MaxCrashes = 2
INVARIANTS
  TypeOK
  NothingBeforeCommit
  NothingSkippedSilently
  EveryRowIsSettled
  OncePerLife
PROPERTIES
  BatchLeavesBackground
