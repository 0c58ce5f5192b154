\* Every technique, and a message that the user or someone else sends.
CONSTANTS
  Ids = {1}
  MaxGuards = 2
SPECIFICATION FairSpec
INVARIANTS NoDuplicates NothingMissing
PROPERTIES SettlesInRoom LeavesForGood
CHECK_DEADLOCK FALSE
