CONSTANTS
  Handlers = {h1, h2}
  Root = root
  Unknown = unknown
  People = {p}
  NoOne = NoOne
  MaxRequests = 2
  MaxRows = 4
  MaxCrashes = 1
SPECIFICATION Spec
SYMMETRY Symmetry
INVARIANTS OneRole ChatsBounded FollowOnce
PROPERTIES DeletionSucceedsAlone PasswordKept
CHECK_DEADLOCK FALSE
