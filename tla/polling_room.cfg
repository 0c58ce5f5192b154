\* Two messages, one of which may be the user's own.
CONSTANTS
  Ids = {1, 2}
  Sends = {"x"}
SPECIFICATION FairSpec
INVARIANTS NothingMissing PollsWhileInUse
PROPERTIES NothingAfterLeaving ImplementsFeed EventuallyShown
CHECK_DEADLOCK FALSE
