\* Three StreamChat calls, two messages, one of which may be the user's own.
CONSTANTS
  Streams = {1, 2, 3}
  Ids = {1, 2}
  Sends = {"x"}
  NoStream = NoStream
SPECIFICATION FairSpec
INVARIANTS NoDuplicates NothingMissing NeverStranded OneStream
PROPERTIES ImplementsFeed EventuallyShown
CHECK_DEADLOCK FALSE
