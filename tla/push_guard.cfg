\* As push_room, without the fairness.
CONSTANTS
  Ids = {1}
  MaxGuards = 2
SPECIFICATION Spec
PROPERTIES AnsweredJoinStands
CHECK_DEADLOCK FALSE
