\* One stream against two messages, with a channel of one that overflows.
CONSTANTS
  c1 = c1
  c2 = c2
  s1 = s1
  s2 = s2
  Chats = {c1}
  Subs = {s1}
  Messages = {1, 2}
  SubChat <- OneChat
  MsgChat <- OneChatMsg
  Capacity = 1
  NoList = NoList
SPECIFICATION FairSpec
INVARIANTS NoGapWhenInOrder LiveKeepsItsPlace
PROPERTIES ImplementsFeed EventuallyEmitted
CHECK_DEADLOCK FALSE
