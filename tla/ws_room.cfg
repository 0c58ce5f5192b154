\* Two connections that may join the chat and take its group down, and one message.
CONSTANTS
  c1 = c1
  c2 = c2
  r1 = r1
  Conns = {c1, c2}
  Chats = {r1}
  Messages = {m1}
  MsgChat <- OneChatMsg
  MayJoin <- EveryChat
  MaxGroups = 3
  None = None
SPECIFICATION FairSpec
INVARIANTS ReachableUnlessDisturbed NoStaleMembers SavedReachesRoom
PROPERTIES EventuallyForgotten
CHECK_DEADLOCK FALSE
