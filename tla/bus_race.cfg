\* Two subscribers and a message of one chat, a third subscriber of another chat.
CONSTANTS
  c1 = c1
  c2 = c2
  s1 = s1
  s2 = s2
  s3 = s3
  m1 = m1
  m2 = m2
  Chats = {c1, c2}
  Subs = {s1, s2, s3}
  Messages = {m1}
  SubChat <- TwoChats
  MsgChat <- TwoChatsMsg
  Capacity = 1
  NoList = NoList
SPECIFICATION BusFairSpec
INVARIANTS BusInv ReachableUnlessRival PublishReachesAudience
PROPERTIES BusDrains
CHECK_DEADLOCK FALSE
