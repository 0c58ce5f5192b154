\* Two subscribers of one chat against one publish.
CONSTANTS
  c1 = c1
  c2 = c2
  s1 = s1
  s2 = s2
  s3 = s3
  m1 = m1
  m2 = m2
  Chats = {c1}
  Subs = {s1, s2}
  Messages = {m1}
  SubChat <- OneChat
  MsgChat <- OneChatMsg
  Capacity = 1
  NoList = NoList
SPECIFICATION BusSpec
INVARIANTS PublishReachesEveryone
CHECK_DEADLOCK FALSE
