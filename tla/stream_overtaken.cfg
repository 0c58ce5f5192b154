\* One stream, two senders, and a channel that holds both messages.
CONSTANTS
  c1 = c1
  c2 = c2
  s1 = s1
  s2 = s2
  Chats = {c1}
  Subs = {s1}
  Messages = {1, 2}
  SubChat <- OneChat
  MsgChat <- OneChatMsg
  Capacity = 2
  NoList = NoList
SPECIFICATION Spec
INVARIANTS EmitsWhatItReads
CHECK_DEADLOCK FALSE
