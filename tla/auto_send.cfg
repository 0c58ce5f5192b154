CONSTANTS
  Window = 1
  SlidingMax = 2
  FixedMax = 1
  Technologies = {"GRPC", "Polling", "SSE", "SignalR", "SocketIO", "WebSockets"}
  Sends = {1, 2, 3}
  Loops = {1, 2}
  Work = 4
  Interval = 1
  SimTime = 2
  MaxTime = 2
SPECIFICATION FairSpec
INVARIANTS CountsAddUp NoLostWakeup NeverLimited RateBounds
PROPERTIES RunEnds
CHECK_DEADLOCK FALSE
