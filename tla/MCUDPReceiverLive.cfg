SPECIFICATION FairSpec
CONSTANTS
  Workers = {w1, w2}
  Sockets = {s1}
  Buffers = {b1, b2, b3, b4}
  QueueSizes = {0, 1}
  NoBuf = NoBuf
  Nil = Nil
  MaxDatagrams = 3
  MaxSessions = 2
  MaxFaults = 1
PROPERTY StopReturns
PROPERTY QueuedIsTaken
PROPERTY SocketsGetClosed
