SPECIFICATION Spec
CONSTANTS
  Workers = {w1, w2}
  Sockets = {s1, s2}
  Buffers = {b1, b2, b3, b4, b5}
  QueueSizes = {0, 1}
  NoBuf = NoBuf
  Nil = Nil
  MaxDatagrams = 4
  MaxSessions = 2
  MaxFaults = 1
SYMMETRY Symmetry
INVARIANT TypeOK
INVARIANT OneOwner
INVARIANT StoppedIsQuiet
INVARIANT OneNilPerWorker
INVARIANT Accounted
PROPERTY ImplementsSession
