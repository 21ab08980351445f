SPECIFICATION FairSpec
CONSTANTS
  Receivers = 2
  ReceiverOf <- OneEach
  Senders = {1, 2}
  MaxPackets = 2
  MaxMessages = 2
  Maxima = {0, 1}
  Room = 1
  ErrorRoom = 1
  MaxHups = 1
INVARIANTS
  NoSendMeetsClose
  ErrorsAreAccounted
PROPERTIES
  ShutdownEnds
CHECK_DEADLOCK FALSE
