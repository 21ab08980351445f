SPECIFICATION Spec
CONSTANTS
  e1 = e1
  e2 = e2
  e3 = e3
  h1 = h1
  h2 = h2
  Workers = {w1}
  Exporters = {e1, e2, e3}
  Hosts = {h1, h2}
  HostOf <- MCHostOf
  Ids = {1, 2}
  OptionIds = {2}
  PacketSets <- MCPacketSets
  MaxPackets = 4
INVARIANT StoredIsRetrievable
INVARIANT SureRateIsApplied
PROPERTY SureTemplatesAreFound
CHECK_DEADLOCK FALSE
