SPECIFICATION PathSpec
CONSTANTS
  MaxBytes = 17
  Word = 64
  Counts = {0, 1, 2}
  MessageLengths = {15, 20, 28}
  SetLengths = {5, 9, 12, 18}
  Ids = {256}
  FieldLengths = {0, 2}
  MaxFields = 2
  VarLengths = {0, 3}
  Var = Var
  NoTemplate = NoTemplate
  Datagrams = {0, 7, 40, 90, 160}
  SampleLengths = {0, 12, 40, 60, 80}
  RecordLengths = {0, 16, 20, 60}
  SFlowCounts = {0, 1, 2, 3}
  MaxCount = 2
  Frames = {13, 74}
  Extras = {0, 2}
  PortNumbers = {1, 2}
  Registries <- OneRegistry
  Milli = 2
  Second = 4
  Uptimes = 2
  Epoch = 3
  Era = 5
  Times = 32
  MinTime = 6
  MaxTime = 12
  MaxRecords = 2
  FieldSets <- TheFieldSets
  SampleSets <- TheSampleSets
  Payloads <- ThePayloads
  Origins <- TheOrigins
  ByteBits = 3
  NumberBytes = 3
  CustomFrames <- TheCustomFrames
  MaxTaken = 1
  LayerStarts = {0, 1}
  Names = {"", "x", "y", "z"}
  Types = {"varint", "string", "float"}
  Formatters <- TheFormatters
  Mappings <- TheMappings
INVARIANTS
  PathTypeOK
  FlowSetsAreAligned
  MessageEndsAtItsLength
  FixedRecordsAreWhole
  SamplesAreAligned
  WorkIsBoundedByBytes
  PortsBelongToAddresses
  InnerHeadersAreNotCollected
  FlowTimesAreClose
  AddressesAreTheFlows
  LabelsKeepTheirPlace
  RenderedIsTheBits
PROPERTIES
  DecodeEnds
CHECK_DEADLOCK FALSE
