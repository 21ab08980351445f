SPECIFICATION Spec
CONSTANTS
  ip1 = ip1
  ip2 = ip2
  NoRow = NoRow
  IPs <- OneIP
  RequiredChecks = 2
  ConstantMinutes = 1
  MaxPersist = 3
  EndSilence = 2
  MaxDelay = 1
  MaxRestarts = 0
PROPERTY EndedMeansOver
