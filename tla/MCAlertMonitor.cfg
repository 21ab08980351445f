SPECIFICATION FairSpec
CONSTANTS
  ip1 = ip1
  ip2 = ip2
  NoRow = NoRow
  IPs <- TwoIPs
  RequiredChecks = 3
  ConstantMinutes = 1
  MaxPersist = 4
  EndSilence = 1
  MaxDelay = 1
  MaxRestarts = 1
INVARIANT TypeOK
INVARIANT OneBookPerAddress
INVARIANT AlertsAndEndsPair
INVARIANT NoCriticalRowIgnored
INVARIANT WatchIsUnbroken
INVARIANT ChecksAreGrowth
PROPERTY ConfirmedByGrowth
PROPERTY StoppedAttackIsClosed
