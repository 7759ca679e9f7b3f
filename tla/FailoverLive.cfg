CONSTANTS
  h1 = h1
  h2 = h2
  Handles = {h1, h2}
  NoHandle = NoHandle
  Retries = 2
  N = 2
  Reliable <- OneReliable
  MaxFaults = 4
  MaxUser = 1
SPECIFICATION FairSpec
PROPERTIES
  PrimaryReturns
  BackupServes
