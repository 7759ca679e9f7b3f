CONSTANTS
  h1 = h1
  h2 = h2
  Handles = {h1, h2}
  NoHandle = NoHandle
  Retries = 2
  N = 3
  Reliable <- NoneReliable
  MaxFaults = 0
  MaxUser = 3
SPECIFICATION Spec
SYMMETRY Symmetric
INVARIANTS
  CallbacksFindTheirClient
  ActiveIsConnected
  LoggedInIsActive
  IndexIsSought
PROPERTIES
  Implements
CONSTRAINT UntilOverlap
