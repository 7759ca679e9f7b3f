CONSTANTS
  h1 = h1
  h2 = h2
  Handles = {h1, h2}
  NoHandle = NoHandle
  Retries = 2
  N = 2
  Reliable <- NoneReliable
  MaxFaults = 0
  MaxUser = 3
SPECIFICATION SpecRedirected
SYMMETRY Symmetric
INVARIANTS
  ClientsAreFound
