CONSTANTS
  Workers = {w1, w2}
  NoWorker = NoWorker
  MaxResults = 1
SPECIFICATION ResultsSpec
INVARIANT HandlerIsSet
