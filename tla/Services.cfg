\* Each component alone, in bounds within which its hazards happen
CONSTANTS
  Modes = {"none", "auto", "always"}
  Workers = {w1, w2}
  NoWorker = NoWorker
  MaxResults = 2
  Listeners = {c1, c2, c3}
  MaxResolves = 4
  LineChunk = 3
  MaxBytes = 7
  DaemonSlots = 2
  DaemonTips = 2
  DaemonFaults = 1
  SelfRetries = 0
  SelfJobs = 2
  SelfFaults = 2
SPECIFICATION ServicesSpec
INVARIANTS
  StateChanges
  UserJobIsMined
  MinesForSomeone
  DonationGoesOn
  OnceAndInOrder
  LookupKeepsItsRequest
  LinesAreWhole
  TemplateIsTheJobs
  PausesAsConfigured
PROPERTIES
  UserIsServed
  ResultsArrive
  EveryoneIsAnswered
  TipIsMined
  JobsAreServed
CHECK_DEADLOCK FALSE
